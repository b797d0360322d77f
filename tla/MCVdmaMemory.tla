---------------------------- MODULE MCVdmaMemory ----------------------------
(* Instances of VdmaMemory for TLC.                                        *)
EXTENDS VdmaMemory, TLC

CONSTANTS f1, f2, s1, s2

MCMaxHandles == f1 :> 2 @@ f2 :> 1

(* A mapping of two units, one by descriptor and one of a dmabuf's mapping. *)
MCMapRequests ==
  {[addr |-> 1, size |-> 2, type |-> "ptr", dir |-> "both", vma |-> "pages"],
   [addr |-> 5, size |-> 1, type |-> "fd", dir |-> "from", vma |-> "pages"],
   [addr |-> 8, size |-> 1, type |-> "ptr", dir |-> "to", vma |-> "dmabuf"]}

(* The second half of the mapping, and the descriptor.                     *)
MCLaunchBuffers ==
  {[addr |-> 2, size |-> 1, type |-> "ptr"], [addr |-> 5, size |-> 1, type |-> "fd"]}

MCSymmetry == Permutations({s1, s2})

=============================================================================
