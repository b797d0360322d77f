--------------------------- MODULE MCVdmaChannel ---------------------------
(* Instances of VdmaChannel for TLC.                                       *)
EXTENDS VdmaChannel, TLC

CONSTANTS l1, l2

Symmetry == Permutations({l1, l2})

Lists1 == {l1}
Lists2 == {l1, l2}

DescCount4 == [l \in Lists |-> 4]
(* Lists of different lengths.                                             *)
DescCountMixed == l1 :> 4 @@ l2 :> 2

AllClauses == Clauses
NoRoom == Clauses \ {"room"}
NoSlots == Clauses \ {"slots"}
NoCounts == Clauses \ {"counts"}

UpToFour == 1 .. 4
=============================================================================
