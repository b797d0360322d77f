------------------------------- MODULE MCNnc -------------------------------
(* Instances of Nnc for TLC.                                               *)
EXTENDS Nnc

CONSTANTS r, k, f1, f2

(* Both threads use the first file.                                        *)
FirstFile == [t \in Threads |-> f1]
AllClauses == Clauses
=============================================================================
