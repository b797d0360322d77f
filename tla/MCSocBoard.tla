----------------------------- MODULE MCSocBoard -----------------------------
(* Instances of SocBoard for TLC.                                          *)
EXTENDS SocBoard, TLC

CONSTANTS f1, f2, i1, i2, o1, o2

MCPairs == {{i1, o1}, {i2, o2}}

(* The files are alike, and so are the pairs of channels.                  *)
Symmetry ==
  Permutations(Files) \union {i1 :> i2 @@ i2 :> i1 @@ o1 :> o2 @@ o2 :> o1}

AllClauses == Clauses
AllSocClauses == SocClauses
=============================================================================
