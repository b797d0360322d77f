------------------------------ MODULE Rounding ------------------------------
(* The arithmetic that cuts buffers and files into pages.                  *)
EXTENDS Integers

(* DIV_ROUND_UP: the pieces of d that hold n.                              *)
DivRoundUp(n, d) == (n + d - 1) \div d

Lesser(a, b) == IF a < b THEN a ELSE b
=============================================================================
