--------------------------- MODULE MCGcodeSubset ---------------------------
(* Every G code alone, two of them in one line, words of every axis, a     *)
(* word nobody knows, a line of words without a G code, G92 in and out of  *)
(* the limits.                                                             *)
EXTENDS GcodeSubset
Line(g, w) == [g |-> g, words |-> w, unknown |-> FALSE]
X(n) == [a \in {"X"} |-> n]
B(n) == [a \in {"B"} |-> n]
XC(n, c) == [a \in {"X", "C"} |-> IF a = "X" THEN n ELSE c]
MCLines ==
  {Line(<< 1 >>, X(1)), Line(<< 1 >>, XC(2, 2)), Line(<< 1 >>, B(1)), Line(<< 1 >>, B(-1)),
   Line(<< 90 >>, << >>), Line(<< 91 >>, << >>), Line(<< 20 >>, << >>), Line(<< 21 >>, << >>),
   Line(<< 92 >>, X(0)), Line(<< 92 >>, X(3)), Line(<< 92 >>, X(-1)),
   Line(<< 91, 1 >>, X(1)), Line(<< 1, 1 >>, X(1)), Line(<< 1, 92 >>, X(1)),
   Line(<< 2 >>, X(1)), Line(<< >>, X(1)),
   [g |-> << 1 >>, words |-> X(1), unknown |-> TRUE]}
=============================================================================
