--------------------------- MODULE MCGcodeParser ---------------------------
EXTENDS GcodeParser

(* Moves of every kind with and without a feed rate, every option alone    *)
(* and some in a move, and the lines that have only one of the rest.       *)
Bare == [word |-> "none", option |-> "none", at |-> <<>>, a |-> FALSE, f |-> 0, arc |-> "none"]
X == [axis \in {"x"} |-> 1]
B == [axis \in {"b"} |-> 1]

MCLines ==
  {[Bare EXCEPT !.word = w, !.at = X, !.f = f] : w \in {"none", "G00", "G01"}, f \in {0, 1}}
    \cup {[Bare EXCEPT !.word = w] : w \in {"G01", "G04", "G74"}}
    \cup {[Bare EXCEPT !.option = o] : o \in Options}
    \cup {[Bare EXCEPT !.option = o, !.at = X] : o \in {"G70", "G91", "G92", "G193"}}
    \cup {[Bare EXCEPT !.option = o, !.at = X, !.f = 1] : o \in {"G70", "G92"}}
    \cup {[Bare EXCEPT !.word = "G01", !.option = o, !.at = X] : o \in {"G70", "G193", "G09", "G18"}}
    \cup {[Bare EXCEPT !.word = "G02", !.arc = r, !.at = at] : r \in {"none", "R", "IJK"}, at \in {<<>>, B}}
    \cup {[Bare EXCEPT !.f = 2], [Bare EXCEPT !.a = TRUE],
          [Bare EXCEPT !.word = "G01", !.at = B, !.f = 2],
          [Bare EXCEPT !.word = "G01", !.at = X, !.a = TRUE],
          [Bare EXCEPT !.word = "G04", !.at = X], [Bare EXCEPT !.word = "G74", !.at = X]}
=============================================================================
