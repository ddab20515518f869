----------------------------- MODULE GcodeSubset -----------------------------
(***************************************************************************)
(* The same G-code read twice: by the scene builder add-on (parseGcode, in *)
(* Lua), whose moves are played back, and by the Python runtime            *)
(* (parse_gcode), with which a program is validated beforehand.            *)
(*                                                                         *)
(* Every state is the end of a program.  A pose has one linear axis, the   *)
(* turn C and the tilt B, in quarter turns; a line is its G codes in order,*)
(* its axis words, and whether it has a word nobody knows.  G0 is G1, G70  *)
(* and G71 are G20 and G21; F, E and M words leave no trace in the moves.  *)
(***************************************************************************)
EXTENDS Integers, Sequences

CONSTANTS
  Lines,     (* lines a program is made of                                  *)
  Length,    (* the linear axis goes from 0 to Length                       *)
  Reach,     (* distance of the nozzle from the axis of B                   *)
  Inch,      (* units of length in an inch                                  *)
  MaxLines   (* bound: lines of a program                                   *)

Axes  == {"X", "B", "C"}
Codes == {1, 20, 21, 90, 91, 92, 2}    (* 2 stands for those unsupported    *)
Pose  == [Axes -> Int]
Zero  == [a \in Axes |-> 0]

ASSUME SubsetAssumption ==
  /\ \A l \in Lines : /\ l.g \in Seq(Codes)
                      /\ DOMAIN l.words \subseteq Axes
                      /\ \A a \in DOMAIN l.words : l.words[a] \in Int
                      /\ l.unknown \in BOOLEAN
  /\ Length \in Nat /\ Reach \in Nat /\ Inch \in Nat \ {0, 1}
  /\ MaxLines \in Nat

VARIABLES
  tables,     (* Lua: the pose tables; the last is p, the first no move     *)
  lua,        (* Lua: the modes of distance and of units                    *)
  luaError,   (* Lua: was error() called                                    *)
  moves,      (* Python: the moves                                          *)
  current,    (* Python: the position                                       *)
  py,         (* Python: the modes                                          *)
  pyError,    (* Python: was GCodeError raised                              *)
  read,       (* lines read                                                 *)
  plain,      (* has every line a meaning both readers know                 *)
  rewritten   (* moves that were the last one when a G92 was read           *)

luaVars == <<tables, lua, luaError>>
pyVars  == <<moves, current, py, pyError>>
vars    == <<luaVars, pyVars, read, plain, rewritten>>

Modes == [distance : {90, 91}, units : {20, 21}]

InLimits(p) == p["X"] \in 0 .. Length /\ p["B"] \in -1 .. 1

(* The value of an axis word: only lengths are scaled.                     *)
Scaled(l, a, m) ==
  IF a = "X" /\ m.units = 20 THEN l.words[a] * Inch ELSE l.words[a]

Target(p, l, m) ==
  [a \in Axes |->
     IF a \notin DOMAIN l.words THEN p[a]
     ELSE IF m.distance = 90 THEN Scaled(l, a, m) ELSE p[a] + Scaled(l, a, m)]

Renamed(p, l, m) ==
  [a \in Axes |-> IF a \in DOMAIN l.words THEN Scaled(l, a, m) ELSE p[a]]

-----------------------------------------------------------------------------
(* The Lua reader: the words of a line are in a table by letter, so that   *)
(* of several G codes only the last is left.                               *)
G(l) == IF l.g = << >> THEN 0 ELSE l.g[Len(l.g)]
P    == tables[Len(tables)]

\* Mutant: units are taken for a mode of distance.
LuaModesMixed(l) ==
  [lua EXCEPT !.distance = IF G(l) \in {20, 21, 90, 91} THEN G(l) ELSE @,
              !.units    = IF G(l) \in {20, 21} THEN G(l) ELSE @]

LuaModes(l) ==
  [lua EXCEPT !.distance = IF G(l) \in {90, 91} THEN G(l) ELSE @,
              !.units    = IF G(l) \in {20, 21} THEN G(l) ELSE @]

\* Mutant: an incremental move starts from the pose before the last one.
LuaMoveFromBefore(l) ==
  LET i == IF lua.distance = 90 \/ Len(tables) = 1 THEN Len(tables) ELSE Len(tables) - 1
      n == Target(tables[i], l, lua)
  IN /\ tables' = IF InLimits(n) THEN Append(tables, n) ELSE tables
     /\ luaError' = ~ InLimits(n)
     /\ UNCHANGED lua

LuaMove(l) ==
  LET n == Target(P, l, lua)
  IN /\ tables' = IF InLimits(n) THEN Append(tables, n) ELSE tables
     /\ luaError' = ~ InLimits(n)
     /\ UNCHANGED lua

(* p is the table of the move read last, which G92 changes with it.        *)
LuaOffset(l) ==
  LET n == Renamed(P, l, lua)
  IN /\ tables' = [tables EXCEPT ![Len(tables)] = n]
     /\ luaError' = ~ InLimits(n)
     /\ UNCHANGED lua

LuaLine(l) ==
  IF luaError THEN UNCHANGED luaVars
  ELSE \/ G(l) = 1  /\ LuaMove(l)
       \/ G(l) = 92 /\ LuaOffset(l)
       \/ G(l) = 2  /\ luaError' = TRUE /\ UNCHANGED <<tables, lua>>
       \/ G(l) \notin {1, 92, 2} /\ lua' = LuaModes(l) /\ UNCHANGED <<tables, luaError>>

-----------------------------------------------------------------------------
(* The Python reader: every G code of a line counts, the last one of each  *)
(* mode in the end.                                                        *)
Latest(l, S, m) ==
  IF \E i \in DOMAIN l.g : l.g[i] \in S
  THEN CHOOSE c \in S : \E i \in DOMAIN l.g :
         l.g[i] = c /\ \A j \in DOMAIN l.g : l.g[j] \in S => j <= i
  ELSE m

PyModes(l) ==
  [py EXCEPT !.distance = Latest(l, {90, 91}, @), !.units = Latest(l, {20, 21}, @)]

Has(l, c) == \E i \in DOMAIN l.g : l.g[i] = c

PyRaises(l) ==
  l.unknown \/ Has(l, 2) \/ \E i, j \in DOMAIN l.g : i # j /\ l.g[i] = 1 /\ l.g[j] = 1

PyMove(l) ==
  LET n == Target(current, l, PyModes(l))
  IN IF InLimits(n)
     THEN moves' = Append(moves, n) /\ current' = n /\ py' = PyModes(l) /\ UNCHANGED pyError
     ELSE pyError' = TRUE /\ UNCHANGED <<moves, current, py>>

(* A G92 beside a motion is passed over, and its pose is not checked.      *)
PyNoMove(l) ==
  /\ current' = IF Has(l, 92) THEN Renamed(current, l, PyModes(l)) ELSE current
  /\ py' = PyModes(l)
  /\ UNCHANGED <<moves, pyError>>

PyLine(l) ==
  IF pyError THEN UNCHANGED pyVars
  ELSE \/ PyRaises(l) /\ pyError' = TRUE /\ UNCHANGED <<moves, current, py>>
       \/ ~ PyRaises(l) /\ Has(l, 1) /\ PyMove(l)
       \/ ~ PyRaises(l) /\ ~ Has(l, 1) /\ PyNoMove(l)

-----------------------------------------------------------------------------
(* Lines both readers understand alike: one G code, words of the subset,   *)
(* and a G92 within the limits, which only Lua checks.                     *)
Plain(l) ==
  /\ Len(l.g) <= 1 /\ ~ l.unknown
  /\ G(l) = 92 => InLimits(Renamed(current, l, py))

ReadLine(l) ==
  /\ read < MaxLines
  /\ read' = read + 1
  /\ LuaLine(l) /\ PyLine(l)
  /\ plain' = (plain /\ Plain(l))
  /\ rewritten' = IF G(l) = 92 THEN rewritten \cup {Len(moves)} ELSE rewritten

Init ==
  /\ tables = << Zero >> /\ moves = << >> /\ current = Zero
  /\ lua = [distance |-> 90, units |-> 21] /\ py = lua
  /\ luaError = FALSE /\ pyError = FALSE
  /\ read = 0 /\ plain = TRUE /\ rewritten = {}

Next == \E l \in Lines : ReadLine(l)

Spec == Init /\ [][Next]_vars

-----------------------------------------------------------------------------
(* What becomes of the program at its end.                                 *)
Cos(a) == CASE a % 4 = 0 -> 1 [] a % 4 = 2 -> -1 [] OTHER -> 0
Sin(a) == Cos(a - 1)
MachineX(p) == p["X"] + Cos(p["C"]) * Sin(p["B"]) * Reach

(* applyPose checks the joints of a move when it is its turn.              *)
LuaMoves == [i \in 1 .. Len(tables) - 1 |-> tables[i + 1]]
Applies(p) == InLimits(p) /\ MachineX(p) \in 0 .. Length
Plays == ~ luaError /\ Len(tables) > 1 /\ \A i \in DOMAIN LuaMoves : Applies(LuaMoves[i])

\* Mutant: the tilt is taken the other way.
ToolToSceneMirrored(p) ==
  InLimits(p) /\ p["X"] - Cos(p["C"]) * Sin(p["B"]) * Reach \in 0 .. Length

(* The command line takes the joints of the final move only.               *)
ToolToScene(p) == InLimits(p) /\ MachineX(p) \in 0 .. Length
Validates == ~ pyError /\ moves # << >> /\ ToolToScene(moves[Len(moves)])

-----------------------------------------------------------------------------
(***************************************************************************)
(* Properties.                                                             *)
(***************************************************************************)

(* Types; Lua always has a table for p.                                    *)
TypeOK ==
  /\ tables \in Seq(Pose) /\ tables # << >> /\ lua \in Modes /\ luaError \in BOOLEAN
  /\ moves \in Seq(Pose) /\ current \in Pose /\ py \in Modes /\ pyError \in BOOLEAN
  /\ read \in 0 .. MaxLines /\ plain \in BOOLEAN /\ rewritten \subseteq Nat

(* "G-code subset: ...": the two readers give a program of the subset the  *)
(* same meaning, line by line: the same errors, modes, position and moves. *)
(* Only a move read just before a G92 is another one in Lua.               *)
SameMoves ==
  plain =>
    /\ luaError <=> pyError
    /\ ~ pyError =>
         /\ lua = py /\ P = current
         /\ Len(tables) = Len(moves) + 1
         /\ \A i \in DOMAIN moves : tables[i + 1] = moves[i] \/ i \in rewritten

(* "X soft limit at line": no reader leaves a target outside the limits in *)
(* its queue, also not by changing a target that it has already checked.   *)
QueuedInLimits ==
  /\ ~ luaError => \A i \in DOMAIN LuaMoves : InLimits(LuaMoves[i])
  /\ ~ pyError => \A i \in DOMAIN moves : InLimits(moves[i])

(* "Validate and replay Rep5x G-code": a program the add-on plays to its   *)
(* end is not refused by the command line, unless G92 changed its last     *)
(* move.  The reverse is false: only the final joints are validated.       *)
PlayedValidates ==
  plain /\ Plays /\ Len(moves) \notin rewritten => Validates
=============================================================================
