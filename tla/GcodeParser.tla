----------------------------- MODULE GcodeParser -----------------------------
(***************************************************************************)
(* The interpreter's parser of G-code lines (Parser.cs) with its two       *)
(* PrintStates: ModalState, which lasts, and CurrentState, which belongs   *)
(* to one motion and follows every change of ModalState.  The form parses, *)
(* peeks at lines and resets the states.                                   *)
(*                                                                         *)
(* A line is its motion word, one option, the coordinates it names and its *)
(* feed rate; a motion word behind another word is not seen, as in the     *)
(* code.  G03 is G02 the other way round.  Accelerations are left out.     *)
(***************************************************************************)
EXTENDS Integers

CONSTANTS
  Axes,     (* the axes a line may name                                     *)
  Linear,   (* those G92 sets an offset of: x, y and z                      *)
  Values,   (* the numbers behind them                                      *)
  Feeds,    (* the feed rates behind F                                      *)
  Lines,    (* the lines of the files                                       *)
  Inch,     (* factor from inch to mm                                       *)
  Rapid,    (* RAPID_VEL, of every G00                                      *)
  Homing,   (* m_home_offset_vel, of G74 and of G92                         *)
  MaxLines  (* bound: lines parsed, peeked at, and resets                   *)

Motions == {"G00", "G01", "G02", "G04"}
Options == {"none", "G70", "G71", "G90", "G91", "G92", "G193",
            "G09", "G900", "G901", "G17", "G18"}
Coordinates == UNION {[named -> Values] : named \in SUBSET Axes}

(* a: the line has the word A, for feeding, or gets it because the form    *)
(* "always prints" and the line has coordinates.  f: its feed rate, 0 for  *)
(* none.  arc: it has a radius, R, or the centre of an arc, I, J or K.     *)
LineTypes ==
  [word : Motions \cup {"none", "G74"}, option : Options, at : Coordinates,
   a : BOOLEAN, f : Feeds \cup {0}, arc : {"none", "R", "IJK"}]

ASSUME ParserAssumption ==
  /\ Linear \subseteq Axes /\ Values \subseteq Int /\ Feeds \subseteq Nat \ {0}
  /\ Lines \subseteq LineTypes
  /\ Inch \in Nat \ {0} /\ Rapid \in Nat /\ Homing \in Nat /\ MaxLines \in Nat

Numbered(l) == DOMAIN l.at # {} \/ l.arc # "none" \/ l.a \/ l.f # 0

Positions == [Axes -> Int]
Home == [axis \in Axes |-> 0]
None == [kind |-> "none"]

VARIABLES
  modal, current, (* ModalState and CurrentState, without the position      *)
  position,       (* ModalState.position                                    *)
  offset,         (* m_ref_offset                                           *)
  shared,         (* are the two the same array?                            *)
  vel,            (* m_cmd_vel: before, in and after the command            *)
  late,           (* m_desacelerate_next                                    *)
  command,        (* the command of the line                                *)
  line,           (* history: the line parsed or peeked at last             *)
  step,           (* history: what was done last                            *)
  promised,       (* history: the feed rate the look-ahead found, or 0      *)
  straight,       (* history: no peek, no reset, every promise kept         *)
  lines           (* steps so far                                           *)

parserVars == <<modal, current, position, offset, shared, vel, late, command>>
vars == <<parserVars, line, step, promised, straight, lines>>

PrintState ==
  [motion : Motions \cup {"none"}, units : {"mm", "inch"},
   mode : {"absolute", "relative"}, plane : {"XY", "XZ"}, slows : {"end", "after"},
   feed : BOOLEAN, interpolation : BOOLEAN, rate : Nat]

Cleared ==
  [motion |-> "none", units |-> "mm", mode |-> "absolute", plane |-> "XY",
   slows |-> "end", feed |-> FALSE, interpolation |-> FALSE, rate |-> 0]

-----------------------------------------------------------------------------
(* Parsing one line, as a function of the parser's state.                  *)

State ==
  [modal |-> modal, current |-> current, position |-> position,
   offset |-> offset, shared |-> shared, vel |-> vel, late |-> late, command |-> command]

(* A setter of ModalState, which CurrentState follows - but for feed_rate. *)
SetModes(s, m, c) == [s EXCEPT !.modal = m, !.current = c]
SetUnits(s, u) ==
  SetModes(s, [s.modal EXCEPT !.units = u], [s.current EXCEPT !.units = u])
SetMode(s, m) ==
  SetModes(s, [s.modal EXCEPT !.mode = m], [s.current EXCEPT !.mode = m])
SetMotion(s, m) ==
  SetModes(s, [s.modal EXCEPT !.motion = m], [s.current EXCEPT !.motion = m])

SetPlane(s, p) ==
  SetModes(s, [s.modal EXCEPT !.plane = p], [s.current EXCEPT !.plane = p])
SetSlows(s, d) ==
  SetModes(s, [s.modal EXCEPT !.slows = d], [s.current EXCEPT !.slows = d])

(* CommandCoord(): every number of the line is scaled, angles too.         *)
Scaled(s, number) == IF s.current.units = "inch" THEN Inch * number ELSE number
Number(s, l, axis) == Scaled(s, l.at[axis])

\* Mutant: the two arrays are kept apart.
StoreApart(s, array) == [s EXCEPT !.position = array]

(* What is written to one array is in the other when they are the same.    *)
Store(s, array) ==
  IF s.shared THEN [s EXCEPT !.position = array, !.offset = array]
  ELSE [s EXCEPT !.position = array]

\* Mutant: a number is counted from where the last line ended.
PlaceOnwards(s, l) ==
  Store(s, [axis \in Axes |->
              IF axis \in DOMAIN l.at THEN Number(s, l, axis) + s.position[axis]
              ELSE s.position[axis]])

(* GetReferencePosition()                                                  *)
Place(s, l) ==
  Store(s, [axis \in Axes |->
              IF axis \in DOMAIN l.at THEN Number(s, l, axis) + s.offset[axis]
              ELSE s.position[axis]])

Paths == {"move", "radius", "centre", "circle"}
Constant(rate) == <<rate, rate, rate>>

Emit(s, kind, to, speeds) ==
  [s EXCEPT !.command =
     [kind |-> kind, to |-> to, vel |-> speeds, feed |-> s.current.feed,
      absolute |-> s.current.mode = "absolute", plane |-> s.current.plane,
      interpolation |-> kind \in Paths /\ s.current.interpolation]]

-----------------------------------------------------------------------------
(* Velocities.                                                             *)

(* The velocity of a line with F is also that of ModalState.               *)
Paced(s, l) ==
  IF l.f = 0 THEN s
  ELSE [s EXCEPT !.vel[2] = Scaled(s, l.f), !.modal.rate = Scaled(s, l.f)]

(* GetVelocityRamps(): acceleration is at the begin of the next command,   *)
(* deceleration at the end of this one or after it.                        *)
Postpones(s) == s.current.slows = "after" /\ s.vel[2] > s.vel[3]
Ramp(s) ==
  LET level == s.vel[2]
      begin == IF s.current.slows = "end" /\ s.vel[1] > level /\ ~s.late
               THEN level ELSE s.vel[1]
      end == IF s.vel[3] > level \/ Postpones(s) THEN level ELSE s.vel[3]
  IN  <<begin, level, end>>
Ramped(s) == [s EXCEPT !.vel[3] = s.vel[2], !.late = @ \/ Postpones(s)]

\* Mutant: without a feed rate ahead the next move stands still.
LookAheadZero(s, ahead) == [s EXCEPT !.vel[3] = Scaled(s, ahead)]

(* PeekNextVelocity(): the feed rate of the next line with coordinates, or *)
(* what looks like one (a comment has feed rates too).                     *)
LookAhead(s, ahead) ==
  [s EXCEPT !.vel[3] = IF ahead = 0 THEN s.current.rate ELSE Scaled(s, ahead)]

-----------------------------------------------------------------------------

(* G92: linear axes that are not named are set to zero.                    *)
SetOffset(s, l) ==
  LET given == [axis \in Linear |-> IF axis \in DOMAIN l.at THEN Number(s, l, axis) ELSE 0]
      array(old) == [axis \in Axes |-> IF axis \in Linear THEN given[axis] ELSE old[axis]]
      moved == [s EXCEPT !.offset = array(s.offset),
                         !.position = IF s.shared THEN array(s.offset) ELSE s.position]
      paced == Paced(moved, l)
  IN  CASE s.modal.mode = "relative" -> moved
        [] s.modal.mode = "absolute" /\ l.f = 0 -> Emit(moved, "offset", given, <<0, Homing, 0>>)
        [] OTHER -> Emit(Ramped(paced), "offset", given, Ramp(paced))

(* G74: the position becomes the array of the offset, for good.            *)
GoHome(s, l) ==
  LET placed == Place(s, l)
      joined == [placed EXCEPT !.position = placed.offset, !.shared = TRUE]
  IN  [Emit(joined, "home", joined.offset, <<0, Homing, 0>>) EXCEPT !.command.feed = FALSE]

Optional(s, l) ==
  CASE l.option = "G70" -> SetUnits(s, "inch")
    [] l.option = "G71" -> SetUnits(s, "mm")
    [] l.option = "G90" -> SetMode(s, "absolute")
    [] l.option = "G91" -> SetMode(s, "relative")
    [] l.option = "G92" -> SetOffset(s, l)
    [] l.option = "G193" -> [s EXCEPT !.current.interpolation = TRUE]
    [] l.option = "G09" -> [s EXCEPT !.current.slows = "end"]
    [] l.option = "G900" -> SetSlows(s, "end")
    [] l.option = "G901" -> SetSlows(s, "after")
    [] l.option = "G17" -> SetPlane(s, "XY")
    [] l.option = "G18" -> SetPlane(s, "XZ")
    [] OTHER -> s

Feeding(s, l) == IF l.a THEN [s EXCEPT !.current.feed = TRUE] ELSE s

Started(s, l) == Feeding(Paced(SetMotion(s, l.word), l), l)

(* An arc without radius, coordinates or centre is not sent.               *)
Arc(s, l) ==
  LET started == Started(s, l)
      placed == Place(Ramped(started), l)
      send(kind) == Emit(placed, kind, placed.position, Ramp(started))
  IN  CASE l.arc = "R" -> send("radius")
        [] l.arc # "R" /\ DOMAIN l.at # {} -> send("centre")
        [] l.arc = "IJK" /\ DOMAIN l.at = {} -> send("circle")
        [] OTHER -> Ramped(started)

Moving(s, l) ==
  LET started == Started(s, l)
      placed == Place(started, l)
  IN  CASE l.word = "G00" -> Emit(placed, "rapid", placed.position, Constant(Rapid))
        [] l.word = "G01" -> Emit(Ramped(placed), "move", placed.position, Ramp(placed))
        [] l.word = "G02" -> Arc(s, l)
        [] l.word = "G04" ->
             Emit([s EXCEPT !.current.motion = "G04"], "dwell", s.position, Constant(0))
        [] OTHER -> s

(* CommandG(): G74 and the options first, then the motion.                 *)
CommandG(s, l) ==
  Moving(Optional(IF l.word = "G74" THEN GoHome(s, l) ELSE s, l), l)

\* Mutant: CurrentState outlives its motion.
ParseMotionKeeping(s, l, ahead) ==
  LET done == CommandG(LookAhead(s, ahead), l)
  IN  [done EXCEPT !.vel = <<done.vel[2], done.vel[3], done.vel[3]>>]

(* ParseMotion(): the velocities move on, and CurrentState is ModalState   *)
(* again after the motion.                                                 *)
ParseMotion(s, l, ahead) ==
  LET done == CommandG(LookAhead(s, ahead), l)
  IN  [done EXCEPT !.vel = <<done.vel[2], done.vel[3], done.vel[3]>>,
                   !.current = done.modal]

(* A line with numbers and without a motion word goes on with the motion   *)
(* of CurrentState.                                                        *)
Completed(s, l) ==
  IF l.word = "none" THEN [l EXCEPT !.word = s.current.motion] ELSE l

(* ParseSingleLine(): a line with numbers is run through CommandG twice,   *)
(* by ParseMotion and by ParseElse.                                        *)
ParseSingleLine(s, l, ahead) ==
  LET fresh == [s EXCEPT !.command = None]
  IN  IF Numbered(l)
      THEN CommandG(ParseMotion(fresh, Completed(s, l), ahead), Completed(s, l))
      ELSE CommandG(fresh, l)

-----------------------------------------------------------------------------
Becomes(s) ==
  /\ modal' = s.modal /\ current' = s.current
  /\ position' = s.position /\ offset' = s.offset /\ shared' = s.shared
  /\ vel' = s.vel /\ late' = s.late
  /\ command' = s.command

Did(what, l) ==
  /\ lines < MaxLines /\ lines' = lines + 1
  /\ step' = what /\ line' = l

(* The feed rate found ahead is not that of the next line with numbers: a  *)
(* jump, a comment, or a line of A alone, which the look-ahead passes over.*)
Breaks(l) == Numbered(l) /\ promised # 0 /\ l.f # promised

(* ahead: the feed rate in the lines behind this one.                      *)
Parse(l, ahead) ==
  /\ Did("parse", l)
  /\ Becomes(ParseSingleLine(State, l, ahead))
  /\ promised' = IF Numbered(l) THEN ahead ELSE promised
  /\ straight' = (straight /\ ~Breaks(l))

(* PeekLine(), "without affecting the parser states": the two states are   *)
(* put back, as copies; the offset and the velocities are not.             *)
PeekLine(l, ahead) ==
  /\ Did("peek", l)
  /\ LET seen == ParseSingleLine(State, l, ahead)
     IN  Becomes([seen EXCEPT !.modal = modal, !.current = current,
                              !.position = position, !.shared = FALSE])
  /\ straight' = FALSE /\ UNCHANGED promised

ResetParserStates ==
  /\ Did("reset", line)
  /\ modal' = Cleared /\ current' = Cleared
  /\ position' = Home /\ shared' = FALSE
  /\ straight' = FALSE
  /\ UNCHANGED <<offset, vel, late, command, promised>>

Init ==
  /\ modal = Cleared /\ current = Cleared
  /\ position = Home /\ offset = Home /\ shared = FALSE
  /\ vel = Constant(0) /\ late = FALSE
  /\ command = None /\ line = None
  /\ step = "none" /\ promised = 0 /\ straight = TRUE /\ lines = 0

Next ==
  \/ \E l \in Lines, ahead \in Feeds \cup {0} : Parse(l, ahead) \/ PeekLine(l, ahead)
  \/ ResetParserStates

Spec == Init /\ [][Next]_vars

-----------------------------------------------------------------------------
(***************************************************************************)
(* Properties.                                                             *)
(***************************************************************************)

(* Types; a shared array has one content.                                  *)
TypeOK ==
  /\ modal \in PrintState /\ current \in PrintState
  /\ position \in Positions /\ offset \in Positions /\ shared \in BOOLEAN
  /\ shared => position = offset
  /\ vel \in [1 .. 3 -> Nat] /\ late \in BOOLEAN
  /\ command = None \/ command.to \in Positions \cup [Linear -> Int]

(* "Unidirectional Binding of states: Modal -> Current": units, mode and   *)
(* plane are the same in both states at all times, peeked at or not.       *)
BoundModes ==
  current.units = modal.units /\ current.mode = modal.mode /\ current.plane = modal.plane

PathSent == step = "parse" /\ command.kind \in Paths /\ Numbered(line)

(* A feed or interpolation word is for its own line: the move of a line    *)
(* with numbers has them when its line has, whatever the lines before left *)
(* in CurrentState by G193 alone, by its own first pass, or by a peek.     *)
OptionsEnd ==
  PathSent => command.feed = line.a /\ command.interpolation = (line.option = "G193")

MoveSent == step' = "parse" /\ command'.kind \in Paths \cup {"rapid"} /\ lines' # lines
UnitsNow(number) == (IF modal'.units = "inch" THEN Inch ELSE 1) * number

(* An absolute move goes to the numbers of its line, beyond the offset, and *)
(* stays where it is on every axis that is not named - as if the line had  *)
(* been run once - unless position and offset are one array.               *)
MovesOnce ==
  [][MoveSent /\ command'.absolute /\ ~shared =>
       /\ command'.to = position'
       /\ \A axis \in Axes :
            position'[axis] = IF axis \in DOMAIN line'.at
                              THEN offset'[axis] + UnitsNow(line'.at[axis])
                              ELSE position[axis]]_vars

(* Whatever the modes of acceleration and deceleration and the feed rates  *)
(* around it, a path of a line with numbers has one velocity, because its  *)
(* first run settles the velocities its second run sends.  So no ramp is   *)
(* ever sent, which Translator.cs:64 has keycodes for and G08, G09, G900   *)
(* and G901 (Parser.cs:1013-1032) choose the place of.                     *)
OneVelocity == PathSent => command.vel = Constant(command.vel[2])

(* A path without F goes at the feed rate of ModalState, as long as the    *)
(* lines are run in the order the look-ahead saw them, with no peek and no *)
(* reset: what it leaves in the velocities is then overwritten or right.   *)
FeedInOrder == straight /\ PathSent /\ line.f = 0 => command.vel[2] = modal.rate

(* "Feedrate is modal.  If next instruction does not contain any feedrate  *)
(* information, the previous is considered" (PrintState.cs:42): so also    *)
(* after a peek, a jump and a reset.  The code does not keep this.         *)
FeedIsModal == PathSent /\ line.f = 0 => command.vel[2] = modal.rate
=============================================================================
