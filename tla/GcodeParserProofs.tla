------------------------ MODULE GcodeParserProofs ------------------------
(***************************************************************************)
(* Proofs about GcodeParser: for all lines, feed rates and values, the     *)
(* modes of the two print states agree, a path is sent with one velocity,  *)
(* a path without feed rate goes at the modal one while the lines are run  *)
(* in order, the options of a line end with it, and a line, which is run   *)
(* twice, moves once.                                                      *)
(***************************************************************************)
EXTENDS GcodeParser, TLAPS

Fields == {"modal", "current", "position", "offset", "shared", "vel", "late", "command"}

(* A state of the parser, as far as the velocities and modes need it.      *)
Shape(s) ==
  /\ DOMAIN s = Fields
  /\ s.modal \in PrintState /\ s.current \in PrintState
  /\ s.vel \in [1 .. 3 -> Nat]

Bound(s) ==
  /\ s.current.units = s.modal.units
  /\ s.current.mode = s.modal.mode
  /\ s.current.plane = s.modal.plane

(* t differs from s in positions, flags and the command at most.           *)
SameUnits(s, t) == t.current.units = s.current.units /\ t.modal.mode = s.modal.mode
SamePace(s, t) ==
  /\ t.vel = s.vel
  /\ t.modal.rate = s.modal.rate /\ t.current.rate = s.current.rate
Alike(s, t) == Shape(t) /\ Bound(t) /\ SameUnits(s, t) /\ SamePace(s, t)

(* States alike a third one are alike.                                     *)
LEMMA AlikeTrans ==
  ASSUME NEW s, NEW t, NEW u, Alike(s, t), Alike(t, u)
  PROVE  Alike(s, u)
  BY DEF Alike, SameUnits, SamePace

(* What the setters of the other modes do.                                 *)
LEMMA SetMotionAlike ==
  ASSUME NEW s, Shape(s), Bound(s), NEW m \in Motions
  PROVE  Alike(s, SetMotion(s, m)) /\ SetMotion(s, m).command = s.command
  BY DEF Alike, SameUnits, SamePace, Shape, Bound, Fields, SetMotion, SetModes, PrintState

(* Placing the numbers of a line touches neither velocities nor modes.     *)
LEMMA PlaceAlike ==
  ASSUME NEW s, Shape(s), Bound(s), NEW l
  PROVE  Alike(s, Place(s, l)) /\ Place(s, l).command = s.command
<1> DEFINE array == [axis \in Axes |->
              IF axis \in DOMAIN l.at THEN Number(s, l, axis) + s.offset[axis]
              ELSE s.position[axis]]
<1> HIDE DEF array
<1>1. Alike(s, Store(s, array)) /\ Store(s, array).command = s.command
  BY DEF Alike, SameUnits, SamePace, Shape, Bound, Fields, Store
<1> QED  BY <1>1, Zenon DEF Place, array

(* Neither does the state of the extrusion.                                *)
LEMMA FeedingAlike ==
  ASSUME NEW s, Shape(s), Bound(s), NEW l
  PROVE  Alike(s, Feeding(s, l)) /\ Feeding(s, l).command = s.command
<1> DEFINE t == [s EXCEPT !.current.feed = TRUE]
<1>1. Alike(s, s)  BY DEF Alike, SameUnits, SamePace
<1>2. Alike(s, t) /\ t.command = s.command
  BY DEF Alike, SameUnits, SamePace, Shape, Bound, Fields, PrintState
<1>3. Feeding(s, l) = t \/ Feeding(s, l) = s  BY Zenon DEF Feeding
<1> HIDE DEF t
<1> QED  BY <1>1, <1>2, <1>3

(* A command that is sent has the velocities it was given.                 *)
LEMMA EmitAlike ==
  ASSUME NEW s, Shape(s), Bound(s), NEW kind, NEW to, NEW speeds
  PROVE  /\ Alike(s, Emit(s, kind, to, speeds))
         /\ Emit(s, kind, to, speeds).command.kind = kind
         /\ Emit(s, kind, to, speeds).command.vel = speeds
<1> DEFINE c ==
     [kind |-> kind, to |-> to, vel |-> speeds, feed |-> s.current.feed,
      absolute |-> s.current.mode = "absolute", plane |-> s.current.plane,
      interpolation |-> kind \in Paths /\ s.current.interpolation]
<1>1. c.kind = kind /\ c.vel = speeds  OBVIOUS
<1> HIDE DEF c
<1>2. Alike(s, [s EXCEPT !.command = c]) /\ [s EXCEPT !.command = c].command = c
  BY DEF Alike, SameUnits, SamePace, Shape, Bound, Fields
<1> QED  BY <1>1, <1>2 DEF Emit, c

(* The rate of a line with F, in the units its options leave.              *)
Units(s, l) ==
  IF l.option = "G70" THEN "inch" ELSE IF l.option = "G71" THEN "mm" ELSE s.current.units
Rate(s, l) == IF Units(s, l) = "inch" THEN Inch * l.f ELSE l.f

(* A feed rate is a number in either unit.                                 *)
LEMMA FeedNat == ASSUME NEW l \in LineTypes PROVE l.f \in Nat /\ Inch * l.f \in Nat
<1>1. l.f \in Feeds \cup {0}  BY Zenon DEF LineTypes
<1>2. Feeds \subseteq Nat /\ Inch \in Nat  BY ParserAssumption
<1>3. \A f \in Feeds \cup {0} : f \in Nat /\ Inch * f \in Nat  BY <1>2
<1> QED  BY <1>1, <1>3, Zenon

(* t is s, but that its velocity and that of ModalState may be set.        *)
PacedAt(s, t, r) ==
  /\ Shape(t) /\ Bound(t) /\ SameUnits(s, t)
  /\ t.vel[1] = s.vel[1] /\ t.vel[2] = r /\ t.modal.rate = r
  /\ t.current.rate = s.current.rate

(* A feed rate sets the velocity of the line and the modal one; none       *)
(* leaves both.                                                            *)
LEMMA PacedEffect ==
  ASSUME NEW s, Shape(s), Bound(s), NEW l \in LineTypes
  PROVE  /\ l.f = 0 => Paced(s, l) = s
         /\ l.f # 0 /\ s.current.units = Units(s, l) =>
              PacedAt(s, Paced(s, l), Rate(s, l)) /\ Paced(s, l).vel[3] = s.vel[3]
         /\ Paced(s, l).command = s.command
<1>1. CASE l.f = 0  BY <1>1 DEF Paced
<1>2. CASE l.f # 0
  <2>1. Scaled(s, l.f) \in Nat  BY FeedNat DEF Scaled
  <2>2. s.current.units = Units(s, l) => Scaled(s, l.f) = Rate(s, l)
    BY DEF Scaled, Rate
  <2> DEFINE r == Scaled(s, l.f)
             t == [s EXCEPT !.vel[2] = r, !.modal.rate = r]
  <2>3. r \in Nat  BY <2>1
  <2> HIDE DEF r
  <2>4. /\ Shape(t) /\ Bound(t) /\ SameUnits(s, t)
        /\ t.vel[1] = s.vel[1] /\ t.vel[2] = r /\ t.vel[3] = s.vel[3] /\ t.modal.rate = r
        /\ t.current.rate = s.current.rate /\ t.command = s.command
    BY <2>3 DEF Shape, Bound, SameUnits, Fields, PrintState
  <2>5. Paced(s, l) = t
    BY <1>2 DEF Paced, r
  <2> HIDE DEF t
  <2> QED  BY <1>2, <2>2, <2>4, <2>5 DEF PacedAt, r
<1> QED  BY <1>1, <1>2

(* GetVelocityRamps() sets the velocity behind the command to its own.     *)
LEMMA RampedEffect ==
  ASSUME NEW s, Shape(s), Bound(s)
  PROVE  /\ Shape(Ramped(s)) /\ Bound(Ramped(s)) /\ SameUnits(s, Ramped(s))
         /\ Ramped(s).vel[1] = s.vel[1] /\ Ramped(s).vel[2] = s.vel[2]
         /\ Ramped(s).vel[3] = s.vel[2]
         /\ Ramped(s).modal.rate = s.modal.rate /\ Ramped(s).current.rate = s.current.rate
         /\ Ramped(s).command = s.command
<1> DEFINE d == s.late \/ Postpones(s)
           t == [s EXCEPT !.vel[3] = s.vel[2], !.late = d]
<1> HIDE DEF d
<1>1. /\ Shape(t) /\ Bound(t) /\ SameUnits(s, t)
      /\ t.vel[1] = s.vel[1] /\ t.vel[2] = s.vel[2] /\ t.vel[3] = s.vel[2]
      /\ t.modal.rate = s.modal.rate /\ t.current.rate = s.current.rate
      /\ t.command = s.command
  BY DEF Shape, Bound, SameUnits, Fields
<1>2. Ramped(s) = t
  BY Zenon DEF Ramped, d
<1> QED  BY <1>1, <1>2

(* A command between equal velocities has no ramp.                         *)
LEMMA NoRamp ==
  ASSUME NEW s, Shape(s), NEW r, s.vel[1] = r, s.vel[2] = r, s.vel[3] = r
  PROVE  Ramp(s) = Constant(r)
  BY DEF Ramp, Constant, Shape

-----------------------------------------------------------------------------
(* The options of a line.                                                  *)

(* What a line does to the pace: it is set to its feed rate, or kept.      *)
KeptPace(s, t) ==
  t.vel[1] = s.vel[1] /\ t.vel[2] = s.vel[2] /\ t.modal.rate = s.modal.rate
SetPace(s, t, r) ==
  t.vel[1] = s.vel[1] /\ t.vel[2] = r /\ t.modal.rate = r
Sound(s, t) == Shape(t) /\ Bound(t) /\ t.current.rate = s.current.rate

(* G74 is no option, but comes with them.                                  *)
LEMMA GoHomeAlike ==
  ASSUME NEW s, Shape(s), Bound(s), NEW l
  PROVE  Alike(s, GoHome(s, l)) /\ GoHome(s, l).command.kind = "home"
<1> DEFINE p == Place(s, l)
           j == [p EXCEPT !.position = p.offset, !.shared = TRUE]
           e == Emit(j, "home", j.offset, <<0, Homing, 0>>)
           h == [e EXCEPT !.command.feed = FALSE]
<1>1. Alike(s, p)  BY PlaceAlike
<1> HIDE DEF p
<1>2. Alike(p, j)
  BY <1>1 DEF Alike, SameUnits, SamePace, Shape, Bound, Fields
<1> HIDE DEF j
<1>3. Alike(j, e) /\ e.command.kind = "home"
  BY <1>2, EmitAlike DEF Alike
<1>4. DOMAIN e.command = {"kind", "to", "vel", "feed", "absolute", "plane", "interpolation"}
  BY <1>2, Zenon DEF Emit, Alike, Shape, Fields
<1> HIDE DEF e
<1>5. Alike(e, h) /\ h.command.kind = "home"
  BY <1>3, <1>4 DEF Alike, SameUnits, SamePace, Shape, Bound, Fields
<1>6. GoHome(s, l) = h
  BY Zenon DEF GoHome, h, e, j, p
<1> HIDE DEF h
<1>7. Alike(s, h)
  BY <1>1, <1>2, <1>3, <1>5, AlikeTrans
<1> QED  BY <1>5, <1>6, <1>7

OffsetPaces(s, l) == l.f # 0 /\ s.modal.mode = "absolute"

(* G92 sets the velocity where its line has a feed rate and the mode is    *)
(* absolute.                                                               *)
LEMMA SetOffsetEffect ==
  ASSUME NEW s, Shape(s), Bound(s), NEW l \in LineTypes, l.option = "G92",
         NEW t, t = SetOffset(s, l)
  PROVE  /\ Sound(s, t) /\ SameUnits(s, t)
         /\ OffsetPaces(s, l) => SetPace(s, t, Rate(s, l)) /\ t.vel[3] = Rate(s, l)
         /\ ~OffsetPaces(s, l) => KeptPace(s, t) /\ t.vel[3] = s.vel[3]
         /\ t.command = s.command \/ t.command.kind = "offset"
<1> DEFINE given == [axis \in Linear |-> IF axis \in DOMAIN l.at THEN Number(s, l, axis) ELSE 0]
           array(old) == [axis \in Axes |-> IF axis \in Linear THEN given[axis] ELSE old[axis]]
           o == array(s.offset)
           p == IF s.shared THEN array(s.offset) ELSE s.position
           m == [s EXCEPT !.offset = o, !.position = p]
           c == Paced(m, l)
           e == Emit(m, "offset", given, <<0, Homing, 0>>)
           f == Emit(Ramped(c), "offset", given, Ramp(c))
<1>1. /\ s.modal.mode = "relative" => t = m
      /\ s.modal.mode = "absolute" /\ l.f = 0 => t = e
      /\ OffsetPaces(s, l) => t = f
  BY Zenon DEF SetOffset, OffsetPaces
<1>2. s.modal.mode \in {"absolute", "relative"}
  BY DEF Shape, PrintState
<1> HIDE DEF o, p, given, array
<1>3. Alike(s, m) /\ m.command = s.command
  BY DEF Alike, SameUnits, SamePace, Shape, Bound, Fields
<1> HIDE DEF m
<1>4. Alike(m, e) /\ e.command.kind = "offset"
  BY <1>3, EmitAlike DEF Alike
<1> HIDE DEF e
<1>5. Alike(s, e)  BY <1>3, <1>4, AlikeTrans
<1>6. CASE s.modal.mode = "relative"
  BY <1>1, <1>3, <1>6 DEF Alike, SamePace, OffsetPaces, KeptPace, Sound
<1>7. CASE s.modal.mode = "absolute" /\ l.f = 0
  BY <1>1, <1>5, <1>4, <1>7 DEF Alike, SamePace, OffsetPaces, KeptPace, Sound
<1>8. CASE OffsetPaces(s, l)
  <2>1. Rate(m, l) = Rate(s, l) /\ m.current.units = Units(m, l)
    BY <1>3 DEF Rate, Units, Alike, SameUnits
  <2>2. PacedAt(m, c, Rate(s, l))
    BY <1>3, <1>8, <2>1, PacedEffect DEF Alike, OffsetPaces
  <2> HIDE DEF c
  <2> DEFINE d == Ramped(c)
  <2>3. /\ Shape(d) /\ Bound(d) /\ SameUnits(c, d)
        /\ d.vel[1] = c.vel[1] /\ d.vel[2] = c.vel[2] /\ d.vel[3] = c.vel[2]
        /\ d.modal.rate = c.modal.rate /\ d.current.rate = c.current.rate
    BY <2>2, RampedEffect DEF PacedAt
  <2> HIDE DEF d
  <2>4. Alike(d, f) /\ f.command.kind = "offset"
    BY <2>3, EmitAlike DEF f, d
  <2> HIDE DEF f
  <2> QED
    BY <1>1, <1>3, <1>8, <2>2, <2>3, <2>4
    DEF Alike, SameUnits, SamePace, SetPace, Sound, PacedAt
<1> QED  BY <1>2, <1>6, <1>7, <1>8 DEF OffsetPaces

OptionPaces(s, l) == l.option = "G92" /\ OffsetPaces(s, l)

(* An option runs before the motion: the units are those of the line, the  *)
(* velocity is set at most to its rate.                                    *)
LEMMA OptionalEffect ==
  ASSUME NEW s, Shape(s), Bound(s), NEW l \in LineTypes, NEW t, t = Optional(s, l)
  PROVE  /\ Sound(s, t) /\ t.current.units = Units(s, l)
         /\ l.option = "G92" => t.modal.mode = s.modal.mode
         /\ OptionPaces(s, l) => SetPace(s, t, Rate(s, l)) /\ t.vel[3] = Rate(s, l)
         /\ ~OptionPaces(s, l) => KeptPace(s, t) /\ t.vel[3] = s.vel[3]
         /\ t.command = s.command \/ t.command.kind = "offset"
<1> USE DEF Sound, KeptPace, OptionPaces, Units
<1>1. CASE l.option = "G70"
  <2>1. t = SetUnits(s, "inch")  BY <1>1 DEF Optional
  <2> QED  BY <1>1, <2>1 DEF SetUnits, SetModes, Shape, Bound, Fields, PrintState
<1>2. CASE l.option = "G71"
  <2>1. t = SetUnits(s, "mm")  BY <1>2 DEF Optional
  <2> QED  BY <1>2, <2>1 DEF SetUnits, SetModes, Shape, Bound, Fields, PrintState
<1>3. CASE l.option = "G90"
  <2>1. t = SetMode(s, "absolute")  BY <1>3 DEF Optional
  <2> QED  BY <1>3, <2>1 DEF SetMode, SetModes, Shape, Bound, Fields, PrintState
<1>4. CASE l.option = "G91"
  <2>1. t = SetMode(s, "relative")  BY <1>4 DEF Optional
  <2> QED  BY <1>4, <2>1 DEF SetMode, SetModes, Shape, Bound, Fields, PrintState
<1>5. CASE l.option = "G92"
  <2>1. t = SetOffset(s, l)  BY <1>5 DEF Optional
  <2>2. Sound(s, t) /\ SameUnits(s, t)  BY <1>5, <2>1, SetOffsetEffect
  <2>3. OffsetPaces(s, l) => SetPace(s, t, Rate(s, l)) /\ t.vel[3] = Rate(s, l)
    BY <1>5, <2>1, SetOffsetEffect
  <2>4. ~OffsetPaces(s, l) => KeptPace(s, t) /\ t.vel[3] = s.vel[3]
    BY <1>5, <2>1, SetOffsetEffect
  <2>5. t.command = s.command \/ t.command.kind = "offset"
    BY <1>5, <2>1, SetOffsetEffect
  <2> QED  BY <1>5, <2>2, <2>3, <2>4, <2>5 DEF SameUnits
<1>6. CASE l.option = "G193"
  <2> DEFINE i == [s EXCEPT !.current.interpolation = TRUE]
  <2>1. t = i  BY <1>6 DEF Optional
  <2>2. Alike(s, i) /\ i.command = s.command /\ i.modal = s.modal
    BY DEF Alike, SameUnits, SamePace, Shape, Bound, Fields, PrintState
  <2> HIDE DEF i
  <2> QED  BY <1>6, <2>1, <2>2 DEF Alike, SameUnits, SamePace
<1>7. CASE l.option = "G09"
  <2>1. t = [s EXCEPT !.current.slows = "end"]  BY <1>7 DEF Optional
  <2> QED  BY <1>7, <2>1 DEF Shape, Bound, Fields, PrintState
<1>8. ASSUME NEW d \in {"end", "after"}, t = SetSlows(s, d), l.option \in {"G900", "G901"}
      PROVE  /\ Alike(s, t) /\ t.command = s.command
  BY <1>8 DEF Alike, SameUnits, SamePace, SetSlows, SetModes, Shape, Bound, Fields, PrintState
<1>9. ASSUME NEW p \in {"XY", "XZ"}, t = SetPlane(s, p), l.option \in {"G17", "G18"}
      PROVE  /\ Alike(s, t) /\ t.command = s.command
  BY <1>9 DEF Alike, SameUnits, SamePace, SetPlane, SetModes, Shape, Bound, Fields, PrintState
<1>10. CASE l.option \in {"G900", "G901", "G17", "G18"}
  <2>1. /\ l.option = "G900" => t = SetSlows(s, "end")
        /\ l.option = "G901" => t = SetSlows(s, "after")
        /\ l.option = "G17" => t = SetPlane(s, "XY")
        /\ l.option = "G18" => t = SetPlane(s, "XZ")
    BY DEF Optional
  <2>2. Alike(s, t) /\ t.command = s.command
    BY <1>8, <1>9, <1>10, <2>1
  <2> QED  BY <1>10, <2>2 DEF Alike, SameUnits, SamePace
<1>11. CASE l.option = "none"
  <2>1. t = s  BY <1>11 DEF Optional
  <2> QED  BY <1>11, <2>1
<1>12. l.option \in Options  BY Zenon DEF LineTypes
<1> QED
  BY <1>1, <1>2, <1>3, <1>4, <1>5, <1>6, <1>7, <1>10, <1>11, <1>12 DEF Options

-----------------------------------------------------------------------------
(* The motion of a line.                                                   *)

Moves == {"G00", "G01", "G02"}

(* A line whose motion sends a path.                                       *)
IsPath(l) ==
  \/ l.word = "G01"
  \/ l.word = "G02" /\ (l.arc # "none" \/ DOMAIN l.at # {})

(* A motion begins with the feed rate of its line, or with the velocity    *)
(* in store.                                                               *)
LEMMA StartedEffect ==
  ASSUME NEW s, Shape(s), Bound(s), NEW l \in LineTypes, l.word \in Moves,
         s.current.units = Units(s, l), NEW t, t = Started(s, l)
  PROVE  /\ Sound(s, t) /\ SameUnits(s, t)
         /\ l.f # 0 => SetPace(s, t, Rate(s, l))
         /\ l.f = 0 => KeptPace(s, t)
         /\ t.vel[3] = s.vel[3] /\ t.command = s.command
<1> DEFINE m == SetMotion(s, l.word)
           p == Paced(m, l)
<1>1. Alike(s, m) /\ m.command = s.command
  BY SetMotionAlike DEF Moves, Motions
<1> HIDE DEF m
<1>2. m.current.units = Units(m, l) /\ Rate(m, l) = Rate(s, l)
  BY <1>1 DEF Alike, SameUnits, Units, Rate
<1>3. /\ Shape(m) /\ Bound(m)  BY <1>1 DEF Alike
<1>4. /\ l.f = 0 => p = m
      /\ l.f # 0 => PacedAt(m, p, Rate(s, l)) /\ p.vel[3] = m.vel[3]
      /\ p.command = m.command
  BY <1>2, <1>3, PacedEffect
<1> HIDE DEF p
<1>5. Shape(p) /\ Bound(p)  BY <1>3, <1>4 DEF PacedAt
<1>6. Alike(p, t) /\ t.command = p.command
  BY <1>5, FeedingAlike DEF Started, p, m
<1> QED
  BY <1>1, <1>4, <1>6 DEF Alike, SameUnits, SamePace, SetPace, KeptPace, Sound, PacedAt

(* The command of a move, and what the move leaves.                        *)
MovingLeaves(s, l, t) ==
  /\ Sound(s, t) /\ SameUnits(s, t)
  /\ l.word \in Moves /\ l.f # 0 => SetPace(s, t, Rate(s, l))
  /\ ~(l.word \in Moves /\ l.f # 0) => KeptPace(s, t)
  /\ l.word \in {"G01", "G02"} => t.vel[3] = t.vel[2]
  /\ l.word \notin {"G01", "G02"} => t.vel[3] = s.vel[3]

MovingSends(s, l, t) ==
  /\ IsPath(l) =>
       /\ t.command.kind \in Paths
       /\ s.vel[1] = t.vel[2] /\ s.vel[3] = t.vel[2] => t.command.vel = Constant(t.vel[2])
  /\ ~IsPath(l) => t.command = s.command \/ t.command.kind \in {"rapid", "dwell"}

(* A rapid line sends no path, and keeps the velocity after it.            *)
LEMMA RapidEffect ==
  ASSUME NEW s, Shape(s), Bound(s), NEW l \in LineTypes, l.word = "G00",
         s.current.units = Units(s, l), NEW t, t = Moving(s, l)
  PROVE  MovingLeaves(s, l, t) /\ MovingSends(s, l, t)
<1> DEFINE a == Started(s, l)
           p == Place(a, l)
<1>1. /\ Sound(s, a) /\ SameUnits(s, a)
      /\ l.f # 0 => SetPace(s, a, Rate(s, l))
      /\ l.f = 0 => KeptPace(s, a)
      /\ a.vel[3] = s.vel[3] /\ a.command = s.command
  BY StartedEffect DEF Moves
<1> HIDE DEF a
<1>2. Alike(a, p)  BY <1>1, PlaceAlike DEF Sound
<1>3. t = Emit(p, "rapid", p.position, Constant(Rapid))
  BY Zenon DEF Moving, p, a
<1> HIDE DEF p
<1>4. Alike(p, t) /\ t.command.kind = "rapid"
  BY <1>2, <1>3, EmitAlike DEF Alike
<1>5. Alike(a, t)  BY <1>2, <1>4, AlikeTrans
<1> QED
  BY <1>1, <1>4, <1>5
  DEF MovingLeaves, MovingSends, Alike, SameUnits, SamePace, Sound, KeptPace, SetPace, Moves, IsPath

(* A straight line is sent with one velocity when the three are the same.  *)
LEMMA LinearEffect ==
  ASSUME NEW s, Shape(s), Bound(s), NEW l \in LineTypes, l.word = "G01",
         s.current.units = Units(s, l), NEW t, t = Moving(s, l)
  PROVE  MovingLeaves(s, l, t) /\ MovingSends(s, l, t)
<1> DEFINE a == Started(s, l)
           p == Place(a, l)
           q == Ramped(p)
<1>1. /\ Sound(s, a) /\ SameUnits(s, a)
      /\ l.f # 0 => SetPace(s, a, Rate(s, l))
      /\ l.f = 0 => KeptPace(s, a)
      /\ a.vel[3] = s.vel[3] /\ a.command = s.command
  BY StartedEffect DEF Moves
<1> HIDE DEF a
<1>2. Alike(a, p)  BY <1>1, PlaceAlike DEF Sound
<1>3. t = Emit(q, "move", p.position, Ramp(p))
  BY <1>1, Zenon DEF Moving, q, p, a
<1> HIDE DEF p
<1>4. /\ Shape(q) /\ Bound(q) /\ SameUnits(p, q)
      /\ q.vel[1] = p.vel[1] /\ q.vel[2] = p.vel[2] /\ q.vel[3] = p.vel[2]
      /\ q.modal.rate = p.modal.rate /\ q.current.rate = p.current.rate
  BY <1>2, RampedEffect DEF Alike
<1> HIDE DEF q
<1>5. Alike(q, t) /\ t.command.kind = "move" /\ t.command.vel = Ramp(p)
  BY <1>3, <1>4, EmitAlike
<1>6. s.vel[1] = t.vel[2] /\ s.vel[3] = t.vel[2] => Ramp(p) = Constant(t.vel[2])
  <2>1. p.vel[1] = s.vel[1] /\ p.vel[3] = s.vel[3] /\ p.vel[2] = t.vel[2] /\ Shape(p)
    BY <1>1, <1>2, <1>4, <1>5 DEF Alike, SamePace, KeptPace, SetPace
  <2> QED  BY <2>1, NoRamp
<1>7. MovingSends(s, l, t)
  <2>1. IsPath(l)  BY Zenon DEF IsPath
  <2>2. t.command.kind \in Paths  BY <1>5 DEF Paths
  <2> QED  BY <1>5, <1>6, <2>1, <2>2, Zenon DEF MovingSends
<1>8. MovingLeaves(s, l, t)
  BY <1>1, <1>2, <1>4, <1>5
  DEF MovingLeaves, Alike, SameUnits, SamePace, Sound, KeptPace, SetPace, Moves
<1> QED  BY <1>7, <1>8

(* So is an arc, which is ramped before its end is placed.                 *)
LEMMA ArcEffect ==
  ASSUME NEW s, Shape(s), Bound(s), NEW l \in LineTypes, l.word = "G02",
         s.current.units = Units(s, l), NEW t, t = Moving(s, l)
  PROVE  MovingLeaves(s, l, t) /\ MovingSends(s, l, t)
<1> DEFINE a == Started(s, l)
           q == Ramped(a)
           p == Place(q, l)
           e(kind) == Emit(p, kind, p.position, Ramp(a))
<1>1. /\ Sound(s, a) /\ SameUnits(s, a)
      /\ l.f # 0 => SetPace(s, a, Rate(s, l))
      /\ l.f = 0 => KeptPace(s, a)
      /\ a.vel[3] = s.vel[3] /\ a.command = s.command
  BY StartedEffect DEF Moves
<1>2. t = Arc(s, l)  BY Zenon DEF Moving
<1>3. /\ l.arc = "R" => t = e("radius")
      /\ l.arc # "R" /\ DOMAIN l.at # {} => t = e("centre")
      /\ l.arc = "IJK" /\ DOMAIN l.at = {} => t = e("circle")
      /\ l.arc = "none" /\ DOMAIN l.at = {} => t = q
  BY <1>2, Zenon DEF Arc
<1>4. l.arc \in {"none", "R", "IJK"}  BY Zenon DEF LineTypes
<1>5. /\ Shape(q) /\ Bound(q) /\ SameUnits(a, q)
      /\ q.vel[1] = a.vel[1] /\ q.vel[2] = a.vel[2] /\ q.vel[3] = a.vel[2]
      /\ q.modal.rate = a.modal.rate /\ q.current.rate = a.current.rate
      /\ q.command = a.command
  BY <1>1, RampedEffect DEF Sound
<1> HIDE DEF a, q
<1>6. Alike(q, p)  BY <1>5, PlaceAlike
<1>7. ASSUME NEW kind PROVE Alike(q, e(kind)) /\ e(kind).command.kind = kind
                            /\ e(kind).command.vel = Ramp(a)
  <2>1. Shape(p) /\ Bound(p)  BY <1>6 DEF Alike
  <2> HIDE DEF p
  <2>2. Alike(p, e(kind)) /\ e(kind).command.kind = kind /\ e(kind).command.vel = Ramp(a)
    BY <2>1, EmitAlike
  <2> HIDE DEF e
  <2> QED  BY <1>6, <2>2, AlikeTrans
<1> HIDE DEF e, p
<1>8. IsPath(l) <=> l.arc # "none" \/ DOMAIN l.at # {}
  BY DEF IsPath
<1>9. CASE IsPath(l)
  <2>1. PICK kind \in Paths : t = e(kind)
    BY <1>3, <1>4, <1>8, <1>9 DEF Paths
  <2>2. Alike(q, t) /\ t.command.kind \in Paths /\ t.command.vel = Ramp(a)
    BY <1>7, <2>1
  <2>3. s.vel[1] = t.vel[2] /\ s.vel[3] = t.vel[2] => Ramp(a) = Constant(t.vel[2])
    <3>1. a.vel[1] = s.vel[1] /\ a.vel[3] = s.vel[3] /\ a.vel[2] = t.vel[2] /\ Shape(a)
      BY <1>1, <1>5, <2>2 DEF Alike, SamePace, KeptPace, SetPace, Sound
    <3> QED  BY <3>1, NoRamp
  <2>4. MovingSends(s, l, t)
    BY <1>9, <2>2, <2>3, Zenon DEF MovingSends
  <2>5. MovingLeaves(s, l, t)
    BY <1>1, <1>5, <2>2
    DEF MovingLeaves, Alike, SameUnits, SamePace, Sound, KeptPace, SetPace, Moves
  <2> QED  BY <2>4, <2>5
<1>10. CASE ~IsPath(l)
  <2>1. t = q  BY <1>3, <1>8, <1>4, <1>10
  <2>2. MovingSends(s, l, t)
    BY <1>1, <1>5, <1>10, <2>1 DEF MovingSends
  <2>3. MovingLeaves(s, l, t)
    BY <1>1, <1>5, <2>1
    DEF MovingLeaves, SameUnits, Sound, KeptPace, SetPace, Moves
  <2> QED  BY <2>2, <2>3
<1> QED  BY <1>9, <1>10

(* A dwell is no path and keeps the velocities.                            *)
LEMMA DwellEffect ==
  ASSUME NEW s, Shape(s), Bound(s), NEW l \in LineTypes, l.word = "G04",
         NEW t, t = Moving(s, l)
  PROVE  MovingLeaves(s, l, t) /\ MovingSends(s, l, t)
<1> DEFINE d == [s EXCEPT !.current.motion = "G04"]
<1>1. Alike(s, d) /\ d.command = s.command
  BY DEF Alike, SameUnits, SamePace, Shape, Bound, Fields, PrintState, Motions
<1>2. t = Emit(d, "dwell", s.position, Constant(0))
  BY Zenon DEF Moving, d
<1> HIDE DEF d
<1>3. Alike(d, t) /\ t.command.kind = "dwell"
  BY <1>1, <1>2, EmitAlike DEF Alike
<1>4. Alike(s, t)  BY <1>1, <1>3, AlikeTrans
<1> QED
  BY <1>3, <1>4
  DEF MovingLeaves, MovingSends, Alike, SameUnits, SamePace, Sound, KeptPace, Moves, IsPath

(* Whatever the motion: what it leaves and what it sends.                  *)
LEMMA MovingEffect ==
  ASSUME NEW s, Shape(s), Bound(s), NEW l \in LineTypes, s.current.units = Units(s, l),
         NEW t, t = Moving(s, l)
  PROVE  MovingLeaves(s, l, t) /\ MovingSends(s, l, t)
<1>1. CASE l.word \notin Motions
  <2>1. t = s  BY <1>1 DEF Moving, Motions
  <2> QED
    BY <1>1, <2>1
    DEF MovingLeaves, MovingSends, SameUnits, Sound, KeptPace, Motions, Moves, IsPath
<1> QED
  BY <1>1, RapidEffect, LinearEffect, ArcEffect, DwellEffect DEF Motions

-----------------------------------------------------------------------------
(* One run of a line, and the two runs of a line with numbers.             *)

(* Does a run of the line set the pace?                                    *)
Paces(s, l) ==
  /\ l.f # 0
  /\ \/ l.word \in Moves
     \/ l.option = "G92" /\ s.modal.mode = "absolute"

RunLeaves(s, l, t) ==
  /\ Sound(s, t) /\ t.current.units = Units(s, l)
  /\ l.option = "G92" => t.modal.mode = s.modal.mode
  /\ Paces(s, l) => SetPace(s, t, Rate(s, l))
  /\ ~Paces(s, l) => KeptPace(s, t)
  /\ l.word \in {"G01", "G02"} => t.vel[3] = t.vel[2]
  /\ l.word \notin {"G01", "G02"} /\ ~Paces(s, l) => t.vel[3] = s.vel[3]

RunSends(s, l, t) ==
  /\ IsPath(l) =>
       /\ t.command.kind \in Paths
       /\ s.vel[1] = t.vel[2] /\ s.vel[3] = t.vel[2] => t.command.vel = Constant(t.vel[2])
  /\ ~IsPath(l) => t.command = s.command \/ t.command.kind \in {"rapid", "dwell", "offset", "home"}

(* The whole run of a line: home, option and motion, in this order.        *)
LEMMA CommandGEffect ==
  ASSUME NEW s, Shape(s), Bound(s), NEW l \in LineTypes, NEW t, t = CommandG(s, l)
  PROVE  RunLeaves(s, l, t) /\ RunSends(s, l, t)
<1> DEFINE h == IF l.word = "G74" THEN GoHome(s, l) ELSE s
           o == Optional(h, l)
<1>1. /\ Alike(s, h)
      /\ h.command = s.command \/ h.command.kind = "home"
  BY GoHomeAlike DEF Alike, SameUnits, SamePace
<1>2. t = Moving(o, l)  BY Zenon DEF CommandG, o, h
<1> HIDE DEF h
<1>3. /\ Shape(h) /\ Bound(h) /\ Units(h, l) = Units(s, l) /\ Rate(h, l) = Rate(s, l)
      /\ h.modal.mode = s.modal.mode /\ h.vel = s.vel /\ h.modal.rate = s.modal.rate
      /\ h.current.rate = s.current.rate
  BY <1>1 DEF Alike, SameUnits, SamePace, Units, Rate
<1>4. /\ Sound(h, o) /\ o.current.units = Units(h, l)
      /\ l.option = "G92" => o.modal.mode = h.modal.mode
      /\ OptionPaces(h, l) => SetPace(h, o, Rate(h, l)) /\ o.vel[3] = Rate(h, l)
      /\ ~OptionPaces(h, l) => KeptPace(h, o) /\ o.vel[3] = h.vel[3]
      /\ o.command = h.command \/ o.command.kind = "offset"
  BY <1>3, OptionalEffect
<1> HIDE DEF o
<1>5. Units(o, l) = Units(s, l) /\ Rate(o, l) = Rate(s, l)
  BY <1>3, <1>4 DEF Units, Rate
<1>6. MovingLeaves(o, l, t) /\ MovingSends(o, l, t)
  BY <1>2, <1>3, <1>4, <1>5, MovingEffect DEF Sound
<1>7. OptionPaces(h, l) <=> l.option = "G92" /\ l.f # 0 /\ s.modal.mode = "absolute"
  BY <1>3 DEF OptionPaces, OffsetPaces
<1>8. RunLeaves(s, l, t)
  <2>1. /\ Sound(s, t) /\ t.current.units = Units(s, l)
        /\ l.option = "G92" => t.modal.mode = s.modal.mode
        /\ l.word \in {"G01", "G02"} => t.vel[3] = t.vel[2]
    BY <1>3, <1>4, <1>6 DEF MovingLeaves, Sound, SameUnits
  <2>2. Paces(s, l) => SetPace(s, t, Rate(s, l))
    BY <1>3, <1>4, <1>5, <1>6, <1>7 DEF MovingLeaves, Paces, SetPace, KeptPace
  <2>3. ~Paces(s, l) => KeptPace(s, t)
    BY <1>3, <1>4, <1>6, <1>7 DEF MovingLeaves, Paces, KeptPace
  <2>4. l.word \notin {"G01", "G02"} /\ ~Paces(s, l) => t.vel[3] = s.vel[3]
    BY <1>3, <1>4, <1>6, <1>7 DEF MovingLeaves, Paces
  <2> QED  BY <2>1, <2>2, <2>3, <2>4 DEF RunLeaves
<1>9. RunSends(s, l, t)
  <2>1. CASE IsPath(l)
    <3>1. l.word \in Moves /\ l.word \in {"G01", "G02"}
      BY <2>1 DEF IsPath, Moves
    <3>2. ASSUME s.vel[1] = t.vel[2], s.vel[3] = t.vel[2]
          PROVE  o.vel[1] = t.vel[2] /\ o.vel[3] = t.vel[2]
      BY <1>3, <1>4, <1>5, <1>6, <1>7, <3>1, <3>2
      DEF MovingLeaves, SetPace, KeptPace
    <3> QED  BY <1>6, <2>1, <3>2, Zenon DEF RunSends, MovingSends
  <2>2. CASE ~IsPath(l)
    BY <1>1, <1>4, <1>6, <2>2 DEF RunSends, MovingSends
  <2> QED  BY <2>1, <2>2
<1> QED  BY <1>8, <1>9

(* Three velocities are a function on 1 .. 3.                              *)
LEMMA Triple ==
  ASSUME NEW a \in Nat, NEW b \in Nat, NEW c \in Nat
  PROVE  /\ <<a, b, c>> \in [1 .. 3 -> Nat]
         /\ <<a, b, c>>[1] = a /\ <<a, b, c>>[2] = b /\ <<a, b, c>>[3] = c
  OBVIOUS

(* The look-ahead sets the velocity after the line and nothing else.       *)
LEMMA LookAheadEffect ==
  ASSUME NEW s, Shape(s), Bound(s), NEW ahead \in Feeds \cup {0}, NEW t, t = LookAhead(s, ahead)
  PROVE  /\ Shape(t) /\ Bound(t) /\ SameUnits(s, t) /\ KeptPace(s, t)
         /\ t.current.rate = s.current.rate /\ t.command = s.command
         /\ ahead = 0 => t.vel[3] = s.current.rate
<1> DEFINE v == IF ahead = 0 THEN s.current.rate ELSE Scaled(s, ahead)
<1>1. v \in Nat
  <2>1. Feeds \subseteq Nat /\ Inch \in Nat  BY ParserAssumption
  <2>2. s.current.rate \in Nat  BY DEF Shape, PrintState
  <2> QED  BY <2>1, <2>2 DEF Scaled
<1>2. ahead = 0 => v = s.current.rate  OBVIOUS
<1>3. t = [s EXCEPT !.vel[3] = v]  BY DEF LookAhead
<1> HIDE DEF v
<1> QED  BY <1>1, <1>2, <1>3 DEF Shape, Bound, SameUnits, KeptPace, Fields

(* ParseMotion(): the run, then the shift of the velocities and the copy.  *)
LEMMA ParseMotionEffect ==
  ASSUME NEW s, Shape(s), Bound(s), NEW l \in LineTypes, NEW ahead \in Feeds \cup {0},
         NEW t, t = ParseMotion(s, l, ahead)
  PROVE  \E x, d :
           /\ Shape(x) /\ Bound(x) /\ SameUnits(s, x) /\ KeptPace(s, x)
           /\ x.current.rate = s.current.rate /\ x.command = s.command
           /\ ahead = 0 => x.vel[3] = s.current.rate
           /\ RunLeaves(x, l, d) /\ RunSends(x, l, d)
           /\ Shape(t) /\ Bound(t)
           /\ t.modal = d.modal /\ t.current = d.modal /\ t.command = d.command
           /\ t.vel[1] = d.vel[2] /\ t.vel[2] = d.vel[3] /\ t.vel[3] = d.vel[3]
<1> DEFINE x == LookAhead(s, ahead)
           d == CommandG(x, l)
           v == <<d.vel[2], d.vel[3], d.vel[3]>>
<1>1. /\ Shape(x) /\ Bound(x) /\ SameUnits(s, x) /\ KeptPace(s, x)
      /\ x.current.rate = s.current.rate /\ x.command = s.command
      /\ ahead = 0 => x.vel[3] = s.current.rate
  BY LookAheadEffect
<1> HIDE DEF x
<1>2. RunLeaves(x, l, d) /\ RunSends(x, l, d)  BY <1>1, CommandGEffect
<1>3. t = [d EXCEPT !.vel = v, !.current = d.modal]
  BY Zenon DEF ParseMotion, v, d, x
<1> HIDE DEF d
<1>4. Shape(d)  BY <1>2 DEF RunLeaves, Sound
<1>5. v \in [1 .. 3 -> Nat] /\ v[1] = d.vel[2] /\ v[2] = d.vel[3] /\ v[3] = d.vel[3]
  BY <1>4, Triple DEF Shape
<1> HIDE DEF v
<1>6. /\ Shape(t) /\ Bound(t)
      /\ t.modal = d.modal /\ t.current = d.modal /\ t.command = d.command
      /\ t.vel[1] = d.vel[2] /\ t.vel[2] = d.vel[3] /\ t.vel[3] = d.vel[3]
  BY <1>3, <1>4, <1>5 DEF Shape, Bound, Fields
<1> QED  BY <1>1, <1>2, <1>6

(* The second run finds the velocities, the units and the mode the first   *)
(* has left, and so sets the same pace, without a ramp.                    *)
LEMMA TwoRuns ==
  ASSUME NEW s, Shape(s), Bound(s), s.command = None,
         NEW l \in LineTypes, NEW ahead \in Feeds \cup {0},
         NEW t, t = CommandG(ParseMotion(s, l, ahead), l)
  PROVE  /\ Shape(t) /\ Bound(t) /\ t.current.rate = t.modal.rate
         /\ t.command.kind \in Paths => t.command.vel = Constant(t.vel[2])
         /\ t.command.kind \in Paths /\ l.f = 0 =>
              t.vel[2] = s.vel[2] /\ t.modal.rate = s.modal.rate
         /\ s.current.rate = s.modal.rate =>
              \/ t.vel[2] = t.modal.rate
              \/ ahead # 0
              \/ l.f = 0 /\ t.vel[2] = s.vel[2] /\ t.modal.rate = s.modal.rate
<1> DEFINE r == ParseMotion(s, l, ahead)
<1>1. PICK x, d :
        /\ Shape(x) /\ Bound(x) /\ SameUnits(s, x) /\ KeptPace(s, x)
        /\ x.current.rate = s.current.rate /\ x.command = s.command
        /\ ahead = 0 => x.vel[3] = s.current.rate
        /\ RunLeaves(x, l, d) /\ RunSends(x, l, d)
        /\ Shape(r) /\ Bound(r)
        /\ r.modal = d.modal /\ r.current = d.modal /\ r.command = d.command
        /\ r.vel[1] = d.vel[2] /\ r.vel[2] = d.vel[3] /\ r.vel[3] = d.vel[3]
  BY ParseMotionEffect
<1> HIDE DEF r
<1>2. RunLeaves(r, l, t) /\ RunSends(r, l, t)
  BY <1>1, CommandGEffect DEF r
<1>3. Units(r, l) = Units(x, l) /\ Rate(r, l) = Rate(x, l)
  BY <1>1 DEF RunLeaves, Sound, Bound, Units, Rate
<1>4. Paces(r, l) <=> Paces(x, l)
  BY <1>1 DEF RunLeaves, Paces
<1>5. t.modal.rate = d.modal.rate /\ t.current.rate = t.modal.rate
  BY <1>1, <1>2, <1>3, <1>4 DEF RunLeaves, Sound, SetPace, KeptPace
<1>6. CASE l.word \in {"G01", "G02"}
  <2>1. d.vel[3] = d.vel[2]  BY <1>1, <1>6 DEF RunLeaves
  <2>2. t.vel[2] = d.vel[2]
    BY <1>1, <1>2, <1>3, <1>4, <2>1 DEF RunLeaves, SetPace, KeptPace
  <2>3. IsPath(l) => t.command.kind \in Paths /\ t.command.vel = Constant(t.vel[2])
    BY <1>1, <1>2, <2>1, <2>2 DEF RunSends
  <2>4. Paces(x, l) => t.vel[2] = t.modal.rate
    BY <1>1, <1>5, <2>2 DEF RunLeaves, SetPace
  <2>5. ~Paces(x, l) => t.vel[2] = s.vel[2] /\ t.modal.rate = s.modal.rate
    BY <1>1, <1>5, <2>2 DEF RunLeaves, KeptPace
  <2>6. Paces(x, l) <=> l.f # 0
    BY <1>6 DEF Paces, Moves
  <2>7. ~IsPath(l) => t.command.kind \notin Paths
    BY <1>1, <1>2 DEF RunSends, Paths, None
  <2> QED
    BY <1>1, <1>2, <1>5, <2>3, <2>4, <2>5, <2>6, <2>7 DEF RunLeaves, Sound
<1>7. CASE l.word \notin {"G01", "G02"}
  <2>1. t.command.kind \notin Paths
    <3>1. ~IsPath(l)  BY <1>7 DEF IsPath
    <3> QED  BY <1>1, <1>2, <3>1 DEF RunSends, Paths, None
  <2>2. Paces(x, l) => t.vel[2] = t.modal.rate
    BY <1>1, <1>2, <1>3, <1>4 DEF RunLeaves, SetPace
  <2>3. ~Paces(x, l) => t.vel[2] = x.vel[3] /\ t.modal.rate = s.modal.rate
    BY <1>1, <1>2, <1>4, <1>5, <1>7 DEF RunLeaves, KeptPace
  <2> QED
    BY <1>1, <1>2, <1>5, <2>1, <2>2, <2>3 DEF RunLeaves, Sound
<1> QED  BY <1>6, <1>7

(* A line with numbers, and one without.                                   *)
LEMMA NumberedEffect ==
  ASSUME NEW s, Shape(s), Bound(s), NEW l \in LineTypes, Numbered(l),
         NEW ahead \in Feeds \cup {0}, NEW t, t = ParseSingleLine(s, l, ahead)
  PROVE  /\ Shape(t) /\ Bound(t) /\ t.current.rate = t.modal.rate
         /\ t.command.kind \in Paths => t.command.vel = Constant(t.vel[2])
         /\ t.command.kind \in Paths /\ l.f = 0 =>
              t.vel[2] = s.vel[2] /\ t.modal.rate = s.modal.rate
         /\ s.current.rate = s.modal.rate =>
              \/ t.vel[2] = t.modal.rate
              \/ ahead # 0
              \/ l.f = 0 /\ t.vel[2] = s.vel[2] /\ t.modal.rate = s.modal.rate
<1> DEFINE u == [s EXCEPT !.command = None]
           c == Completed(s, l)
<1>1. Alike(s, u) /\ u.command = None
  BY DEF Alike, SameUnits, SamePace, Shape, Bound, Fields
<1>2. c \in LineTypes /\ c.f = l.f
  <2>1. s.current.motion \in Motions \cup {"none", "G74"}  BY DEF Shape, PrintState
  <2>2. c = l \/ c = [l EXCEPT !.word = s.current.motion]  BY Zenon DEF Completed
  <2> QED  BY <2>1, <2>2 DEF LineTypes
<1>3. t = CommandG(ParseMotion(u, c, ahead), c)
  BY Zenon DEF ParseSingleLine
<1> HIDE DEF u, c
<1> QED
  BY <1>1, <1>2, <1>3, TwoRuns DEF Alike, SamePace

(* A line without numbers moves nothing and keeps the velocities.          *)
LEMMA UnnumberedEffect ==
  ASSUME NEW s, Shape(s), Bound(s), NEW l \in LineTypes, ~Numbered(l),
         NEW ahead, NEW t, t = ParseSingleLine(s, l, ahead)
  PROVE  /\ Shape(t) /\ Bound(t) /\ KeptPace(s, t) /\ t.current.rate = s.current.rate
<1> DEFINE u == [s EXCEPT !.command = None]
<1>1. Alike(s, u)
  BY DEF Alike, SameUnits, SamePace, Shape, Bound, Fields
<1>2. t = CommandG(u, l)
  BY Zenon DEF ParseSingleLine
<1> HIDE DEF u
<1>3. RunLeaves(u, l, t)  BY <1>1, <1>2, CommandGEffect DEF Alike
<1>4. l.f = 0  BY Zenon DEF Numbered
<1> QED  BY <1>1, <1>3, <1>4 DEF RunLeaves, Paces, KeptPace, Sound, Alike, SamePace

-----------------------------------------------------------------------------
(***************************************************************************)
(* Places and words: where a line takes the two arrays and the command,    *)
(* and what its feed and interpolation words do.                           *)
(***************************************************************************)

Targets == Positions \cup [Linear -> Int]

(* The types of the rest of the state.                                     *)
Placed(s) ==
  /\ s.position \in Positions /\ s.offset \in Positions /\ s.shared \in BOOLEAN
  /\ s.shared => s.position = s.offset
  /\ s.late \in BOOLEAN
  /\ s.command = None \/ s.command.to \in Targets

(* What t keeps of s: the arrays, the words of this motion, and those of   *)
(* ModalState, where they are never written.                               *)
Where(s, t) == t.position = s.position /\ t.offset = s.offset /\ t.shared = s.shared
Lasting(s, t) ==
  t.modal.feed = s.modal.feed /\ t.modal.interpolation = s.modal.interpolation
Words(s, t) ==
  t.current.feed = s.current.feed /\ t.current.interpolation = s.current.interpolation
Still(s, t) ==
  /\ Where(s, t) /\ Lasting(s, t) /\ Words(s, t)
  /\ t.late = s.late /\ t.command = s.command

(* The setters.                                                            *)
LEMMA SettersStill ==
  ASSUME NEW s, Shape(s), NEW v
  PROVE  /\ Still(s, SetUnits(s, v)) /\ Still(s, SetMode(s, v)) /\ Still(s, SetMotion(s, v))
         /\ Still(s, SetPlane(s, v)) /\ Still(s, SetSlows(s, v))
<1> USE DEF Shape, Fields, PrintState, Still, Where, Lasting, Words, SetModes
<1>1. Still(s, SetUnits(s, v))
  BY DEF SetUnits
<1>2. Still(s, SetMode(s, v))
  BY DEF SetMode
<1>3. Still(s, SetMotion(s, v))
  BY DEF SetMotion
<1>4. Still(s, SetPlane(s, v))
  BY DEF SetPlane
<1>5. Still(s, SetSlows(s, v))
  BY DEF SetSlows
<1> QED  BY <1>1, <1>2, <1>3, <1>4, <1>5

(* A feed rate moves nothing and changes no word of the line.              *)
LEMMA PacedStill ==
  ASSUME NEW s, Shape(s), NEW l
  PROVE  Still(s, Paced(s, l))
<1> DEFINE r == Scaled(s, l.f)
<1> HIDE DEF r
<1>1. Still(s, [s EXCEPT !.vel[2] = r, !.modal.rate = r]) /\ Still(s, s)
  BY DEF Shape, Fields, PrintState, Still, Where, Lasting, Words
<1> QED  BY <1>1, Zenon DEF Paced, r

(* GetVelocityRamps() may postpone a deceleration.                         *)
LEMMA RampedWhere ==
  ASSUME NEW s, Shape(s), Placed(s)
  PROVE  /\ Placed(Ramped(s)) /\ Where(s, Ramped(s)) /\ Lasting(s, Ramped(s))
         /\ Words(s, Ramped(s)) /\ Ramped(s).command = s.command
<1> DEFINE d == s.late \/ Postpones(s)
           t == [s EXCEPT !.vel[3] = s.vel[2], !.late = d]
<1>1. d \in BOOLEAN
  BY DEF Placed
<1> HIDE DEF d
<1>2. Placed(t) /\ Where(s, t) /\ Lasting(s, t) /\ Words(s, t) /\ t.command = s.command
  BY <1>1 DEF Shape, Fields, Placed, Where, Lasting, Words
<1>3. Ramped(s) = t
  BY Zenon DEF Ramped, d
<1> QED  BY <1>2, <1>3

(* The word A is for this motion.                                          *)
Fed(s, l, t) ==
  /\ l.a => t.current.feed = TRUE
  /\ ~l.a => t.current.feed = s.current.feed

(* The extrusion of a line follows its A word, and stays without one.      *)
LEMMA FeedingWhere ==
  ASSUME NEW s, Shape(s), NEW l, NEW t, t = Feeding(s, l)
  PROVE  /\ Where(s, t) /\ Lasting(s, t) /\ t.late = s.late /\ t.command = s.command
         /\ t.current.interpolation = s.current.interpolation
         /\ Fed(s, l, t)
<1> USE DEF Where, Lasting, Fed
<1>1. CASE l.a
  <2>1. t = [s EXCEPT !.current.feed = TRUE]
    BY <1>1 DEF Feeding
  <2> QED  BY <1>1, <2>1 DEF Shape, Fields, PrintState
<1>2. CASE ~l.a
  <2>1. t = s
    BY <1>2 DEF Feeding
  <2> QED  BY <1>2, <2>1
<1> QED  BY <1>1, <1>2

(* What is sent.                                                           *)
LEMMA EmitWhere ==
  ASSUME NEW s, Shape(s), NEW kind, NEW to, NEW speeds, NEW t, t = Emit(s, kind, to, speeds)
  PROVE  /\ Where(s, t) /\ Lasting(s, t) /\ Words(s, t) /\ t.late = s.late
         /\ t.command.kind = kind /\ t.command.to = to /\ t.command.feed = s.current.feed
         /\ kind \in Paths => t.command.interpolation = s.current.interpolation
<1> DEFINE c ==
     [kind |-> kind, to |-> to, vel |-> speeds, feed |-> s.current.feed,
      absolute |-> s.current.mode = "absolute", plane |-> s.current.plane,
      interpolation |-> kind \in Paths /\ s.current.interpolation]
<1>1. c.kind = kind /\ c.to = to /\ c.feed = s.current.feed
  OBVIOUS
<1>2. kind \in Paths => c.interpolation = s.current.interpolation
  <2>1. c.interpolation = (kind \in Paths /\ s.current.interpolation)
    OBVIOUS
  <2>2. s.current.interpolation \in BOOLEAN
    BY DEF Shape, PrintState
  <2> HIDE DEF c
  <2> QED  BY <2>1, <2>2
<1> HIDE DEF c
<1>3. t = [s EXCEPT !.command = c]
  BY Zenon DEF Emit, c
<1> QED  BY <1>1, <1>2, <1>3 DEF Shape, Fields, Where, Lasting, Words

(* The numbers of a line.                                                  *)
LEMMA NumberInt ==
  ASSUME NEW s, NEW l \in LineTypes, NEW axis \in DOMAIN l.at
  PROVE  l.at[axis] \in Int /\ Number(s, l, axis) \in Int
<1>1. PICK named \in SUBSET Axes : l.at \in [named -> Values]
  BY DEF LineTypes, Coordinates
<1>2. l.at[axis] \in Int /\ Inch \in Int
  <2>1. Values \subseteq Int /\ Inch \in Int
    BY ParserAssumption
  <2>2. l.at[axis] \in Values
    BY <1>1
  <2> QED  BY <2>1, <2>2
<1>3. Inch * l.at[axis] \in Int
  BY <1>2
<1> QED  BY <1>2, <1>3 DEF Number, Scaled

(* GetReferencePosition() leads to the numbers of the line, beyond the     *)
(* offset, and writes them into both arrays when they are one.             *)
LEMMA PlaceWhere ==
  ASSUME NEW s, Shape(s), Placed(s), NEW l \in LineTypes, NEW t, t = Place(s, l)
  PROVE  /\ Placed(t) /\ Lasting(s, t) /\ Words(s, t) /\ t.command = s.command
         /\ t.shared = s.shared /\ (~s.shared => t.offset = s.offset)
         /\ \A axis \in Axes :
              t.position[axis] = IF axis \in DOMAIN l.at
                                 THEN Number(s, l, axis) + s.offset[axis]
                                 ELSE s.position[axis]
<1> DEFINE array == [axis \in Axes |->
              IF axis \in DOMAIN l.at THEN Number(s, l, axis) + s.offset[axis]
              ELSE s.position[axis]]
<1>1. array \in Positions
  <2>1. \A axis \in Axes : s.offset[axis] \in Int /\ s.position[axis] \in Int
    BY DEF Placed, Positions
  <2> QED  BY <2>1, NumberInt DEF Positions
<1>2. \A axis \in Axes :
        array[axis] = IF axis \in DOMAIN l.at THEN Number(s, l, axis) + s.offset[axis]
                      ELSE s.position[axis]
  OBVIOUS
<1>3. t = Store(s, array)
  BY Zenon DEF Place
<1> HIDE DEF array
<1>4. CASE s.shared
  <2>1. t = [s EXCEPT !.position = array, !.offset = array]
    BY <1>3, <1>4 DEF Store
  <2> QED  BY <1>1, <1>2, <1>4, <2>1 DEF Shape, Fields, Placed, Lasting, Words
<1>5. CASE ~s.shared
  <2>1. t = [s EXCEPT !.position = array]
    BY <1>3, <1>5 DEF Store
  <2> QED  BY <1>1, <1>2, <1>5, <2>1 DEF Shape, Fields, Placed, Lasting, Words
<1> QED  BY <1>4, <1>5

(* The options turn on interpolation, and move the offset; the position    *)
(* only when it is the offset.                                             *)
OptionWhere(s, l, t) ==
  /\ Placed(t) /\ Lasting(s, t) /\ t.shared = s.shared
  /\ ~s.shared => t.position = s.position
  /\ t.current.feed = s.current.feed
  /\ l.option = "G193" => t.current.interpolation = TRUE
  /\ l.option # "G193" => t.current.interpolation = s.current.interpolation

(* G92 changes the offset and leaves the position, unless they are one     *)
(* array.                                                                  *)
LEMMA SetOffsetWhere ==
  ASSUME NEW s, Shape(s), Bound(s), Placed(s), NEW l \in LineTypes, NEW t, t = SetOffset(s, l)
  PROVE  /\ Placed(t) /\ Lasting(s, t) /\ Words(s, t) /\ t.shared = s.shared
         /\ ~s.shared => t.position = s.position
<1> DEFINE given == [axis \in Linear |-> IF axis \in DOMAIN l.at THEN Number(s, l, axis) ELSE 0]
           array(old) == [axis \in Axes |-> IF axis \in Linear THEN given[axis] ELSE old[axis]]
           o == array(s.offset)
           p == IF s.shared THEN array(s.offset) ELSE s.position
           m == [s EXCEPT !.offset = o, !.position = p]
           c == Paced(m, l)
           d == Ramped(c)
           e == Emit(m, "offset", given, <<0, Homing, 0>>)
           f == Emit(d, "offset", given, Ramp(c))
<1>1. /\ s.modal.mode = "relative" => t = m
      /\ s.modal.mode = "absolute" /\ l.f = 0 => t = e
      /\ OffsetPaces(s, l) => t = f
  BY Zenon DEF SetOffset, OffsetPaces
<1>2. s.modal.mode \in {"absolute", "relative"}
  BY DEF Shape, PrintState
<1>3. given \in [Linear -> Int]
  BY NumberInt
<1>4. o \in Positions
  <2>1. \A axis \in Axes : s.offset[axis] \in Int
    BY DEF Placed, Positions
  <2>2. \A axis \in Linear : given[axis] \in Int
    BY <1>3
  <2> HIDE DEF given
  <2> QED  BY <2>1, <2>2 DEF Positions
<1>5. p \in Positions /\ (s.shared => p = o) /\ (~s.shared => p = s.position)
  BY <1>4 DEF Placed
<1> HIDE DEF o, p, given, array
<1>6. /\ Alike(s, m) /\ Placed(m) /\ Lasting(s, m) /\ Words(s, m)
      /\ m.shared = s.shared /\ m.position = p
  BY <1>4, <1>5 DEF Alike, SameUnits, SamePace, Shape, Bound, Fields, Placed, Lasting, Words
<1> HIDE DEF m
<1>7. CASE t = m
  BY <1>5, <1>6, <1>7
<1>8. CASE t = e
  BY <1>3, <1>5, <1>6, <1>8, EmitWhere DEF Alike, Where, Lasting, Words, Placed, Targets
<1>9. CASE OffsetPaces(s, l)
  <2>2. Shape(c) /\ Still(m, c)
    <3>1. Still(m, c)
      BY <1>6, PacedStill DEF Alike
    <3>2. Shape(c)
      <4> DEFINE r == Scaled(m, l.f)
                 k == [m EXCEPT !.vel[2] = r, !.modal.rate = r]
      <4>0. l.f \in Nat /\ Inch * l.f \in Nat
        BY FeedNat
      <4>1. r \in Nat
        BY <4>0 DEF Scaled
      <4>2. c = m \/ c = k
        BY DEF Paced
      <4> HIDE DEF r, c
      <4>3. Shape(m)
        BY <1>6 DEF Alike
      <4>4. Shape(k)
        BY <4>1, <4>3 DEF Shape, Fields, PrintState
      <4> HIDE DEF k
      <4> QED  BY <4>2, <4>3, <4>4
    <3> QED  BY <3>1, <3>2
  <2> HIDE DEF c
  <2>3. Placed(c)
    BY <1>6, <2>2 DEF Still, Where, Placed
  <2>4. /\ Placed(d) /\ Where(c, d) /\ Lasting(c, d) /\ Words(c, d) /\ d.command = c.command
    BY <2>2, <2>3, RampedWhere
  <2>5. Shape(d)
    <3>1. d = [c EXCEPT !.vel[3] = c.vel[2], !.late = c.late \/ Postpones(c)]
      BY Zenon DEF Ramped, d
    <3> HIDE DEF d
    <3> QED  BY <2>2, <3>1 DEF Shape, Fields
  <2> HIDE DEF d
  <2>6. /\ Where(d, f) /\ Lasting(d, f) /\ Words(d, f) /\ f.late = d.late /\ f.command.to = given
    BY <2>5, EmitWhere
  <2> HIDE DEF f
  <2> QED
    BY <1>1, <1>3, <1>5, <1>6, <1>9, <2>2, <2>4, <2>6
    DEF Still, Where, Lasting, Words, Placed, Targets
<1> QED  BY <1>1, <1>2, <1>7, <1>8, <1>9 DEF OffsetPaces

(* What each option leaves of places and words: only G193 sets the         *)
(* interpolation.                                                          *)
LEMMA OptionalWhere ==
  ASSUME NEW s, Shape(s), Bound(s), Placed(s), NEW l \in LineTypes, NEW t, t = Optional(s, l)
  PROVE  OptionWhere(s, l, t)
<1>1. ASSUME Still(s, t), l.option # "G193" PROVE OptionWhere(s, l, t)
  BY <1>1 DEF OptionWhere, Still, Where, Lasting, Words, Placed
<1>2. CASE l.option \in {"G70", "G71", "G90", "G91", "G900", "G901", "G17", "G18"}
  <2>1. \E v : t \in {SetUnits(s, v), SetMode(s, v), SetSlows(s, v), SetPlane(s, v)}
    BY <1>2, Zenon DEF Optional
  <2> QED  BY <1>1, <1>2, <2>1, SettersStill
<1>3. CASE l.option = "G92"
  <2>1. t = SetOffset(s, l)
    BY <1>3 DEF Optional
  <2> QED  BY <1>3, <2>1, SetOffsetWhere DEF OptionWhere, Words
<1>4. CASE l.option = "G193"
  <2>1. t = [s EXCEPT !.current.interpolation = TRUE]
    BY <1>4 DEF Optional
  <2> QED  BY <1>4, <2>1 DEF Shape, Fields, PrintState, OptionWhere, Lasting, Placed
<1>5. CASE l.option = "G09"
  <2>1. t = [s EXCEPT !.current.slows = "end"]
    BY <1>5 DEF Optional
  <2> QED
    BY <1>1, <1>5, <2>1 DEF Shape, Fields, PrintState, Still, Where, Lasting, Words
<1>6. CASE l.option = "none"
  <2>1. t = s
    BY <1>6 DEF Optional
  <2> QED  BY <1>1, <1>6, <2>1 DEF Still, Where, Lasting, Words
<1>7. l.option \in Options
  BY Zenon DEF LineTypes
<1> QED  BY <1>2, <1>3, <1>4, <1>5, <1>6, <1>7 DEF Options

(* Homing moves, and makes the arrays one; it keeps the words.             *)
LEMMA GoHomeWhere ==
  ASSUME NEW s, Shape(s), Bound(s), Placed(s), NEW l \in LineTypes, NEW t, t = GoHome(s, l)
  PROVE  Placed(t) /\ Lasting(s, t) /\ Words(s, t)
<1> DEFINE p == Place(s, l)
           j == [p EXCEPT !.position = p.offset, !.shared = TRUE]
           e == Emit(j, "home", j.offset, <<0, Homing, 0>>)
<1>1. Placed(p) /\ Lasting(s, p) /\ Words(s, p) /\ Shape(p)
  BY PlaceWhere, PlaceAlike DEF Alike
<1> HIDE DEF p
<1>2. Placed(j) /\ Lasting(s, j) /\ Words(s, j) /\ Shape(j)
  BY <1>1 DEF Shape, Fields, Placed, Lasting, Words
<1> HIDE DEF j
<1>3. /\ Where(j, e) /\ Lasting(j, e) /\ Words(j, e) /\ e.late = j.late
      /\ e.command.to = j.offset
  BY <1>2, EmitWhere
<1>4. /\ DOMAIN e = Fields
      /\ DOMAIN e.command = {"kind", "to", "vel", "feed", "absolute", "plane", "interpolation"}
  BY <1>2, Zenon DEF Emit, Shape, Fields
<1>5. t = [e EXCEPT !.command.feed = FALSE]
  BY Zenon DEF GoHome, e, j, p
<1> HIDE DEF e
<1>6. /\ Where(e, t) /\ Lasting(e, t) /\ Words(e, t) /\ t.late = e.late
      /\ t.command.to = e.command.to
  BY <1>4, <1>5 DEF Fields, Where, Lasting, Words
<1> QED  BY <1>2, <1>3, <1>6 DEF Placed, Where, Lasting, Words, Targets

(* A line that goes somewhere, and where it goes.                          *)
Goes(l) == l.word = "G00" \/ IsPath(l)

Spot(old, t, l, axis) ==
  IF axis \in DOMAIN l.at THEN Number(t, l, axis) + t.offset[axis] ELSE old[axis]

Arrives(s, l, t) ==
  /\ t.command.to = t.position
  /\ ~s.shared => \A axis \in Axes : t.position[axis] = Spot(s.position, t, l, axis)

(* The words of the command: A, and interpolation.                         *)
FeedSent(s, l, t) ==
  /\ l.a => t.command.feed = TRUE
  /\ ~l.a => t.command.feed = s.current.feed
WordsSent(s, l, t) ==
  FeedSent(s, l, t) /\ t.command.interpolation = s.current.interpolation

MoveWhere(s, l, t) ==
  /\ Placed(t) /\ Lasting(s, t) /\ t.shared = s.shared
  /\ Goes(l) => Arrives(s, l, t)
  /\ IsPath(l) => WordsSent(s, l, t)
  /\ ~Goes(l) => t.command = s.command \/ t.command.kind = "dwell"

(* A motion that starts has moved nothing yet; its extrusion is set.       *)
LEMMA StartedWhere ==
  ASSUME NEW s, Shape(s), Bound(s), Placed(s), NEW l \in LineTypes, l.word \in Moves,
         s.current.units = Units(s, l), NEW t, t = Started(s, l)
  PROVE  /\ Shape(t) /\ Bound(t) /\ Placed(t) /\ t.current.units = s.current.units
         /\ Where(s, t) /\ Lasting(s, t) /\ t.command = s.command
         /\ t.current.interpolation = s.current.interpolation
         /\ Fed(s, l, t)
<1> DEFINE m == SetMotion(s, l.word)
           p == Paced(m, l)
<1>1. Shape(t) /\ Bound(t) /\ t.current.units = s.current.units
  BY StartedEffect DEF Sound, SameUnits
<1>2. Alike(s, m) /\ Still(s, m)
  BY SetMotionAlike, SettersStill DEF Moves, Motions
<1> HIDE DEF m
<1>3. Still(m, p)
  BY <1>2, PacedStill DEF Alike
<1>4. Shape(p)
  <2>1. l.f = 0 => p = m
    BY <1>2, PacedEffect DEF Alike
  <2>2. l.f # 0 => PacedAt(m, p, Rate(m, l))
    BY <1>2, PacedEffect DEF Alike, SameUnits, Units
  <2> HIDE DEF p
  <2> QED  BY <1>2, <2>1, <2>2 DEF Alike, PacedAt
<1>5. t = Feeding(p, l)
  BY Zenon DEF Started, p, m
<1> HIDE DEF p
<1>6. /\ Where(p, t) /\ Lasting(p, t) /\ t.late = p.late /\ t.command = p.command
      /\ t.current.interpolation = p.current.interpolation
      /\ Fed(p, l, t)
  BY <1>4, <1>5, FeedingWhere
<1>7. Where(s, p) /\ Lasting(s, p) /\ Words(s, p) /\ p.late = s.late /\ p.command = s.command
  BY <1>2, <1>3 DEF Still, Where, Lasting, Words
<1>8. Where(s, t) /\ Lasting(s, t) /\ t.late = s.late /\ t.command = s.command
  BY <1>6, <1>7 DEF Where, Lasting
<1>9. Placed(t)
  BY <1>8 DEF Placed, Where
<1>10. t.current.interpolation = s.current.interpolation
  BY <1>6, <1>7 DEF Words
<1>11. Fed(s, l, t)
  BY <1>6, <1>7, Zenon DEF Fed, Words
<1> QED  BY <1>1, <1>8, <1>9, <1>10, <1>11

(* The state a move is sent from.                                          *)
Ready(s, l, p) ==
  /\ Shape(p) /\ Bound(p) /\ Placed(p) /\ Lasting(s, p)
  /\ p.current.units = s.current.units /\ p.shared = s.shared
  /\ ~s.shared => \A axis \in Axes : p.position[axis] = Spot(s.position, p, l, axis)
  /\ p.current.interpolation = s.current.interpolation
  /\ Fed(s, l, p)

(* What is sent from a state that is ready goes to the place the line      *)
(* asks for.                                                               *)
LEMMA Sends ==
  ASSUME NEW s, NEW l, NEW p, Ready(s, l, p),
         Goes(l), NEW kind, NEW speeds, IsPath(l) => kind \in Paths,
         NEW t, t = Emit(p, kind, p.position, speeds)
  PROVE  MoveWhere(s, l, t)
<1>1. /\ Where(p, t) /\ Lasting(p, t) /\ Words(p, t) /\ t.late = p.late
      /\ t.command.to = p.position /\ t.command.feed = p.current.feed
      /\ kind \in Paths => t.command.interpolation = p.current.interpolation
  BY EmitWhere DEF Ready
<1>2. t.current.units = p.current.units
  BY EmitAlike DEF Ready, Alike, SameUnits
<1>3. Placed(t) /\ Lasting(s, t) /\ t.shared = s.shared
  BY <1>1 DEF Ready, Placed, Where, Lasting, Targets
<1>4. ASSUME NEW axis \in Axes PROVE Spot(s.position, t, l, axis) = Spot(s.position, p, l, axis)
  BY <1>1, <1>2 DEF Spot, Number, Scaled, Where
<1>5. Arrives(s, l, t)
  BY <1>1, <1>4 DEF Ready, Arrives, Where
<1>6. IsPath(l) => WordsSent(s, l, t)
  <2>1. FeedSent(s, l, t)
    BY <1>1, Zenon DEF Ready, FeedSent, Fed
  <2> QED  BY <1>1, <2>1 DEF Ready, WordsSent
<1> QED  BY <1>3, <1>5, <1>6 DEF MoveWhere

(* Started and placed, in either order with the ramp.                      *)
LEMMA PlaceSpot ==
  ASSUME NEW s, Placed(s), NEW l \in LineTypes, NEW a, Shape(a), Bound(a), Placed(a),
         Where(s, a), Lasting(s, a), NEW p, p = Place(a, l)
  PROVE  /\ Shape(p) /\ Bound(p) /\ Placed(p) /\ Lasting(s, p) /\ Words(a, p)
         /\ p.current.units = a.current.units /\ p.shared = s.shared
         /\ ~s.shared => \A axis \in Axes : p.position[axis] = Spot(s.position, p, l, axis)
<1>1. Alike(a, p)
  BY PlaceAlike
<1>2. /\ Placed(p) /\ Lasting(a, p) /\ Words(a, p) /\ p.shared = a.shared
      /\ (~a.shared => p.offset = a.offset)
      /\ \A axis \in Axes :
           p.position[axis] = IF axis \in DOMAIN l.at
                              THEN Number(a, l, axis) + a.offset[axis]
                              ELSE a.position[axis]
  BY <1>1, PlaceWhere
<1>3. \A axis \in Axes : Number(p, l, axis) = Number(a, l, axis)
  BY <1>1 DEF Alike, SameUnits, Number, Scaled
<1>4. ~s.shared => \A axis \in Axes : p.position[axis] = Spot(s.position, p, l, axis)
  BY <1>2, <1>3 DEF Spot, Where
<1> QED  BY <1>1, <1>2, <1>4 DEF Alike, SameUnits, Where, Lasting

(* Ramped() keeps the shape as well.                                       *)
LEMMA RampedKeeps ==
  ASSUME NEW s, Shape(s), Bound(s), Placed(s), NEW t, t = Ramped(s)
  PROVE  /\ Shape(t) /\ Bound(t) /\ Placed(t) /\ Where(s, t) /\ Lasting(s, t) /\ Words(s, t)
         /\ t.command = s.command /\ t.current.units = s.current.units
  BY RampedEffect, RampedWhere DEF SameUnits

(* What is ready stays so through a ramp.                                  *)
LEMMA RampedReady ==
  ASSUME NEW s, NEW l, NEW p, Ready(s, l, p), NEW q, q = Ramped(p)
  PROVE  Ready(s, l, q) /\ q.position = p.position
<1>1. /\ Shape(q) /\ Bound(q) /\ Placed(q) /\ Where(p, q) /\ Lasting(p, q) /\ Words(p, q)
      /\ q.current.units = p.current.units
  BY RampedKeeps DEF Ready
<1>2. \A axis \in Axes : Spot(s.position, q, l, axis) = Spot(s.position, p, l, axis)
  BY <1>1 DEF Spot, Number, Scaled, Where
<1>3. ~s.shared => \A axis \in Axes : q.position[axis] = Spot(s.position, q, l, axis)
  BY <1>1, <1>2 DEF Ready, Where
<1>4. Fed(s, l, q)
  BY <1>1, Zenon DEF Ready, Words, Fed
<1>5. Lasting(s, q) /\ q.shared = s.shared /\ q.current.units = s.current.units
      /\ q.current.interpolation = s.current.interpolation /\ q.position = p.position
  BY <1>1 DEF Ready, Where, Lasting, Words
<1> QED  BY <1>1, <1>3, <1>4, <1>5 DEF Ready

(* Whatever the motion: where it goes, and that it takes the options of    *)
(* its line.                                                               *)
LEMMA MovingWhere ==
  ASSUME NEW s, Shape(s), Bound(s), Placed(s), NEW l \in LineTypes,
         s.current.units = Units(s, l), NEW t, t = Moving(s, l)
  PROVE  MoveWhere(s, l, t)
<1> DEFINE a == Started(s, l)
<1>1. ASSUME l.word \in Moves
      PROVE  /\ Shape(a) /\ Bound(a) /\ Placed(a) /\ a.current.units = s.current.units
             /\ Where(s, a) /\ Lasting(s, a) /\ a.command = s.command
             /\ a.current.interpolation = s.current.interpolation
             /\ Fed(s, l, a)
  BY <1>1, StartedWhere
<1> HIDE DEF a
<1>r. ASSUME l.word \in Moves, NEW b, Shape(b), Bound(b), Placed(b), Where(a, b),
             Lasting(a, b), Words(a, b), b.current.units = a.current.units,
             NEW p, p = Place(b, l)
      PROVE  Ready(s, l, p)
  <2>1. Where(s, b) /\ Lasting(s, b)
    BY <1>1, <1>r DEF Where, Lasting
  <2>2. /\ Shape(p) /\ Bound(p) /\ Placed(p) /\ Lasting(s, p) /\ Words(b, p)
        /\ p.current.units = b.current.units /\ p.shared = s.shared
        /\ ~s.shared => \A axis \in Axes : p.position[axis] = Spot(s.position, p, l, axis)
    BY <1>r, <2>1, PlaceSpot
  <2>3. Fed(s, l, p)
    BY <1>1, <1>r, <2>2, Zenon DEF Words, Fed
  <2>4. /\ p.current.interpolation = s.current.interpolation
        /\ p.current.units = s.current.units
    BY <1>1, <1>r, <2>2 DEF Words
  <2> QED  BY <2>2, <2>3, <2>4 DEF Ready
<1>s. Where(a, a) /\ Lasting(a, a) /\ Words(a, a)
  BY DEF Where, Lasting, Words
<1>2. CASE l.word = "G00"
  <2> DEFINE p == Place(a, l)
  <2>1. t = Emit(p, "rapid", p.position, Constant(Rapid))
    BY <1>2, Zenon DEF Moving, a
  <2>2. l.word \in Moves /\ Goes(l) /\ ~IsPath(l)
    BY <1>2 DEF Moves, Goes, IsPath
  <2>3. Ready(s, l, p)
    BY <1>1, <1>r, <1>s, <2>2
  <2> HIDE DEF p
  <2> QED  BY <2>1, <2>2, <2>3, Sends
<1>3. CASE l.word = "G01"
  <2> DEFINE p == Place(a, l)
             q == Ramped(p)
  <2>1. t = Emit(q, "move", p.position, Ramp(p))
    BY <1>3, Zenon DEF Moving, a
  <2>2. l.word \in Moves /\ Goes(l) /\ "move" \in Paths
    BY <1>3 DEF Moves, Goes, IsPath, Paths
  <2>3. Ready(s, l, p)
    BY <1>1, <1>r, <1>s, <2>2
  <2> HIDE DEF p
  <2>4. Ready(s, l, q) /\ q.position = p.position
    BY <2>3, RampedReady
  <2> HIDE DEF q
  <2> QED  BY <2>1, <2>2, <2>4, Sends
<1>4. CASE l.word = "G02"
  <2> DEFINE q == Ramped(a)
             p == Place(q, l)
             e(kind) == Emit(p, kind, p.position, Ramp(a))
  <2>1. t = Arc(s, l)
    BY <1>4, Zenon DEF Moving
  <2>2. /\ l.arc = "R" => t = e("radius")
        /\ l.arc # "R" /\ DOMAIN l.at # {} => t = e("centre")
        /\ l.arc = "IJK" /\ DOMAIN l.at = {} => t = e("circle")
        /\ l.arc = "none" /\ DOMAIN l.at = {} => t = q
    BY <2>1, Zenon DEF Arc, a
  <2>3. l.arc \in {"none", "R", "IJK"}
    BY Zenon DEF LineTypes
  <2>4. l.word \in Moves /\ (IsPath(l) <=> Goes(l))
        /\ (IsPath(l) <=> l.arc # "none" \/ DOMAIN l.at # {})
    BY <1>4 DEF Moves, Goes, IsPath
  <2>5. /\ Shape(q) /\ Bound(q) /\ Placed(q) /\ Where(a, q) /\ Lasting(a, q) /\ Words(a, q)
        /\ q.command = a.command /\ q.current.units = a.current.units
    BY <1>1, <2>4, RampedKeeps
  <2> HIDE DEF q
  <2>6. Ready(s, l, p)
    BY <1>r, <2>4, <2>5
  <2> HIDE DEF p, e
  <2>7. CASE IsPath(l)
    <3>1. PICK kind \in Paths : t = e(kind)
      BY <2>2, <2>3, <2>4, <2>7 DEF Paths
    <3>2. t = Emit(p, kind, p.position, Ramp(a))
      BY <3>1 DEF e
    <3> QED  BY <2>4, <2>6, <2>7, <3>2, Sends
  <2>8. CASE ~IsPath(l)
    <3>1. t = q
      BY <2>2, <2>3, <2>4, <2>8
    <3> QED
      BY <1>1, <2>4, <2>5, <2>8, <3>1 DEF MoveWhere, Where, Lasting
  <2> QED  BY <2>7, <2>8
<1>5. CASE l.word = "G04"
  <2> DEFINE d == [s EXCEPT !.current.motion = "G04"]
  <2>1. Still(s, d) /\ Shape(d)
    BY DEF Shape, Fields, PrintState, Motions, Still, Where, Lasting, Words
  <2>2. t = Emit(d, "dwell", s.position, Constant(0))
    BY <1>5, Zenon DEF Moving, d
  <2> HIDE DEF d
  <2>3. /\ Where(d, t) /\ Lasting(d, t) /\ t.late = d.late
        /\ t.command.kind = "dwell" /\ t.command.to = s.position
    BY <2>1, <2>2, EmitWhere
  <2>4. ~Goes(l) /\ ~IsPath(l)
    BY <1>5 DEF Goes, IsPath
  <2> QED
    BY <2>1, <2>3, <2>4 DEF MoveWhere, Still, Where, Lasting, Placed, Targets
<1>6. CASE l.word \notin Motions
  <2>1. t = s /\ ~Goes(l) /\ ~IsPath(l)
    BY <1>6 DEF Moving, Motions, Goes, IsPath
  <2> QED  BY <2>1 DEF MoveWhere, Lasting
<1> QED  BY <1>2, <1>3, <1>4, <1>5, <1>6 DEF Motions

(* One run of a line.                                                      *)
RunWhere(s, l, t) ==
  /\ Placed(t) /\ Lasting(s, t)
  /\ l.word # "G74" => t.shared = s.shared
  /\ Goes(l) => Arrives(s, l, t)
  /\ IsPath(l) =>
       /\ FeedSent(s, l, t)
       /\ l.option = "G193" => t.command.interpolation = TRUE
       /\ l.option # "G193" => t.command.interpolation = s.current.interpolation
  /\ ~Goes(l) => t.command = s.command \/ t.command.kind \in {"dwell", "offset", "home"}

(* The whole run of a line, with its home and option before the motion.    *)
LEMMA CommandGWhere ==
  ASSUME NEW s, Shape(s), Bound(s), Placed(s), NEW l \in LineTypes, NEW t, t = CommandG(s, l)
  PROVE  RunWhere(s, l, t)
<1> DEFINE h == IF l.word = "G74" THEN GoHome(s, l) ELSE s
           o == Optional(h, l)
<1>1. /\ Shape(h) /\ Bound(h) /\ Placed(h) /\ Lasting(s, h) /\ Words(s, h)
      /\ h.command = s.command \/ h.command.kind = "home"
      /\ l.word # "G74" => h = s
  BY GoHomeAlike, GoHomeWhere DEF Alike, Lasting, Words
<1>2. t = Moving(o, l)
  BY Zenon DEF CommandG, o, h
<1> HIDE DEF h
<1>3. /\ Sound(h, o) /\ o.current.units = Units(h, l)
      /\ o.command = h.command \/ o.command.kind = "offset"
  BY <1>1, OptionalEffect
<1>4. OptionWhere(h, l, o)
  BY <1>1, OptionalWhere
<1> HIDE DEF o
<1>5. o.current.units = Units(o, l)
  BY <1>3 DEF Units
<1>6. MoveWhere(o, l, t)
  BY <1>2, <1>3, <1>4, <1>5, MovingWhere DEF Sound, OptionWhere
<1>7. Placed(t) /\ Lasting(s, t) /\ (l.word # "G74" => t.shared = s.shared)
  BY <1>1, <1>4, <1>6 DEF MoveWhere, OptionWhere, Lasting
<1>8. Goes(l) => Arrives(s, l, t)
  <2> SUFFICES ASSUME Goes(l) PROVE Arrives(s, l, t)
    OBVIOUS
  <2>1. l.word # "G74"
    BY DEF Goes, IsPath
  <2>2. Arrives(o, l, t)
    BY <1>6 DEF MoveWhere
  <2>3. o.shared = s.shared /\ (~s.shared => o.position = s.position)
    BY <1>1, <1>4, <2>1 DEF OptionWhere
  <2> QED  BY <2>2, <2>3 DEF Arrives
<1>9. ASSUME IsPath(l)
      PROVE  /\ FeedSent(s, l, t)
             /\ l.option = "G193" => t.command.interpolation = TRUE
             /\ l.option # "G193" => t.command.interpolation = s.current.interpolation
  <2>1. FeedSent(o, l, t) /\ t.command.interpolation = o.current.interpolation
    BY <1>6, <1>9 DEF MoveWhere, WordsSent
  <2>2. o.current.feed = s.current.feed
    BY <1>1, <1>4 DEF OptionWhere, Words
  <2>3. /\ l.option = "G193" => o.current.interpolation = TRUE
        /\ l.option # "G193" => o.current.interpolation = h.current.interpolation
    BY <1>4 DEF OptionWhere
  <2>4. h.current.interpolation = s.current.interpolation
    BY <1>1 DEF Words
  <2>5. FeedSent(s, l, t)
    BY <2>1, <2>2, Zenon DEF FeedSent
  <2> QED  BY <2>1, <2>3, <2>4, <2>5, Zenon
<1>10. ~Goes(l) => t.command = s.command \/ t.command.kind \in {"dwell", "offset", "home"}
  BY <1>1, <1>3, <1>6 DEF MoveWhere
<1> QED  BY <1>7, <1>8, <1>9, <1>10 DEF RunWhere

(* The first run of a line with numbers, after which CurrentState is       *)
(* ModalState.                                                             *)
LEMMA ParseMotionWhere ==
  ASSUME NEW s, Shape(s), Bound(s), Placed(s), NEW l \in LineTypes,
         NEW ahead \in Feeds \cup {0}, NEW t, t = ParseMotion(s, l, ahead)
  PROVE  /\ Shape(t) /\ Bound(t) /\ Placed(t) /\ Lasting(s, t) /\ t.current = t.modal
         /\ l.word # "G74" => t.shared = s.shared
         /\ ~s.shared /\ Goes(l) =>
              \A axis \in Axes : axis \notin DOMAIN l.at => t.position[axis] = s.position[axis]
         /\ ~Goes(l) =>
              t.command = s.command \/ t.command.kind \in {"dwell", "offset", "home"}
         /\ ~IsPath(l) => t.command = s.command \/ t.command.kind \notin Paths
<1> DEFINE v == IF ahead = 0 THEN s.current.rate ELSE Scaled(s, ahead)
           x == LookAhead(s, ahead)
           d == CommandG(x, l)
           w == <<d.vel[2], d.vel[3], d.vel[3]>>
<1>1. Shape(x) /\ Bound(x)
  BY LookAheadEffect
<1>2. Still(s, x)
  <2>1. x = [s EXCEPT !.vel[3] = v]
    BY DEF LookAhead
  <2> HIDE DEF x, v
  <2> QED  BY <2>1 DEF Shape, Fields, Still, Where, Lasting, Words
<1>3. t = [d EXCEPT !.vel = w, !.current = d.modal]
  BY Zenon DEF ParseMotion, w, d, x
<1> HIDE DEF x
<1>4. Placed(x)
  BY <1>2 DEF Still, Where, Placed
<1>5. RunWhere(x, l, d) /\ RunSends(x, l, d) /\ Shape(d)
  BY <1>1, <1>4, CommandGWhere, CommandGEffect DEF RunLeaves, Sound
<1> HIDE DEF d, w
<1>6. /\ Where(d, t) /\ Lasting(d, t) /\ t.late = d.late /\ t.command = d.command
      /\ t.current = t.modal
  BY <1>3, <1>5 DEF Shape, Fields, Where, Lasting
<1>7. Shape(t) /\ Bound(t)
  BY ParseMotionEffect
<1>8. Placed(t) /\ Lasting(s, t) /\ (l.word # "G74" => t.shared = s.shared)
  BY <1>2, <1>5, <1>6 DEF RunWhere, Placed, Where, Lasting, Still
<1>9. ASSUME ~s.shared, Goes(l), NEW axis \in Axes, axis \notin DOMAIN l.at
      PROVE  t.position[axis] = s.position[axis]
  <2>1. d.position[axis] = Spot(x.position, d, l, axis)
    BY <1>2, <1>5, <1>9 DEF RunWhere, Arrives, Still, Where
  <2> QED  BY <1>2, <1>6, <1>9, <2>1 DEF Spot, Still, Where
<1>10. ~Goes(l) => t.command = s.command \/ t.command.kind \in {"dwell", "offset", "home"}
  BY <1>2, <1>5, <1>6 DEF RunWhere, Still
<1>11. ~IsPath(l) => t.command = s.command \/ t.command.kind \notin Paths
  BY <1>2, <1>5, <1>6 DEF RunSends, Still, Paths
<1> QED  BY <1>6, <1>7, <1>8, <1>9, <1>10, <1>11

(* What a line sends, its second run included.                             *)
Sent == Paths \cup {"rapid"}

LineWhere(s, l, t) ==
  /\ Placed(t) /\ Lasting(s, t)
  /\ ~s.shared /\ t.command.kind \in Sent => Arrives(s, l, t)
  /\ Numbered(l) /\ t.command.kind \in Paths /\ s.modal.feed = FALSE => t.command.feed = l.a
  /\ Numbered(l) /\ t.command.kind \in Paths /\ s.modal.interpolation = FALSE =>
       t.command.interpolation = (l.option = "G193")

(* A line with numbers is run twice, and goes where one run would: the     *)
(* second places the same numbers, from the offset that is there by then.  *)
LEMMA NumberedWhere ==
  ASSUME NEW s, Shape(s), Bound(s), Placed(s), NEW l \in LineTypes, Numbered(l),
         NEW ahead \in Feeds \cup {0}, NEW t, t = ParseSingleLine(s, l, ahead)
  PROVE  LineWhere(s, l, t)
<1> DEFINE u == [s EXCEPT !.command = None]
           c == Completed(s, l)
           r == ParseMotion(u, c, ahead)
<1>1. Shape(u) /\ Bound(u) /\ Placed(u) /\ Lasting(s, u) /\ Where(s, u) /\ u.command = None
  BY DEF Shape, Bound, Fields, Placed, Lasting, Where
<1>2. /\ c \in LineTypes /\ c.at = l.at /\ c.a = l.a /\ c.option = l.option
  <2>1. s.current.motion \in Motions \cup {"none", "G74"}
    BY DEF Shape, PrintState
  <2>2. c = l \/ c = [l EXCEPT !.word = s.current.motion]
    BY Zenon DEF Completed
  <2> QED  BY <2>1, <2>2 DEF LineTypes
<1>3. t = CommandG(r, c)
  BY Zenon DEF ParseSingleLine
<1> HIDE DEF u, c
<1>4. /\ Shape(r) /\ Bound(r) /\ Placed(r) /\ Lasting(u, r) /\ r.current = r.modal
      /\ c.word # "G74" => r.shared = u.shared
      /\ ~u.shared /\ Goes(c) =>
           \A axis \in Axes : axis \notin DOMAIN c.at => r.position[axis] = u.position[axis]
      /\ ~Goes(c) => r.command = u.command \/ r.command.kind \in {"dwell", "offset", "home"}
      /\ ~IsPath(c) => r.command = u.command \/ r.command.kind \notin Paths
  BY <1>1, <1>2, ParseMotionWhere
<1> HIDE DEF r
<1>5. RunWhere(r, c, t) /\ RunSends(r, c, t)
  BY <1>2, <1>3, <1>4, CommandGWhere, CommandGEffect
<1>6. Placed(t) /\ Lasting(s, t)
  BY <1>1, <1>4, <1>5 DEF RunWhere, Lasting
<1>7. t.command.kind \in Sent => Goes(c)
  BY <1>1, <1>4, <1>5 DEF RunWhere, Sent, Paths, None
<1>8. t.command.kind \in Paths => IsPath(c)
  BY <1>1, <1>4, <1>5 DEF RunSends, Paths, None
<1>9. ASSUME ~s.shared, t.command.kind \in Sent PROVE Arrives(s, l, t)
  <2>1. Goes(c) /\ c.word # "G74" /\ ~r.shared /\ ~u.shared
    BY <1>1, <1>4, <1>7, <1>9 DEF Goes, IsPath, Where
  <2>2. /\ t.command.to = t.position
        /\ \A axis \in Axes : t.position[axis] = Spot(r.position, t, c, axis)
    BY <1>5, <2>1 DEF RunWhere, Arrives
  <2>3. ASSUME NEW axis \in Axes PROVE Spot(r.position, t, c, axis) = Spot(s.position, t, l, axis)
    <3>1. CASE axis \in DOMAIN l.at
      BY <1>2, <3>1 DEF Spot, Number
    <3>2. CASE axis \notin DOMAIN l.at
      <4>1. r.position[axis] = s.position[axis]
        BY <1>1, <1>2, <1>4, <2>1, <3>2 DEF Where
      <4> QED  BY <1>2, <3>2, <4>1 DEF Spot
    <3> QED  BY <3>1, <3>2
  <2> QED  BY <2>2, <2>3 DEF Arrives
<1>10. ASSUME t.command.kind \in Paths, s.modal.feed = FALSE PROVE t.command.feed = l.a
  <2>1. FeedSent(r, c, t) /\ r.current.feed = FALSE /\ l.a \in BOOLEAN
    <3>1. r.modal.feed = s.modal.feed
      BY <1>1, <1>4 DEF Lasting
    <3>2. l.a \in BOOLEAN
      BY Zenon DEF LineTypes
    <3> QED  BY <1>4, <1>5, <1>8, <1>10, <3>1, <3>2 DEF RunWhere
  <2>2. CASE l.a
    BY <1>2, <2>1, <2>2, Zenon DEF FeedSent
  <2>3. CASE ~l.a
    BY <1>2, <2>1, <2>3, Zenon DEF FeedSent
  <2> QED  BY <2>2, <2>3
<1>11. ASSUME t.command.kind \in Paths, s.modal.interpolation = FALSE
       PROVE  t.command.interpolation = (l.option = "G193")
  <2>1. r.current.interpolation = FALSE
    BY <1>1, <1>4, <1>11 DEF Lasting
  <2>2. CASE l.option = "G193"
    <3>1. t.command.interpolation = TRUE
      BY <1>2, <1>5, <1>8, <1>11, <2>2 DEF RunWhere
    <3> QED  BY <2>2, <3>1
  <2>3. CASE l.option # "G193"
    <3>1. t.command.interpolation = FALSE
      BY <1>2, <1>5, <1>8, <1>11, <2>1, <2>3 DEF RunWhere
    <3> QED  BY <2>3, <3>1
  <2> QED  BY <2>2, <2>3
<1> QED  BY <1>6, <1>9, <1>10, <1>11 DEF LineWhere

(* A line without numbers is run once, from the states as they are.        *)
LEMMA UnnumberedWhere ==
  ASSUME NEW s, Shape(s), Bound(s), Placed(s), NEW l \in LineTypes, ~Numbered(l),
         NEW ahead, NEW t, t = ParseSingleLine(s, l, ahead)
  PROVE  LineWhere(s, l, t)
<1> DEFINE u == [s EXCEPT !.command = None]
<1>1. Shape(u) /\ Bound(u) /\ Placed(u) /\ Lasting(s, u) /\ Where(s, u) /\ u.command = None
  BY DEF Shape, Bound, Fields, Placed, Lasting, Where
<1>2. t = CommandG(u, l)
  BY Zenon DEF ParseSingleLine
<1> HIDE DEF u
<1>3. RunWhere(u, l, t)
  BY <1>1, <1>2, CommandGWhere
<1>4. Placed(t) /\ Lasting(s, t)
  BY <1>1, <1>3 DEF RunWhere, Lasting
<1>5. ~s.shared /\ t.command.kind \in Sent => Arrives(s, l, t)
  <2>1. t.command.kind \in Sent => Goes(l)
    BY <1>1, <1>3 DEF RunWhere, Sent, Paths, None
  <2>2. Goes(l) => Arrives(u, l, t)
    BY <1>3 DEF RunWhere
  <2> QED  BY <1>1, <2>1, <2>2 DEF Arrives, Where
<1> QED  BY <1>4, <1>5 DEF LineWhere


-----------------------------------------------------------------------------
(* The invariant.                                                          *)

PaceInv ==
  /\ modal \in PrintState /\ current \in PrintState /\ vel \in [1 .. 3 -> Nat]
  /\ current.rate = modal.rate
  /\ straight => vel[2] = modal.rate \/ promised # 0

ParserInv == PaceInv /\ BoundModes /\ OneVelocity /\ FeedInOrder

(* The state of the module, as the record the functions work on.           *)
LEMMA StateShape ==
  ASSUME PaceInv, BoundModes
  PROVE  /\ Shape(State) /\ Bound(State)
         /\ State.modal = modal /\ State.current = current /\ State.vel = vel
  BY DEF PaceInv, BoundModes, Shape, Bound, State, Fields

(* Parsing a line keeps the invariant of the velocities.                   *)
LEMMA ParseStep ==
  ASSUME ParserInv, NEW l \in Lines, NEW ahead \in Feeds \cup {0}, Parse(l, ahead)
  PROVE  ParserInv'
<1> DEFINE s == State
           t == ParseSingleLine(s, l, ahead)
<1>1. /\ Shape(s) /\ Bound(s) /\ s.modal = modal /\ s.current = current /\ s.vel = vel
  BY StateShape DEF ParserInv
<1>2. s.current.rate = s.modal.rate /\ (straight => vel[2] = modal.rate \/ promised # 0)
  BY <1>1 DEF ParserInv, PaceInv
<1>3. /\ modal' = t.modal /\ current' = t.current /\ vel' = t.vel /\ command' = t.command
      /\ step' = "parse" /\ line' = l
      /\ straight' = (straight /\ ~Breaks(l))
      /\ promised' = IF Numbered(l) THEN ahead ELSE promised
  BY DEF Parse, Becomes, Did
<1>4. l \in LineTypes  BY ParserAssumption
<1> HIDE DEF s, t
<1>5. CASE Numbered(l)
  <2>1. /\ Shape(t) /\ Bound(t) /\ t.current.rate = t.modal.rate
        /\ t.command.kind \in Paths => t.command.vel = Constant(t.vel[2])
        /\ t.command.kind \in Paths /\ l.f = 0 =>
             t.vel[2] = s.vel[2] /\ t.modal.rate = s.modal.rate
        /\ \/ t.vel[2] = t.modal.rate
           \/ ahead # 0
           \/ l.f = 0 /\ t.vel[2] = s.vel[2] /\ t.modal.rate = s.modal.rate
    BY <1>1, <1>2, <1>4, <1>5, NumberedEffect DEF t
  <2>2. straight' /\ l.f = 0 => vel[2] = modal.rate
    BY <1>2, <1>3, <1>5 DEF Breaks
  <2>3. PaceInv' /\ BoundModes'
    BY <1>1, <1>3, <1>5, <2>1, <2>2 DEF PaceInv, BoundModes, Shape, Bound
  <2>4. Constant(t.vel[2])[2] = t.vel[2]
    BY DEF Constant
  <2>5. OneVelocity'
    BY <1>3, <2>1, <2>4 DEF OneVelocity, PathSent
  <2>6. FeedInOrder'
    BY <1>1, <1>3, <2>1, <2>2, <2>4 DEF FeedInOrder, PathSent
  <2> QED  BY <2>3, <2>5, <2>6 DEF ParserInv
<1>6. CASE ~Numbered(l)
  <2>1. Shape(t) /\ Bound(t) /\ KeptPace(s, t) /\ t.current.rate = s.current.rate
    BY <1>1, <1>4, <1>6, UnnumberedEffect DEF t
  <2>2. PaceInv' /\ BoundModes'
    BY <1>1, <1>2, <1>3, <1>6, <2>1 DEF PaceInv, BoundModes, Shape, Bound, KeptPace
  <2>3. ~PathSent'  BY <1>3, <1>6 DEF PathSent
  <2> QED  BY <2>2, <2>3 DEF ParserInv, OneVelocity, FeedInOrder
<1> QED  BY <1>5, <1>6

(* So does a peek, which puts both print states back.                      *)
LEMMA PeekStep ==
  ASSUME ParserInv, NEW l \in Lines, NEW ahead \in Feeds \cup {0}, PeekLine(l, ahead)
  PROVE  ParserInv'
<1> DEFINE s == State
           t == ParseSingleLine(s, l, ahead)
           p == [t EXCEPT !.modal = modal, !.current = current,
                          !.position = position, !.shared = FALSE]
<1>1. /\ Shape(s) /\ Bound(s)
  BY StateShape DEF ParserInv
<1>2. l \in LineTypes  BY ParserAssumption
<1>3. /\ modal' = p.modal /\ current' = p.current /\ vel' = p.vel
      /\ step' = "peek" /\ straight' = FALSE
  BY DEF PeekLine, Becomes, Did
<1> HIDE DEF s, t
<1>4. Shape(t)
  BY <1>1, <1>2, NumberedEffect, UnnumberedEffect DEF t
<1>5. p.modal = modal /\ p.current = current /\ p.vel \in [1 .. 3 -> Nat]
  BY <1>4 DEF Shape, Fields
<1> HIDE DEF p
<1> QED
  BY <1>3, <1>5 DEF ParserInv, PaceInv, BoundModes, OneVelocity, FeedInOrder, PathSent

(* Hence every step keeps it.                                              *)
LEMMA ParserStep == ParserInv /\ [Next]_vars => ParserInv'
<1> SUFFICES ASSUME ParserInv, [Next]_vars PROVE ParserInv'
  OBVIOUS
<1>1. CASE UNCHANGED vars
  BY <1>1
  DEF vars, parserVars, ParserInv, PaceInv, BoundModes, OneVelocity, FeedInOrder, PathSent
<1>2. ASSUME NEW l \in Lines, NEW ahead \in Feeds \cup {0}, Parse(l, ahead)
      PROVE  ParserInv'
  BY <1>2, ParseStep
<1>3. ASSUME NEW l \in Lines, NEW ahead \in Feeds \cup {0}, PeekLine(l, ahead)
      PROVE  ParserInv'
  BY <1>3, PeekStep
<1>4. CASE ResetParserStates
  BY <1>4
  DEF ResetParserStates, Did, Cleared, PrintState, ParserInv, PaceInv, BoundModes,
      OneVelocity, FeedInOrder, PathSent
<1> QED  BY <1>1, <1>2, <1>3, <1>4 DEF Next

(* It holds when the parser is made.                                       *)
LEMMA ParserInit == Init => ParserInv
<1> SUFFICES ASSUME Init PROVE ParserInv
  OBVIOUS
<1>1. vel \in [1 .. 3 -> Nat] /\ vel[2] = 0
  BY Triple DEF Init, Constant
<1> QED
  BY <1>1
  DEF Init, Cleared, PrintState, ParserInv, PaceInv, BoundModes, OneVelocity, FeedInOrder, PathSent

(* Modes, units and plane of the two states agree, after every line, peek  *)
(* and reset.                                                              *)
THEOREM BoundModesHolds == Spec => []BoundModes
<1>1. ParserInv => BoundModes  BY DEF ParserInv
<1> QED  BY <1>1, ParserInit, ParserStep, PTL DEF Spec

(* No path of a line with numbers has a ramp, for any modes of deceleration *)
(* and any feed rates: the ramps the parser computes are never sent.       *)
THEOREM OneVelocityHolds == Spec => []OneVelocity
<1>1. ParserInv => OneVelocity  BY DEF ParserInv
<1> QED  BY <1>1, ParserInit, ParserStep, PTL DEF Spec

(* The feed rate is modal as long as the lines are run in order.           *)
THEOREM FeedInOrderHolds == Spec => []FeedInOrder
<1>1. ParserInv => FeedInOrder  BY DEF ParserInv
<1> QED  BY <1>1, ParserInit, ParserStep, PTL DEF Spec

-----------------------------------------------------------------------------
(***************************************************************************)
(* Types, words and places, after every line.                              *)
(***************************************************************************)

(* ModalState never keeps a word that is for one motion.                   *)
WordInv ==
  /\ Placed(State)
  /\ modal.feed = FALSE /\ modal.interpolation = FALSE
  /\ OptionsEnd

(* The fields of State are the variables.                                  *)
LEMMA StateParts ==
  /\ State.position = position /\ State.offset = offset /\ State.shared = shared
  /\ State.late = late /\ State.command = command
  /\ State.modal = modal /\ State.current = current /\ State.vel = vel
  BY DEF State

(* What a line leaves, as a function of the state.                         *)
LEMMA LineEffect ==
  ASSUME ParserInv, WordInv, NEW l \in Lines, NEW ahead \in Feeds \cup {0},
         NEW t, t = ParseSingleLine(State, l, ahead)
  PROVE  /\ Shape(t) /\ Bound(t) /\ LineWhere(State, l, t)
         /\ t.modal.feed = FALSE /\ t.modal.interpolation = FALSE
<1>1. Shape(State) /\ Bound(State) /\ Placed(State)
  BY StateShape DEF ParserInv, WordInv
<1>2. l \in LineTypes
  BY ParserAssumption
<1>3. LineWhere(State, l, t)
  BY <1>1, <1>2, NumberedWhere, UnnumberedWhere
<1>4. Shape(t) /\ Bound(t)
  BY <1>1, <1>2, NumberedEffect, UnnumberedEffect
<1> QED  BY <1>3, <1>4, StateParts DEF LineWhere, Lasting, WordInv

(* Parsing a line keeps the invariant of places and words.                 *)
LEMMA WordParse ==
  ASSUME ParserInv, WordInv, NEW l \in Lines, NEW ahead \in Feeds \cup {0}, Parse(l, ahead)
  PROVE  WordInv'
<1> DEFINE t == ParseSingleLine(State, l, ahead)
<1>1. /\ modal' = t.modal /\ current' = t.current /\ command' = t.command
      /\ position' = t.position /\ offset' = t.offset /\ shared' = t.shared /\ late' = t.late
      /\ step' = "parse" /\ line' = l
  BY DEF Parse, Becomes, Did
<1>2. /\ LineWhere(State, l, t)
      /\ t.modal.feed = FALSE /\ t.modal.interpolation = FALSE
  BY LineEffect
<1> HIDE DEF t
<1>3. Placed(State)'
  <2>1. /\ State'.position = t.position /\ State'.offset = t.offset
        /\ State'.shared = t.shared /\ State'.late = t.late /\ State'.command = t.command
    BY <1>1 DEF State
  <2> QED  BY <1>2, <2>1 DEF LineWhere, Placed
<1>4. OptionsEnd'
  BY <1>1, <1>2, StateParts DEF OptionsEnd, PathSent, LineWhere, WordInv
<1> QED  BY <1>1, <1>2, <1>3, <1>4 DEF WordInv

(* So does a peek.                                                         *)
LEMMA WordPeek ==
  ASSUME ParserInv, WordInv, NEW l \in Lines, NEW ahead \in Feeds \cup {0}, PeekLine(l, ahead)
  PROVE  WordInv'
<1> DEFINE t == ParseSingleLine(State, l, ahead)
           p == [t EXCEPT !.modal = modal, !.current = current,
                          !.position = position, !.shared = FALSE]
<1>1. /\ modal' = p.modal /\ command' = p.command /\ position' = p.position
      /\ offset' = p.offset /\ shared' = p.shared /\ late' = p.late /\ step' = "peek"
  BY DEF PeekLine, Becomes, Did
<1>2. Shape(t) /\ LineWhere(State, l, t)
  BY LineEffect
<1> HIDE DEF t
<1>3. /\ p.modal = modal /\ p.command = t.command /\ p.position = position
      /\ p.offset = t.offset /\ p.shared = FALSE /\ p.late = t.late
  BY <1>2 DEF Shape, Fields
<1> HIDE DEF p
<1>4. Placed(State)'
  <2>1. /\ State'.position = position /\ State'.offset = t.offset
        /\ State'.shared = FALSE /\ State'.late = t.late /\ State'.command = t.command
    BY <1>1, <1>3 DEF State
  <2> QED  BY <1>2, <2>1, StateParts DEF LineWhere, Placed, WordInv
<1>5. OptionsEnd'
  BY <1>1 DEF OptionsEnd, PathSent
<1> QED  BY <1>1, <1>3, <1>4, <1>5 DEF WordInv

(* Hence every step keeps it.                                              *)
LEMMA WordStep == ParserInv /\ WordInv /\ [Next]_vars => WordInv'
<1> SUFFICES ASSUME ParserInv, WordInv, [Next]_vars PROVE WordInv'
  OBVIOUS
<1>1. CASE UNCHANGED vars
  BY <1>1 DEF vars, parserVars, WordInv, State, OptionsEnd, PathSent
<1>2. CASE ResetParserStates
  <2>1. /\ modal' = Cleared /\ position' = Home /\ shared' = FALSE /\ step' = "reset"
        /\ UNCHANGED <<offset, late, command>>
    BY <1>2 DEF ResetParserStates, Did
  <2>2. Home \in Positions
    BY DEF Home, Positions
  <2>3. Placed(State)'
    <3>1. /\ State'.position = Home /\ State'.offset = offset
          /\ State'.shared = FALSE /\ State'.late = late /\ State'.command = command
      BY <2>1 DEF State
    <3> QED  BY <2>2, <3>1, StateParts DEF Placed, WordInv
  <2>4. modal'.feed = FALSE /\ modal'.interpolation = FALSE
    BY <2>1 DEF Cleared
  <2> QED  BY <2>1, <2>3, <2>4 DEF WordInv, OptionsEnd, PathSent
<1> QED  BY <1>1, <1>2, WordParse, WordPeek DEF Next

(* It holds when the parser is made.                                       *)
LEMMA WordInit == Init => WordInv
<1> SUFFICES ASSUME Init PROVE WordInv
  OBVIOUS
<1>1. Home \in Positions
  BY DEF Home, Positions
<1>2. Placed(State)
  BY <1>1, StateParts DEF Init, Placed
<1> QED  BY <1>2 DEF Init, Cleared, WordInv, OptionsEnd, PathSent

(* The states of the parser are well typed, and two arrays that are one    *)
(* have one content, for all lines and values.                             *)
THEOREM ParserTypes == Spec => []TypeOK
<1>1. ParserInv /\ WordInv => TypeOK
  BY StateParts DEF ParserInv, PaceInv, WordInv, Placed, Targets, TypeOK
<1> QED  BY <1>1, ParserInit, ParserStep, WordInit, WordStep, PTL DEF Spec

(* A feed word and G193 are for the move of their own line.                *)
THEOREM OptionsEndHolds == Spec => []OptionsEnd
<1>1. WordInv => OptionsEnd
  BY DEF WordInv
<1> QED  BY <1>1, ParserInit, ParserStep, WordInit, WordStep, PTL DEF Spec

(* An absolute line that is run twice moves to where one run would have.   *)
THEOREM MovesOnceHolds == Spec => MovesOnce
<1> DEFINE Moved ==
      MoveSent /\ command'.absolute /\ ~shared =>
        /\ command'.to = position'
        /\ \A axis \in Axes :
             position'[axis] = IF axis \in DOMAIN line'.at
                               THEN offset'[axis] + UnitsNow(line'.at[axis])
                               ELSE position[axis]
<1>1. ASSUME ParserInv, WordInv, NEW l \in Lines, NEW ahead \in Feeds \cup {0}, Parse(l, ahead)
      PROVE  Moved
  <2> DEFINE t == ParseSingleLine(State, l, ahead)
  <2>1. /\ modal' = t.modal /\ command' = t.command
        /\ position' = t.position /\ offset' = t.offset /\ line' = l
    BY <1>1 DEF Parse, Becomes, Did
  <2>2. Shape(t) /\ Bound(t) /\ LineWhere(State, l, t)
    BY <1>1, LineEffect
  <2> HIDE DEF t
  <2> SUFFICES ASSUME command'.kind \in Sent, ~shared
               PROVE  /\ command'.to = position'
                      /\ \A axis \in Axes :
                           position'[axis] =
                             IF axis \in DOMAIN line'.at
                             THEN offset'[axis]
                                    + (IF modal'.units = "inch" THEN Inch ELSE 1) * line'.at[axis]
                             ELSE position[axis]
    BY DEF Sent, MoveSent, UnitsNow
  <2>3. /\ t.command.to = t.position
        /\ \A axis \in Axes : t.position[axis] = Spot(position, t, l, axis)
    BY <2>1, <2>2, StateParts DEF LineWhere, Arrives
  <2>4. ASSUME NEW axis \in Axes
        PROVE  Spot(position, t, l, axis) =
                 IF axis \in DOMAIN l.at
                 THEN t.offset[axis] + (IF t.modal.units = "inch" THEN Inch ELSE 1) * l.at[axis]
                 ELSE position[axis]
    <3>1. CASE axis \in DOMAIN l.at
      <4>1. l.at[axis] \in Int
        BY <3>1, NumberInt, ParserAssumption
      <4>2. t.offset[axis] \in Int /\ Inch \in Int
        BY <2>2, ParserAssumption DEF LineWhere, Placed, Positions
      <4>3. Number(t, l, axis) = (IF t.modal.units = "inch" THEN Inch ELSE 1) * l.at[axis]
        BY <2>2, <4>1 DEF Number, Scaled, Bound
      <4>4. Number(t, l, axis) \in Int
        BY <3>1, NumberInt, ParserAssumption
      <4> QED  BY <3>1, <4>2, <4>3, <4>4 DEF Spot
    <3>2. CASE axis \notin DOMAIN l.at
      BY <3>2 DEF Spot
    <3> QED  BY <3>1, <3>2
  <2> QED  BY <2>1, <2>3, <2>4
<1>2. ASSUME ParserInv, WordInv, [Next]_vars PROVE [Moved]_vars
  <2>1. ASSUME NEW l \in Lines, NEW ahead \in Feeds \cup {0}, PeekLine(l, ahead)
        PROVE  step' # "parse"
    BY <2>1 DEF PeekLine, Did
  <2>2. CASE ResetParserStates
    BY <2>2 DEF ResetParserStates, Did, MoveSent
  <2> HIDE DEF Moved
  <2>3. step' # "parse" => Moved
    BY DEF Moved, MoveSent
  <2>4. ASSUME NEW l \in Lines, NEW ahead \in Feeds \cup {0}, Parse(l, ahead)
        PROVE  Moved
    BY <1>1, <1>2, <2>4
  <2> QED  BY <1>2, <2>1, <2>2, <2>3, <2>4 DEF Next
<1> QED
  BY <1>2, ParserInit, ParserStep, WordInit, WordStep, PTL DEF Spec, MovesOnce
=============================================================================
