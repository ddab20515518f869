-------------------------- MODULE GcodeSubsetProofs --------------------------
(***************************************************************************)
(* Proofs about GcodeSubset, for every set of lines, length, reach and     *)
(* inch: types, that the two readers agree about plain programs, that no   *)
(* target outside the limits is queued, and that what plays validates.     *)
(***************************************************************************)
EXTENDS GcodeSubset, SequenceTheorems, TLAPS, NaturalsInduction, WellFoundedInduction

(* What a line is, and that the operators on poses and modes return those. *)
LEMMA LineFacts ==
  ASSUME NEW l \in Lines
  PROVE  /\ Len(l.g) \in Nat /\ DOMAIN l.g = 1 .. Len(l.g)
         /\ \A i \in DOMAIN l.g : l.g[i] \in Codes
         /\ G(l) \in Codes \cup {0}
         /\ l.g # << >> => Len(l.g) \in DOMAIN l.g
<1>1. l.g \in Seq(Codes)
  BY SubsetAssumption
<1>2. Len(l.g) \in Nat /\ DOMAIN l.g = 1 .. Len(l.g) /\ \A i \in DOMAIN l.g : l.g[i] \in Codes
  BY <1>1
<1>3. l.g # << >> => Len(l.g) \in DOMAIN l.g
  BY <1>1, <1>2
<1> QED  BY <1>1, <1>2, <1>3 DEF G

(* What a line makes of a pose is a pose.                                  *)
LEMMA PoseFacts ==
  ASSUME NEW l \in Lines, NEW p \in Pose, NEW m
  PROVE  Target(p, l, m) \in Pose /\ Renamed(p, l, m) \in Pose
<1>1. \A a \in DOMAIN l.words : l.words[a] \in Int /\ Scaled(l, a, m) \in Int
  BY SubsetAssumption DEF Scaled
<1>2. \A a \in Axes : p[a] \in Int
  BY DEF Pose
<1>3. \A a \in Axes : a \in DOMAIN l.words => p[a] + Scaled(l, a, m) \in Int
  BY <1>1, <1>2
<1> QED  BY <1>1, <1>2, <1>3 DEF Target, Renamed, Pose

(* Of the places in a line where a code stands, one is the last.           *)
LEMMA HasLast ==
  ASSUME NEW n \in Nat, NEW I \in SUBSET (1 .. n), I # {}
  PROVE  \E k \in I : \A j \in I : j <= k
<1> DEFINE D == {n - i : i \in I}
<1>1. D \subseteq Nat /\ D # {}
  <2>1. \A i \in I : n - i \in Nat
    OBVIOUS
  <2>2. \E i \in I : n - i \in D
    OBVIOUS
  <2> QED  BY <2>1, <2>2
<1>2. \E m \in D : \A d \in D : ~ (<<d, m>> \in OpToRel(<, Nat))
  <2> HIDE DEF D
  <2> QED  BY <1>1, NatLessThanWellFounded, WFMin, Zenon
<1>3. PICK m \in D : \A d \in D : ~ (<<d, m>> \in OpToRel(<, Nat))
  BY <1>2
<1>4. \A d \in D : ~ (d < m)
  <2> HIDE DEF D
  <2> QED  BY <1>1, <1>3, Zenon DEF OpToRel
<1>5. PICK k \in I : m = n - k
  OBVIOUS
<1>6. ASSUME NEW j \in I PROVE j <= k
  <2>1. ~ (n - j < n - k)
    BY <1>4, <1>5
  <2> QED  BY <2>1
<1> QED  BY <1>6

(* The last code of a group is one of the group, or the mode there was.    *)
LEMMA LatestFacts ==
  ASSUME NEW l \in Lines, NEW S, NEW m \in S
  PROVE  Latest(l, S, m) \in S
<1> DEFINE I == {i \in DOMAIN l.g : l.g[i] \in S}
<1>1. CASE I = {}
  BY <1>1 DEF Latest
<1>2. CASE I # {}
  <2>1. PICK k \in I : \A j \in I : j <= k
    BY <1>2, LineFacts, HasLast
  <2> QED  BY <2>1 DEF Latest
<1> QED  BY <1>1, <1>2

(* A line leaves modes to each reader.                                     *)
LEMMA ModesFacts ==
  ASSUME NEW l \in Lines
  PROVE  /\ lua \in Modes => LuaModes(l) \in Modes
         /\ py \in Modes => PyModes(l) \in Modes
<1>1. lua \in Modes => LuaModes(l) \in Modes
  BY ZenonT(60) DEF Modes, LuaModes
<1>2. ASSUME py \in Modes PROVE PyModes(l) \in Modes
  <2>1. py.distance \in {90, 91} /\ py.units \in {20, 21}
    BY <1>2 DEF Modes
  <2>2. Latest(l, {90, 91}, py.distance) \in {90, 91} /\ Latest(l, {20, 21}, py.units) \in {20, 21}
    BY <2>1, LatestFacts
  <2> QED  BY <1>2, <2>2 DEF Modes, PyModes
<1> QED  BY <1>1, <1>2

(* A line of G1 or G92 leaves the modes of the Lua reader.                 *)
LEMMA ModesKept ==
  ASSUME NEW l, lua \in Modes, G(l) \in {1, 92}
  PROVE  LuaModes(l) = lua
<1>1. LuaModes(l) = [lua EXCEPT !.distance = lua.distance, !.units = lua.units]
  <2>1. G(l) \notin {90, 91} /\ G(l) \notin {20, 21}
    OBVIOUS
  <2> QED  BY <2>1, Zenon DEF LuaModes
<1>2. PICK d \in {90, 91}, u \in {20, 21} : lua = [distance |-> d, units |-> u]
  BY DEF Modes
<1> QED  BY <1>1, <1>2

(* A line with one G code means the same to both readers.                  *)
LEMMA PlainFacts ==
  ASSUME NEW l \in Lines, Plain(l), lua = py, lua \in Modes
  PROVE  /\ LuaModes(l) = PyModes(l)
         /\ \A c \in Codes : Has(l, c) <=> G(l) = c
         /\ PyRaises(l) <=> G(l) = 2
<1>0. ~ l.unknown
  BY Zenon DEF Plain
<1>1. Len(l.g) \in {0, 1} /\ DOMAIN l.g = 1 .. Len(l.g)
  <2>1. ASSUME NEW n \in Nat, n <= 1 PROVE n \in {0, 1}
    BY <2>1
  <2>2. Len(l.g) \in Nat /\ DOMAIN l.g = 1 .. Len(l.g)
    BY LineFacts, Zenon
  <2>3. Len(l.g) <= 1
    BY Zenon DEF Plain
  <2> QED  BY <2>1, <2>2, <2>3, Zenon
<1>2. l.g \in Seq(Codes)
  BY SubsetAssumption
<1>3. \/ G(l) = 0 /\ DOMAIN l.g = {}
      \/ G(l) \in Codes /\ DOMAIN l.g = {1} /\ l.g[1] = G(l)
  <2>1. CASE l.g = << >>
    BY <2>1 DEF G
  <2>2. CASE l.g # << >>
    <3>1. Len(l.g) = 1
      BY <1>1, <1>2, <2>2, EmptySeq
    <3>2. DOMAIN l.g = {1} /\ G(l) = l.g[1]
      BY <1>1, <2>2, <3>1 DEF G
    <3> QED  BY <3>2, LineFacts
  <2> QED  BY <2>1, <2>2
<1>4. \A c \in Codes : Has(l, c) <=> G(l) = c
  BY <1>3 DEF Has, Codes
<1>5. PyRaises(l) <=> G(l) = 2
  <2>1. ~ \E i, j \in DOMAIN l.g : i # j /\ l.g[i] = 1 /\ l.g[j] = 1
    BY <1>3
  <2>2. Has(l, 2) <=> G(l) = 2
    BY <1>4 DEF Codes
  <2> QED  BY <1>0, <2>1, <2>2, Zenon DEF PyRaises
<1>6. ASSUME NEW S \in {{90, 91}, {20, 21}}, NEW m
      PROVE  Latest(l, S, m) = IF G(l) \in S THEN G(l) ELSE m
  BY <1>3 DEF Latest
<1>7. LuaModes(l) = PyModes(l)
  <2>1. /\ Latest(l, {90, 91}, lua.distance) = IF G(l) \in {90, 91} THEN G(l) ELSE lua.distance
        /\ Latest(l, {20, 21}, lua.units) = IF G(l) \in {20, 21} THEN G(l) ELSE lua.units
    BY <1>6
  <2> QED  BY <2>1, Zenon DEF LuaModes, PyModes
<1> QED  BY <1>4, <1>5, <1>7

-----------------------------------------------------------------------------
(* Types.                                                                  *)
LEMMA TypeInit == Init => TypeOK
<1> SUFFICES ASSUME Init PROVE TypeOK
  OBVIOUS
<1>1. Zero \in Pose /\ << >> \in Seq(Pose)
  BY DEF Zero, Pose
<1>2. << Zero >> \in Seq(Pose) /\ << Zero >> # << >>
  BY <1>1
<1>3. 0 \in 0 .. MaxLines
  BY SubsetAssumption
<1> QED  BY <1>1, <1>2, <1>3 DEF Init, TypeOK, Modes

(* A line read in Lua leaves a state of its type.                          *)
LEMMA LuaType ==
  ASSUME NEW l \in Lines, TypeOK, LuaLine(l)
  PROVE  tables' \in Seq(Pose) /\ tables' # << >> /\ lua' \in Modes /\ luaError' \in BOOLEAN
<1> USE DEF TypeOK
<1>1. Len(tables) \in Nat \ {0} /\ P \in Pose
  BY EmptySeq, LenProperties, ElementOfSeq DEF P
<1>2. CASE UNCHANGED luaVars
  BY <1>2 DEF luaVars
<1>3. CASE LuaMove(l)
  <2>1. Target(P, l, lua) \in Pose
    BY <1>1, PoseFacts
  <2>2. luaError' \in BOOLEAN
    BY <1>3 DEF LuaMove, InLimits
  <2>3. tables' \in Seq(Pose) /\ tables' # << >>
    BY <1>3, <2>1 DEF LuaMove
  <2> QED  BY <1>3, <2>2, <2>3 DEF LuaMove
<1>4. CASE LuaOffset(l)
  <2>1. Renamed(P, l, lua) \in Pose
    BY <1>1, PoseFacts
  <2>2. luaError' \in BOOLEAN
    BY <1>4 DEF LuaOffset, InLimits
  <2>3. tables' \in Seq(Pose) /\ tables' # << >>
    BY <1>1, <1>4, <2>1, ExceptSeq, EmptySeq DEF LuaOffset
  <2> QED  BY <1>4, <2>2, <2>3 DEF LuaOffset
<1>5. CASE luaError' = TRUE /\ UNCHANGED <<tables, lua>>
  BY <1>5
<1>6. CASE lua' = LuaModes(l) /\ UNCHANGED <<tables, luaError>>
  BY <1>6, ModesFacts
<1> QED  BY <1>2, <1>3, <1>4, <1>5, <1>6 DEF LuaLine

(* A line read in Python leaves a state of its type.                       *)
LEMMA PyType ==
  ASSUME NEW l \in Lines, TypeOK, PyLine(l)
  PROVE  moves' \in Seq(Pose) /\ current' \in Pose /\ py' \in Modes /\ pyError' \in BOOLEAN
<1> USE DEF TypeOK
<1>1. PyModes(l) \in Modes
  BY ModesFacts
<1>2. CASE UNCHANGED pyVars
  BY <1>2 DEF pyVars
<1>3. CASE pyError' = TRUE /\ UNCHANGED <<moves, current, py>>
  BY <1>3
<1>4. CASE PyMove(l)
  <2>1. Target(current, l, PyModes(l)) \in Pose
    BY PoseFacts
  <2>2. CASE InLimits(Target(current, l, PyModes(l)))
    BY <1>1, <1>4, <2>1, <2>2 DEF PyMove
  <2>3. CASE ~ InLimits(Target(current, l, PyModes(l)))
    BY <1>4, <2>3 DEF PyMove
  <2> QED  BY <2>2, <2>3
<1>5. CASE PyNoMove(l)
  <2>1. Renamed(current, l, PyModes(l)) \in Pose
    BY PoseFacts
  <2> QED  BY <1>1, <1>5, <2>1 DEF PyNoMove
<1> QED  BY <1>2, <1>3, <1>4, <1>5 DEF PyLine

(* Hence every step keeps the types.                                       *)
LEMMA TypeStep == TypeOK /\ [Next]_vars => TypeOK'
<1>1. ASSUME TypeOK, NEW l \in Lines, ReadLine(l) PROVE TypeOK'
  <2>1. plain' \in BOOLEAN
    BY <1>1 DEF ReadLine, TypeOK
  <2>2. rewritten' \subseteq Nat
    BY <1>1, LenProperties DEF ReadLine, TypeOK
  <2>3. read' \in 0 .. MaxLines
    BY <1>1, SubsetAssumption DEF ReadLine, TypeOK
  <2> QED  BY <1>1, <2>1, <2>2, <2>3, LuaType, PyType DEF ReadLine, TypeOK
<1>2. ASSUME TypeOK, UNCHANGED vars PROVE TypeOK'
  BY <1>2 DEF TypeOK, vars, luaVars, pyVars
<1> QED  BY <1>1, <1>2 DEF Next

(* Types, and that Lua always has a pose p, for every set of lines.        *)
THEOREM TypeCorrect == Spec => []TypeOK
  BY TypeInit, TypeStep, PTL DEF Spec

-----------------------------------------------------------------------------
(* SameMoves is inductive with the types: a plain line that finds both     *)
(* readers in the same state leaves them so.                               *)
LEMMA SameInit == Init => SameMoves
<1> SUFFICES ASSUME Init PROVE SameMoves
  OBVIOUS
<1>1. Len(<< Zero >>) = 1 /\ << Zero >>[1] = Zero /\ Len(<< >>) = 0 /\ DOMAIN << >> = {}
  OBVIOUS
<1> QED  BY <1>1 DEF Init, SameMoves, P

(* A line both readers know adds the same move to both.                    *)
LEMMA SameStep == TypeOK /\ SameMoves /\ [Next]_vars => SameMoves'
<1> SUFFICES ASSUME TypeOK, SameMoves, [Next]_vars, plain' PROVE SameMoves'
  BY DEF SameMoves
<1>1. CASE UNCHANGED vars
  BY <1>1 DEF vars, luaVars, pyVars, SameMoves, P
<1>2. ASSUME NEW l \in Lines, ReadLine(l) PROVE SameMoves'
  <2>1. plain /\ Plain(l) /\ LuaLine(l) /\ PyLine(l) /\ rewritten \subseteq rewritten'
    BY <1>2 DEF ReadLine
  <2>2. CASE pyError
    <3>1. luaError
      BY <2>1, <2>2 DEF SameMoves
    <3> QED  BY <2>1, <2>2, <3>1 DEF SameMoves, LuaLine, PyLine, luaVars, pyVars
  <2>3. CASE ~ pyError
    <3>1. ~ luaError /\ lua = py /\ P = current /\ Len(tables) = Len(moves) + 1
      BY <2>1, <2>3 DEF SameMoves
    <3>2. \A i \in DOMAIN moves : tables[i + 1] = moves[i] \/ i \in rewritten
      BY <2>1, <2>3 DEF SameMoves
    <3>3. /\ LuaModes(l) = PyModes(l)
          /\ PyRaises(l) <=> G(l) = 2
          /\ Has(l, 1) <=> G(l) = 1
          /\ Has(l, 92) <=> G(l) = 92
      BY <2>1, <3>1, PlainFacts DEF TypeOK, Codes
    <3>4. /\ Len(moves) \in Nat /\ DOMAIN moves = 1 .. Len(moves)
          /\ DOMAIN tables = 1 .. Len(tables) /\ tables \in Seq(Pose) /\ moves \in Seq(Pose)
      BY DEF TypeOK
    <3>5. CASE G(l) = 2
      <4>1. luaError' /\ pyError'
        BY <2>1, <2>3, <3>1, <3>3, <3>5 DEF LuaLine, PyLine
      <4> QED  BY <4>1 DEF SameMoves
    <3>6. CASE G(l) = 1
      <4> DEFINE n == Target(P, l, lua)
      <4>1. LuaMove(l) /\ PyMove(l)
        BY <2>1, <2>3, <3>1, <3>3, <3>6 DEF LuaLine, PyLine
      <4>2. PyModes(l) = py
        BY <3>1, <3>3, <3>6, ModesKept DEF TypeOK
      <4>3. n \in Pose /\ n = Target(current, l, PyModes(l))
        BY <3>1, <4>2, PoseFacts DEF TypeOK
      <4>4. CASE ~ InLimits(n)
        <5>1. luaError' /\ pyError'
          BY <4>1, <4>3, <4>4 DEF LuaMove, PyMove
        <5> QED  BY <5>1 DEF SameMoves
      <4>5. CASE InLimits(n)
        <5>1. /\ tables' = Append(tables, n) /\ ~ luaError' /\ lua' = lua
              /\ moves' = Append(moves, n) /\ current' = n /\ py' = py /\ pyError' = pyError
          BY <4>1, <4>2, <4>3, <4>5 DEF LuaMove, PyMove
        <5>2. /\ Len(tables') = Len(tables) + 1 /\ tables'[Len(tables')] = n
              /\ Len(moves') = Len(moves) + 1
              /\ DOMAIN moves' = 1 .. Len(moves) + 1 /\ moves'[Len(moves) + 1] = n
              /\ \A i \in 1 .. Len(moves) : moves'[i] = moves[i]
              /\ \A i \in 1 .. Len(tables) : tables'[i] = tables[i]
          BY <3>4, <4>3, <5>1, AppendProperties
        <5>3. \A i \in DOMAIN moves' : tables'[i + 1] = moves'[i] \/ i \in rewritten'
          <6> TAKE i \in DOMAIN moves'
          <6>1. CASE i = Len(moves) + 1
            BY <3>1, <3>4, <5>2, <6>1
          <6>2. CASE i \in 1 .. Len(moves)
            BY <2>1, <3>1, <3>2, <3>4, <5>2, <6>2
          <6> QED  BY <3>4, <5>2, <6>1, <6>2
        <5>4. Len(tables') = Len(moves') + 1
          BY <3>1, <3>4, <5>2
        <5> QED  BY <2>3, <3>1, <5>1, <5>2, <5>3, <5>4 DEF SameMoves, P
      <4> QED  BY <4>4, <4>5
    <3>7. CASE G(l) = 92
      <4> DEFINE n == Renamed(P, l, lua)
      <4>1. LuaOffset(l) /\ PyNoMove(l)
        BY <2>1, <2>3, <3>1, <3>3, <3>7 DEF LuaLine, PyLine
      <4>2. PyModes(l) = py
        BY <3>1, <3>3, <3>7, ModesKept DEF TypeOK
      <4>3. n \in Pose /\ n = Renamed(current, l, PyModes(l))
        BY <3>1, <4>2, PoseFacts DEF TypeOK
      <4>4. InLimits(n)
        BY <2>1, <3>1, <3>7 DEF Plain
      <4>5. /\ tables' = [tables EXCEPT ![Len(tables)] = n] /\ ~ luaError' /\ lua' = lua
            /\ current' = n /\ py' = py /\ moves' = moves /\ pyError' = pyError
        BY <3>3, <3>7, <4>1, <4>2, <4>3, <4>4 DEF LuaOffset, PyNoMove
      <4>6. Len(moves) \in rewritten'
        BY <1>2, <3>7 DEF ReadLine
      <4>7. /\ Len(tables') = Len(tables) /\ tables'[Len(tables)] = n
            /\ \A i \in 1 .. Len(tables) : i # Len(tables) => tables'[i] = tables[i]
        BY <3>1, <3>4, <4>3, <4>5, ExceptSeq
      <4>8. \A i \in DOMAIN moves : tables'[i + 1] = moves[i] \/ i \in rewritten'
        <5> TAKE i \in DOMAIN moves
        <5>1. CASE i = Len(moves)
          BY <4>6, <5>1
        <5>2. CASE i # Len(moves)
          BY <2>1, <3>1, <3>2, <3>4, <4>7, <5>2
        <5> QED  BY <5>1, <5>2
      <4> QED  BY <2>3, <3>1, <4>5, <4>7, <4>8 DEF SameMoves, P
    <3>8. CASE G(l) \notin {1, 92, 2}
      <4>1. /\ lua' = LuaModes(l) /\ tables' = tables /\ luaError' = luaError
            /\ py' = PyModes(l) /\ moves' = moves /\ current' = current /\ pyError' = pyError
        BY <2>1, <2>3, <3>1, <3>3, <3>8 DEF LuaLine, PyLine, PyNoMove
      <4> QED  BY <2>1, <2>3, <3>1, <3>2, <3>3, <4>1 DEF SameMoves, P
    <3> QED  BY <3>5, <3>6, <3>7, <3>8
  <2> QED  BY <2>2, <2>3
<1> QED  BY <1>1, <1>2 DEF Next

(* "G-code subset": both readers give every plain program the same moves,  *)
(* whatever its lines, up to the moves before a G92.                       *)
THEOREM SameMovesHolds == Spec => []SameMoves
  BY TypeCorrect, SameInit, SameStep, PTL DEF Spec

-----------------------------------------------------------------------------
(* QueuedInLimits is inductive with the types.                             *)
LEMMA LimitsStep == TypeOK /\ QueuedInLimits /\ [Next]_vars => QueuedInLimits'
<1> SUFFICES ASSUME TypeOK, QueuedInLimits, [Next]_vars PROVE QueuedInLimits'
  OBVIOUS
<1>1. CASE UNCHANGED vars
  BY <1>1 DEF vars, luaVars, pyVars, QueuedInLimits, LuaMoves, InLimits
<1>2. ASSUME NEW l \in Lines, ReadLine(l) PROVE QueuedInLimits'
  <2>1. LuaLine(l) /\ PyLine(l)
    BY <1>2 DEF ReadLine
  <2>2. tables \in Seq(Pose) /\ Len(tables) \in Nat \ {0} /\ P \in Pose
    BY EmptySeq, LenProperties, ElementOfSeq DEF TypeOK, P
  <2>3. ASSUME ~ luaError', NEW i \in 1 .. Len(tables') - 1 PROVE InLimits(tables'[i + 1])
    <3>1. ~ luaError => \A j \in 1 .. Len(tables) - 1 : InLimits(tables[j + 1])
      BY DEF QueuedInLimits, LuaMoves
    <3>2. CASE UNCHANGED <<tables, luaError>>
      BY <2>3, <3>1, <3>2
    <3>3. CASE ~ luaError /\ LuaMove(l)
      <4> DEFINE n == Target(P, l, lua)
      <4>1. tables' = Append(tables, n) /\ InLimits(n) /\ n \in Pose
        BY <2>2, <2>3, <3>3, PoseFacts DEF LuaMove
      <4>2. /\ Len(tables') = Len(tables) + 1 /\ tables'[Len(tables) + 1] = n
            /\ \A j \in 1 .. Len(tables) : tables'[j] = tables[j]
        BY <2>2, <4>1, AppendProperties
      <4>3. CASE i = Len(tables)
        BY <4>1, <4>2, <4>3
      <4>4. CASE i # Len(tables)
        <5>1. i \in 1 .. Len(tables) - 1 /\ i + 1 \in 1 .. Len(tables)
          BY <2>2, <2>3, <4>2, <4>4
        <5>2. tables'[i + 1] = tables[i + 1] /\ InLimits(tables[i + 1])
          BY <3>1, <3>3, <4>2, <5>1
        <5> QED  BY <5>2
      <4> QED  BY <4>3, <4>4
    <3>4. CASE ~ luaError /\ LuaOffset(l)
      <4> DEFINE n == Renamed(P, l, lua)
      <4>1. tables' = [tables EXCEPT ![Len(tables)] = n] /\ InLimits(n) /\ n \in Pose
        BY <2>2, <2>3, <3>4, PoseFacts DEF LuaOffset
      <4>2. /\ Len(tables') = Len(tables) /\ tables'[Len(tables)] = n
            /\ \A j \in 1 .. Len(tables) : j # Len(tables) => tables'[j] = tables[j]
        BY <2>2, <4>1, ExceptSeq
      <4>3. CASE i + 1 = Len(tables)
        BY <4>1, <4>2, <4>3
      <4>4. CASE i + 1 # Len(tables)
        <5>1. i \in 1 .. Len(tables) - 1 /\ i + 1 \in 1 .. Len(tables)
          BY <2>2, <2>3, <4>2
        <5>2. tables'[i + 1] = tables[i + 1] /\ InLimits(tables[i + 1])
          BY <3>1, <3>4, <4>2, <4>4, <5>1
        <5> QED  BY <5>2
      <4> QED  BY <4>3, <4>4
    <3> QED  BY <2>1, <2>3, <3>2, <3>3, <3>4 DEF LuaLine, luaVars
  <2>4. ASSUME ~ pyError', NEW i \in DOMAIN moves' PROVE InLimits(moves'[i])
    <3>1. ~ pyError => \A j \in DOMAIN moves : InLimits(moves[j])
      BY DEF QueuedInLimits
    <3>2. CASE UNCHANGED <<moves, pyError>>
      BY <2>4, <3>1, <3>2
    <3>3. CASE ~ pyError /\ PyMove(l)
      <4> DEFINE n == Target(current, l, PyModes(l))
      <4>1. moves' = Append(moves, n) /\ InLimits(n)
        BY <2>4, <3>3 DEF PyMove
      <4>2. /\ moves \in Seq(Pose) /\ DOMAIN moves = 1 .. Len(moves) /\ Len(moves) \in Nat
            /\ n \in Pose
        BY PoseFacts DEF TypeOK
      <4>3. /\ DOMAIN moves' = 1 .. Len(moves) + 1 /\ moves'[Len(moves) + 1] = n
            /\ \A j \in 1 .. Len(moves) : moves'[j] = moves[j]
        BY <4>1, <4>2, AppendProperties
      <4> QED  BY <2>4, <3>1, <3>3, <4>1, <4>2, <4>3
    <3> QED  BY <2>1, <2>4, <3>2, <3>3 DEF PyLine, PyNoMove, pyVars
  <2> QED  BY <2>3, <2>4 DEF QueuedInLimits, LuaMoves
<1> QED  BY <1>1, <1>2 DEF Next

(* No reader leaves a target outside the limits in its queue, in any       *)
(* program, plain or not.                                                  *)
THEOREM QueuedInLimitsHolds == Spec => []QueuedInLimits
<1>1. Init => QueuedInLimits
  <2> SUFFICES ASSUME Init PROVE QueuedInLimits
    OBVIOUS
  <2>1. Len(<< Zero >>) = 1 /\ DOMAIN << >> = {}
    OBVIOUS
  <2> QED  BY <2>1 DEF Init, QueuedInLimits, LuaMoves
<1> QED  BY <1>1, TypeCorrect, LimitsStep, PTL DEF Spec

(* A plain program that plays to its end is validated, from the agreement  *)
(* of the readers.                                                         *)
THEOREM PlayedValidatesHolds == Spec => []PlayedValidates
<1>1. TypeOK /\ SameMoves => PlayedValidates
  <2> SUFFICES ASSUME TypeOK, SameMoves, plain, Plays, Len(moves) \notin rewritten
               PROVE  Validates
    BY DEF PlayedValidates
  <2>1. ~ pyError /\ Len(tables) = Len(moves) + 1 /\ Len(tables) > 1
    BY DEF SameMoves, Plays
  <2>2. moves \in Seq(Pose) /\ Len(moves) \in Nat \ {0} /\ DOMAIN moves = 1 .. Len(moves)
    BY <2>1, LenProperties DEF TypeOK
  <2>3. tables[Len(moves) + 1] = moves[Len(moves)]
    BY <2>1, <2>2 DEF SameMoves
  <2>4. Applies(tables[Len(moves) + 1])
    <3>1. Len(moves) \in DOMAIN LuaMoves /\ LuaMoves[Len(moves)] = tables[Len(moves) + 1]
      BY <2>1, <2>2 DEF LuaMoves
    <3> QED  BY <3>1 DEF Plays
  <2>5. moves # << >>
    BY <2>2
  <2> QED  BY <2>1, <2>3, <2>4, <2>5 DEF Validates, Applies, ToolToScene
<1> QED  BY <1>1, TypeCorrect, SameMovesHolds, PTL
=============================================================================
