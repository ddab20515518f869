------------------------ MODULE MotionPlannerProofs ------------------------
(***************************************************************************)
(* Proofs about MotionPlanner, for every set of targets, limits and bounds:*)
(* when a turn is the shortest, types, the limits, the continuity of the   *)
(* plan, and that no joint jumps from one sample to the next.              *)
(***************************************************************************)
EXTENDS MotionPlanner, SequenceTheorems, TLAPS, NaturalsInduction, WellFoundedInduction

(* "The default behavior is to run the shortest distance" (Path.cpp:277):  *)
(* when SetBCPath turns C by half a turn at most.  Exactly when the target *)
(* is at most half a turn ahead of where C is in its turn and at most one  *)
(* turn and a half behind it - for every turn, start and target.  So it    *)
(* does for targets between -180 and 180 degrees, from anywhere, but not   *)
(* for the 270 of gcode_examples/5axis.gcode:10 from zero.                 *)
THEOREM WayIsShort ==
  ASSUME NEW turn \in Nat \ {0}, NEW xi \in Int, NEW xf \in Int
  PROVE  /\ Way(xi, xf, turn) \in Int
         /\ 2 * Abs(Way(xi, xf, turn)) <= turn
              <=> /\ 2 * (xf - (xi % turn)) <= turn
                  /\ -3 * turn <= 2 * (xf - (xi % turn))
         /\ -turn <= 2 * xf /\ 2 * xf <= turn => 2 * Abs(Way(xi, xf, turn)) <= turn
<1> DEFINE r == xi % turn
<1>1. r \in 0 .. turn - 1 /\ (xi \div turn) * turn = xi - r
  OBVIOUS
<1>2. xf + (xi \div turn) * turn - xi = xf - r
  BY <1>1
<1>3. Way(xi, xf, turn) =
        LET cor == xf - r
            inv == IF cor < 0 THEN cor + turn ELSE cor - turn
        IN IF Abs(inv) <= Abs(cor) THEN IF cor > inv THEN cor ELSE inv ELSE cor
  BY <1>2 DEF Way
<1> HIDE DEF r
<1>4. Way(xi, xf, turn) \in Int
  BY <1>1, <1>3 DEF Abs
<1>5. 2 * Abs(Way(xi, xf, turn)) <= turn <=> (2 * (xf - r) <= turn /\ -3 * turn <= 2 * (xf - r))
  BY <1>1, <1>3 DEF Abs
<1>6. -turn <= 2 * xf /\ 2 * xf <= turn => 2 * Abs(Way(xi, xf, turn)) <= turn
  BY <1>1, <1>3 DEF Abs
<1> QED  BY <1>4, <1>5, <1>6, Zenon DEF r

(* The combined length is a number of samples; it is 0 only without motion.*)
LEMMA CombinedIsNat ==
  ASSUME NEW d \in Pose
  PROVE  /\ Combined(d) \in Nat
         /\ Combined(d) = 0 => d = Zero
         /\ Combined(d) * Combined(d) >= d.x * d.x + d.b * d.b + d.c * d.c
<1> DEFINE square == d.x * d.x + d.b * d.b + d.c * d.c
           R == {m \in 0 .. square : m * m >= square}
<1>1. square \in Nat
  <2>1. \A a \in Int : a * a \in Nat
    OBVIOUS
  <2> QED  BY <2>1 DEF Pose
<1>2. square \in R
  BY <1>1
<1>3. \E n \in R : \A m \in R : n <= m
  <2>1. R \subseteq Nat /\ R # {}
    BY <1>1, <1>2
  <2>2. \E n \in R : \A m \in R : ~ (<<m, n>> \in OpToRel(<, Nat))
    <3> HIDE DEF R
    <3> QED  BY <2>1, NatLessThanWellFounded, WFMin, Zenon
  <2>3. PICK n \in R : \A m \in R : ~ (<<m, n>> \in OpToRel(<, Nat))
    BY <2>2
  <2>4. \A m \in R : ~ (m < n)
    BY <2>1, <2>3, Zenon DEF OpToRel
  <2> QED  BY <2>1, <2>4
<1>4. \E n \in 0 .. square : n * n >= square /\ \A m \in 0 .. square : m * m >= square => n <= m
  BY <1>3
<1>5. Combined(d) \in 0 .. square /\ Combined(d) * Combined(d) >= square
  BY <1>4 DEF Combined
<1>6. square = 0 => d = Zero
  <2>1. \A a \in Int : a * a \in Nat /\ (a * a = 0 => a = 0)
    OBVIOUS
  <2>2. d.x \in Int /\ d.b \in Int /\ d.c \in Int /\ d = [x |-> d.x, b |-> d.b, c |-> d.c]
    BY DEF Pose
  <2>3. d.x * d.x \in Nat /\ d.b * d.b \in Nat /\ d.c * d.c \in Nat
    BY <2>1, <2>2
  <2>4. square = 0 => d.x * d.x = 0 /\ d.b * d.b = 0 /\ d.c * d.c = 0
    BY <2>3
  <2>5. square = 0 => d.x = 0 /\ d.b = 0 /\ d.c = 0
    BY <2>1, <2>2, <2>4
  <2> QED  BY <2>2, <2>5 DEF Zero
<1> QED  BY <1>1, <1>5, <1>6

(* So is the length of a rapid move.                                       *)
LEMMA LongestIsNat ==
  ASSUME NEW d \in Pose
  PROVE  Longest(d) \in Nat
<1>1. \E n \in {Abs(d.x), Abs(d.b), Abs(d.c)} : Abs(d.x) <= n /\ Abs(d.b) <= n /\ Abs(d.c) <= n
  BY DEF Pose, Abs
<1>2. Longest(d) \in {Abs(d.x), Abs(d.b), Abs(d.c)}
  BY <1>1 DEF Longest
<1> QED  BY <1>2 DEF Pose, Abs

(* Tagging poses with their kind makes samples, one for each pose.         *)
LEMMA SampledType ==
  ASSUME NEW s \in Seq(Place), NEW k \in Kinds \cup {"again"}
  PROVE  /\ Sampled(k, s) \in Seq(Sample)
         /\ DOMAIN Sampled(k, s) = DOMAIN s
         /\ \A i \in DOMAIN s : Sampled(k, s)[i] = [at |-> s[i], by |-> k]
<1>1. DOMAIN s = 1 .. Len(s) /\ Len(s) \in Nat /\ \A i \in DOMAIN s : s[i] \in Place
  OBVIOUS
<1>2. \A i \in DOMAIN s : [at |-> s[i], by |-> k] \in Sample
  BY <1>1 DEF Sample
<1> QED  BY <1>1, <1>2 DEF Sampled

(* Samples between two poses are poses.                                    *)
LEMMA AlongType ==
  ASSUME NEW p \in Pose, NEW d \in Pose, NEW i \in Int, NEW n \in Nat \ {0}
  PROVE  Along(p, d, i, n) \in Pose
<1>1. \A a \in Int : a * i \in Int
  OBVIOUS
<1>2. \A a \in Int : a \div n \in Int
  OBVIOUS
<1>3. (d.x * i) \div n \in Int /\ (d.b * i) \div n \in Int /\ (d.c * i) \div n \in Int
  BY <1>1, <1>2 DEF Pose
<1> HIDE <1>1, <1>2
<1> DEFINE x == (d.x * i) \div n
           b == (d.b * i) \div n
           c == (d.c * i) \div n
<1>4. Along(p, d, i, n) = [x |-> p.x + x, b |-> p.b + b, c |-> p.c + c]
  BY DEF Along
<1>5. x \in Int /\ b \in Int /\ c \in Int
  BY <1>3
<1> HIDE DEF x, b, c
<1> QED  BY <1>4, <1>5 DEF Pose

(* A target is a pose.                                                     *)
LEMMA TargetType ==
  ASSUME NEW q \in Targets
  PROVE  q \in Pose
  BY PlannerAssumption

(* A rapid turn is an angle.                                               *)
LEMMA RapidWayType ==
  ASSUME NEW turn \in Nat \ {0}, NEW xi \in Int, NEW xf \in Int
  PROVE  RapidWay(xi, xf, turn) \in Int
<1>1. (xi \div turn) * turn \in Int
  OBVIOUS
<1> QED  BY <1>1 DEF RapidWay, Abs

(* The path of a command is a vector.                                      *)
LEMMA PathType ==
  ASSUME NEW p \in Pose, NEW q \in Targets
  PROVE  Path(p, q) \in Pose /\ RapidPath(p, q) \in Pose
<1>1. q \in Pose /\ p.c \in Int /\ q.c \in Int /\ Turn \in Nat \ {0}
  BY TargetType DEF Pose, Turn
<1>2. Way(p.c, q.c, Turn) \in Int
  BY <1>1, WayIsShort
<1>3. RapidWay(p.c, q.c, Turn) \in Int
  BY <1>1, RapidWayType
<1> QED  BY <1>1, <1>2, <1>3 DEF Path, RapidPath, Pose

(* Whatever is computed for a command is a sequence of samples.            *)
LEMMA TrajectoriesType ==
  ASSUME NEW k \in Kinds, NEW p \in Place, NEW q \in Targets, joints \in Seq(Sample),
         NEW s \in Trajectories(k, p, q)
  PROVE  s \in Seq(Sample)
<1>1. q \in Pose /\ q \in Place /\ NaN \in Place /\ Pose \subseteq Place
  BY TargetType DEF Place
<1>2. << >> \in Seq(Sample)
  OBVIOUS
<1>3. ASSUME p # NaN PROVE p \in Pose
  BY <1>3 DEF Place
<1>4. ASSUME s \in Rapid(p, q) PROVE s \in Seq(Sample)
  <2>1. p \in Pose /\ RapidPath(p, q) \in Pose
    BY <1>3, <1>4, PathType DEF Rapid
  <2> DEFINE d == RapidPath(p, q)
             n == Longest(d)
  <2>2. n \in Nat
    BY <2>1, LongestIsNat
  <2>3. CASE n = 0
    <3>1. << q >> \in Seq(Place) /\ << NaN, q >> \in Seq(Place)
      BY <1>1
    <3>2. Sampled("rapid", << q >>) \in Seq(Sample) /\ Sampled("rapid", << NaN, q >>) \in Seq(Sample)
      BY <3>1, SampledType DEF Kinds
    <3>3. [i \in DOMAIN joints |-> [joints[i] EXCEPT !.by = "again"]] \in Seq(Sample)
      <4>1. DOMAIN joints = 1 .. Len(joints) /\ Len(joints) \in Nat
        OBVIOUS
      <4>2. \A i \in DOMAIN joints : joints[i] \in Sample
        OBVIOUS
      <4>3. \A i \in DOMAIN joints : [joints[i] EXCEPT !.by = "again"] \in Sample
        BY <4>2 DEF Sample
      <4> QED  BY <4>1, <4>3
    <3>4. \/ s = Sampled("rapid", << q >>) \/ s = Sampled("rapid", << NaN, q >>)
          \/ s = [i \in DOMAIN joints |-> [joints[i] EXCEPT !.by = "again"]]
      BY <1>4, <2>3 DEF Rapid
    <3> QED  BY <3>2, <3>3, <3>4
  <2>4. CASE n # 0
    <3> DEFINE poses == [i \in 1 .. n |-> IF i = n THEN q ELSE Along(p, d, i, n)]
    <3>1. \A i \in 1 .. n : Along(p, d, i, n) \in Place
      BY <1>1, <2>1, <2>2, <2>4, AlongType
    <3>2. poses \in Seq(Place)
      BY <1>1, <2>2, <3>1
    <3>3. s = Sampled("rapid", poses)
      BY <1>4, <2>4 DEF Rapid
    <3> HIDE DEF poses
    <3> QED  BY <3>2, <3>3, SampledType DEF Kinds
  <2> QED  BY <2>3, <2>4
<1>5. ASSUME s \in Ramp(p, q) \/ s \in Interpolated(p, q), s # << >> PROVE s \in Seq(Sample)
  <2> DEFINE d == Path(p, q)
             n == Combined(d)
             ramp  == [i \in 1 .. n |-> Along(p, d, i, n)]
             inter == [i \in 1 .. n |-> Along(p, d, i - 1, n)]
  <2>1. p \in Pose /\ d \in Pose
    BY <1>3, <1>5, PathType DEF Ramp, Interpolated
  <2>2. n \in Nat
    BY <2>1, CombinedIsNat
  <2>3. << NaN >> \in Seq(Place)
    BY <1>1
  <2>4. \A i \in 1 .. n : Along(p, d, i, n) \in Place /\ Along(p, d, i - 1, n) \in Place
    BY <1>1, <2>1, <2>2, AlongType
  <2>5. ramp \in Seq(Place) /\ inter \in Seq(Place)
    BY <2>2, <2>4
  <2>6. s \in {Sampled("ramp", << NaN >>), Sampled("ramp", ramp), Sampled("interpolated", inter)}
    BY <1>5, <2>1 DEF Ramp, Interpolated
  <2> HIDE DEF ramp, inter
  <2> QED  BY <2>3, <2>5, <2>6, SampledType DEF Kinds
<1>6. ASSUME s \in Arc(p, q) PROVE s \in Seq(Sample)
  <2>1. << p, [p EXCEPT !.x = @ + 1] >> \in Seq(Place)
    BY <1>1, <1>3, <1>6 DEF Arc, Pose
  <2> QED  BY <1>6, <2>1, SampledType DEF Arc, Kinds
<1>7. ASSUME s \in Circle(p), s # << >> PROVE s \in Seq(Sample)
  <2> DEFINE poses == [i \in 1 .. 4 |->
               [Zero EXCEPT !.x = p.x + (CASE i = 1 -> 0 [] i = 3 -> 2 [] OTHER -> 1)]]
  <2>1. p \in Pose
    BY <1>3, <1>7 DEF Circle
  <2>2. \A a \in Int : [Zero EXCEPT !.x = p.x + a] \in Pose
    BY <2>1 DEF Pose, Zero
  <2>3. poses \in Seq(Place)
    <3> DEFINE part(i) == CASE i = 1 -> 0 [] i = 3 -> 2 [] OTHER -> 1
    <3>1. \A i \in 1 .. 4 : part(i) \in Int
      OBVIOUS
    <3>2. \A i \in 1 .. 4 : [Zero EXCEPT !.x = p.x + part(i)] \in Place
      BY <1>1, <2>2, <3>1
    <3> QED  BY <3>2
  <2>4. s = Sampled("circle", poses)
    BY <1>7, <2>1 DEF Circle
  <2> HIDE DEF poses
  <2> QED  BY <2>3, <2>4, SampledType DEF Kinds
<1>8. ASSUME s \in Dwell(p), s # << >> PROVE s \in Seq(Sample)
  <2> DEFINE at == IF p = NaN THEN NaN ELSE [Zero EXCEPT !.x = p.x]
  <2>1. at \in Place
    <3>1. ASSUME p # NaN PROVE [Zero EXCEPT !.x = p.x] \in Pose
      BY <1>3, <3>1 DEF Pose, Zero
    <3> QED  BY <1>1, <3>1
  <2>2. << at >> \in Seq(Place)
    BY <2>1
  <2>3. s = Sampled("dwell", << at >>)
    BY <1>8 DEF Dwell
  <2> HIDE DEF at
  <2> QED  BY <2>2, <2>3, SampledType DEF Kinds
<1>9. \/ s \in Rapid(p, q) \/ s \in Ramp(p, q) \/ s \in Interpolated(p, q)
      \/ s \in Arc(p, q) \/ s \in Circle(p) \/ s \in Dwell(p)
  BY DEF Trajectories, Kinds
<1> QED  BY <1>2, <1>4, <1>5, <1>6, <1>7, <1>8, <1>9

(* So it is for an incremental command: only the name of the first sample  *)
(* is another.                                                             *)
LEMMA FromZeroType ==
  ASSUME NEW s \in Seq(Sample)
  PROVE  /\ FromZero(s) \in Seq(Sample) /\ DOMAIN FromZero(s) = DOMAIN s
         /\ \A i \in DOMAIN s : FromZero(s)[i].at = s[i].at
         /\ \A i \in DOMAIN s : i # 1 => FromZero(s)[i] = s[i]
         /\ \A i \in DOMAIN s : i = 1 => FromZero(s)[i].by = "incremental"
<1>1. DOMAIN s = 1 .. Len(s) /\ Len(s) \in Nat /\ \A i \in DOMAIN s : s[i] \in Sample
  OBVIOUS
<1>2. FromZero(s) = [i \in 1 .. Len(s) |-> IF i = 1 THEN [s[1] EXCEPT !.by = "incremental"] ELSE s[i]]
  BY <1>1 DEF FromZero
<1>3. \A i \in DOMAIN s : /\ [s[i] EXCEPT !.by = "incremental"] \in Sample
                         /\ [s[i] EXCEPT !.by = "incremental"].at = s[i].at
                         /\ [s[i] EXCEPT !.by = "incremental"].by = "incremental"
  BY <1>1 DEF Sample
<1>4. \A i \in 1 .. Len(s) :
        FromZero(s)[i] = IF i = 1 THEN [s[1] EXCEPT !.by = "incremental"] ELSE s[i]
  BY <1>2
<1>5. DOMAIN FromZero(s) = 1 .. Len(s) /\ \A i \in 1 .. Len(s) : FromZero(s)[i] \in Sample
  BY <1>1, <1>2, <1>3, <1>4
<1>6. FromZero(s) \in Seq(Sample)
  <2>1. FromZero(s) = [i \in 1 .. Len(s) |-> FromZero(s)[i]]
    BY <1>2
  <2> QED  BY <1>1, <1>5, <2>1
<1> QED  BY <1>1, <1>3, <1>4, <1>5, <1>6

LEMMA CommandedType ==
  ASSUME TypeOK, NEW k \in Kinds, NEW inc \in BOOLEAN, NEW q \in Targets,
         NEW s \in Commanded(k, inc, q)
  PROVE  s \in Seq(Sample)
<1>1. Zero \in Place /\ last \in Place /\ joints \in Seq(Sample)
  BY DEF Zero, Place, Pose, TypeOK
<1>2. CASE ~inc
  BY <1>1, <1>2, TrajectoriesType DEF Commanded
<1>3. CASE inc
  <2>1. PICK t \in Trajectories(k, Zero, q) : s = FromZero(t)
    BY <1>3 DEF Commanded
  <2>2. t \in Seq(Sample)
    BY <1>1, TrajectoriesType
  <2> QED  BY <2>1, <2>2, FromZeroType
<1> QED  BY <1>2, <1>3

-----------------------------------------------------------------------------
(* The types hold at first.                                                *)
LEMMA TypeInit == Init => TypeOK
<1>1. Zero \in Place
  BY DEF Zero, Place, Pose
<1>2. << >> \in Seq(Sample) /\ Len(<< >>) = 0 /\ << >> \in Seq(1 .. 0)
  OBVIOUS
<1> SUFFICES ASSUME Init PROVE TypeOK
  OBVIOUS
<1>3. queue = << >> /\ made = 0 /\ plan = << >> /\ joints = << >> /\ batch = << >>
  BY DEF Init, Pipe!Init
<1>4. /\ last \in Place /\ pose \in Place /\ phase = "stopped"
      /\ commands = 0 /\ runs = 0 /\ lost = FALSE /\ cut = FALSE
  BY <1>1 DEF Init
<1> QED  BY <1>2, <1>3, <1>4 DEF TypeOK

(* A command keeps the types.                                              *)
LEMMA InterpretKeepsType ==
  ASSUME TypeOK, NEW k \in Kinds, NEW inc \in BOOLEAN, NEW q \in Targets, Interpret(k, inc, q)
  PROVE  TypeOK'
<1>1. PICK s \in Commanded(k, inc, q) :
        /\ joints' = s
        /\ \/ s = << >> /\ UNCHANGED <<last, batch, lost, cut>>
           \/ /\ s # << >>
              /\ last' = s[Len(s)].at
              /\ IF \A i \in DOMAIN s : Allowed(s[i].at)
                 THEN batch' = s /\ Accepted
                 ELSE lost' = TRUE /\ UNCHANGED <<batch, cut>>
  BY DEF Interpret
<1>2. s \in Seq(Sample)
  BY CommandedType
<1>3. s # << >> => s[Len(s)].at \in Place
  <2>1. s # << >> => Len(s) \in 1 .. Len(s)
    BY <1>2, EmptySeq
  <2>2. s # << >> => s[Len(s)] \in Sample
    BY <1>2, <2>1, ElementOfSeq
  <2> QED  BY <2>2 DEF Sample
<1>4. commands' = commands + 1 /\ UNCHANGED <<plan, queue, made, pose, phase, runs>>
  BY DEF Interpret, Receive, pipeVars, simVars
<1>5. last' \in Place /\ joints' \in Seq(Sample) /\ batch' \in Seq(Sample)
  BY <1>1, <1>2, <1>3 DEF TypeOK, Accepted
<1>6. lost' \in BOOLEAN /\ cut' \in BOOLEAN
  BY <1>1 DEF TypeOK, Accepted
<1> QED  BY <1>4, <1>5, <1>6 DEF TypeOK

(* A push keeps the types and the samples that were pushed before.         *)
LEMMA PushKeepsType ==
  ASSUME TypeOK, PushSample
  PROVE  /\ TypeOK'
         /\ made' = made + 1 /\ plan'[made'] = Head(batch)
         /\ \A n \in 1 .. made : plan'[n] = plan[n]
         /\ queue' = Append(queue, made')
<1>1. /\ batch # << >> /\ batch' = Tail(batch) /\ plan' = Append(plan, Head(batch))
      /\ made' = made + 1 /\ queue' = Append(queue, made')
      /\ UNCHANGED <<last, joints, pose, phase, runs, commands, lost, cut>>
  BY DEF PushSample, Pipe!Make, simVars
<1>2. Head(batch) \in Sample /\ Tail(batch) \in Seq(Sample)
  BY <1>1, HeadTailProperties DEF TypeOK
<1>3. /\ plan' \in Seq(Sample) /\ Len(plan') = Len(plan) + 1
      /\ plan'[Len(plan) + 1] = Head(batch)
      /\ \A n \in 1 .. Len(plan) : plan'[n] = plan[n]
  BY <1>1, <1>2, AppendProperties DEF TypeOK
<1>4. made = Len(plan) /\ made \in Nat
  BY LenProperties DEF TypeOK
<1>5. queue' \in Seq(1 .. made')
  <2>1. 1 .. made \subseteq 1 .. made' /\ made' \in 1 .. made'
    BY <1>1, <1>4
  <2>2. queue \in Seq(1 .. made')
    BY <2>1, SeqMonotonic DEF TypeOK
  <2> QED  BY <1>1, <2>1, <2>2, AppendProperties
<1> QED  BY <1>1, <1>2, <1>3, <1>4, <1>5 DEF TypeOK

(* A tick keeps the types, and writes the oldest sample.                   *)
LEMMA TickKeepsType ==
  ASSUME TypeOK, Tick
  PROVE  /\ TypeOK'
         /\ queue # << >> /\ Head(queue) \in 1 .. made /\ pose' = plan[Head(queue)].at
         /\ queue' = Tail(queue) /\ UNCHANGED <<made, planVars, lost, cut>>
<1>1. /\ queue # << >> /\ queue' = Tail(queue) /\ made' = made
      /\ pose' = plan[Head(queue)].at
      /\ UNCHANGED <<planVars, phase, runs, commands, lost, cut>>
  BY DEF Tick, Pipe!Actuate
<1>2. Head(queue) \in 1 .. made /\ Tail(queue) \in Seq(1 .. made)
  BY <1>1, HeadTailProperties DEF TypeOK
<1>3. plan[Head(queue)] \in Sample
  BY <1>2, ElementOfSeq DEF TypeOK
<1> QED  BY <1>1, <1>2, <1>3 DEF TypeOK, planVars, Sample

(* The drain keeps the types, and removes the oldest sample.               *)
LEMMA DrainKeepsType ==
  ASSUME TypeOK, Drain
  PROVE  /\ TypeOK'
         /\ queue # << >> /\ queue' = Tail(queue) /\ UNCHANGED <<made, planVars, pose>>
         /\ lost'
<1>1. /\ queue # << >> /\ queue' = Tail(queue) /\ made' = made
      /\ lost' = TRUE /\ cut' = TRUE
      /\ UNCHANGED <<planVars, simVars, commands>>
  BY DEF Drain, Pipe!DiscardFirst
<1>2. Tail(queue) \in Seq(1 .. made)
  BY <1>1, HeadTailProperties DEF TypeOK
<1> QED  BY <1>1, <1>2 DEF TypeOK, planVars, simVars

(* What is on its way is poses, never NaN; so is where the joints are.     *)
LEMMA AllowedIsPose ==
  ASSUME NEW p \in Place, Allowed(p)
  PROVE  p \in Pose
  BY DEF Allowed, Place

(* Zero is a pose.                                                         *)
LEMMA ZeroIsPose == Zero \in Pose /\ Zero \in Place
  BY DEF Zero, Pose, Place

(* A joint that stops half way leaves the others where they are: the pose  *)
(* has the place of each joint before or after.                            *)
LEMMA PartlyIs ==
  ASSUME NEW p \in Pose, NEW q \in Pose, NEW n \in 0 .. 2
  PROVE  /\ Partly(p, q, n) \in Pose
         /\ MachineX(Partly(p, q, n)) \in {MachineX(p), MachineX(q)}
         /\ Partly(p, q, n).b = p.b
<1> DEFINE m == IF n >= 1 THEN MachineX(q) ELSE MachineX(p)
           c == IF n >= 2 THEN q.c ELSE p.c
           part == Cos(c) * Sin(p.b) * Reach
<1>1. \A a, e \in Int : Cos(a) \in Int /\ Sin(e) \in Int /\ Cos(a) * Sin(e) * Reach \in Int
  <2>1. \A a \in Int : Cos(a) \in {-1, 0, 1} /\ Sin(a) \in {-1, 0, 1}
    BY DEF Cos, Sin
  <2>2. \A a \in {-1, 0, 1}, e \in {-1, 0, 1} : a * e * Reach \in Int
    BY PlannerAssumption
  <2> QED  BY <2>1, <2>2
<1>2. p.x \in Int /\ p.b \in Int /\ p.c \in Int /\ q.x \in Int /\ q.b \in Int /\ q.c \in Int
  BY DEF Pose
<1>3. ASSUME NEW r \in Pose PROVE MachineX(r) \in Int
  <2>1. r.x \in Int /\ r.b \in Int /\ r.c \in Int
    BY DEF Pose
  <2>2. Cos(r.c) * Sin(r.b) * Reach \in Int
    BY <1>1, <2>1
  <2> QED  BY <2>1, <2>2 DEF MachineX
<1>4. c \in Int /\ m \in {MachineX(p), MachineX(q)} /\ m \in Int /\ part \in Int
  BY <1>1, <1>2, <1>3
<1>5. Partly(p, q, n) = [x |-> m - part, b |-> p.b, c |-> c]
  BY DEF Partly
<1>6. MachineX(Partly(p, q, n)) = (m - part) + part
  BY <1>5 DEF MachineX
<1> HIDE DEF m, c, part
<1> QED  BY <1>2, <1>4, <1>5, <1>6 DEF Pose

(* So it is still within the limits, of each joint.                        *)
LEMMA PartlyIsAllowed ==
  ASSUME NEW p \in Pose, NEW q \in Pose, NEW n \in 0 .. 2, Allowed(p), Allowed(q)
  PROVE  Partly(p, q, n) \in Pose /\ Allowed(Partly(p, q, n))
  BY PartlyIs, PlannerAssumption DEF Allowed

(* A write that fails leaves such a pose, and so does the reset.           *)
LEMMA WriteFailsPartly ==
  ASSUME TypeOK, WithinLimits, WriteFails
  PROVE  pose' \in Pose /\ Allowed(pose')
<1> DEFINE q == plan[Head(queue)].at
<1>1. queue # << >>
  BY DEF WriteFails, Pipe!DiscardAll
<1>2. Head(queue) = queue[1] /\ 1 \in DOMAIN queue /\ Head(queue) \in 1 .. made
  BY <1>1, HeadTailProperties, LenProperties, EmptySeq DEF TypeOK
<1>3. plan[Head(queue)] \in Sample /\ Allowed(q)
  BY <1>2, ElementOfSeq DEF TypeOK, WithinLimits
<1>4. q \in Pose /\ pose \in Pose /\ Allowed(pose)
  BY <1>3, AllowedIsPose DEF Sample, TypeOK, WithinLimits
<1>5. PICK n \in 0 .. 2 : pose' = Partly(pose, q, n)
  BY DEF WriteFails
<1> HIDE DEF q
<1> QED  BY <1>3, <1>4, <1>5, PartlyIsAllowed

(* The joints are within their limits when all are zero.                   *)
LEMMA ZeroIsAllowed == Allowed(Zero)
<1>1. Sin(0) = 0
  BY DEF Sin, Cos, Turn
<1>2. Cos(0) = 1
  BY DEF Cos, Turn
<1>3. MachineX(Zero) = 0 + Cos(0) * Sin(0) * Reach
  BY DEF MachineX, Zero
<1>4. Cos(0) * Sin(0) * Reach = 0
  BY <1>1, <1>2, PlannerAssumption
<1>5. Zero # NaN
  BY PlannerAssumption DEF Zero, Pose
<1> QED  BY <1>3, <1>4, <1>5, PlannerAssumption DEF Allowed, Zero

LEMMA ResetPartly ==
  ASSUME TypeOK, WithinLimits, ResetJoints
  PROVE  pose' \in Pose /\ Allowed(pose')
<1>1. pose \in Pose /\ Allowed(pose)
  BY AllowedIsPose DEF TypeOK, WithinLimits
<1>2. pose' = Zero \/ \E n \in 0 .. 2 : pose' = Partly(pose, Zero, n)
  BY DEF ResetJoints
<1> QED  BY <1>1, <1>2, ZeroIsPose, ZeroIsAllowed, PartlyIsAllowed

(* Every step keeps the types.                                             *)
LEMMA TypeStep == TypeOK /\ WithinLimits /\ [Next]_vars => TypeOK'
<1> SUFFICES ASSUME TypeOK, WithinLimits, [Next]_vars PROVE TypeOK'
  OBVIOUS
<1>0. Zero \in Place /\ << >> \in Seq(Sample) /\ << >> \in Seq(1 .. made)
  BY DEF Zero, Place, Pose
<1>1. CASE Refuse
  BY <1>1 DEF Refuse, Receive, planVars, pipeVars, simVars, TypeOK
<1>2. ASSUME NEW k \in Kinds, NEW inc \in BOOLEAN, NEW q \in Targets, Interpret(k, inc, q)
      PROVE  TypeOK'
  BY <1>2, InterpretKeepsType
<1>3. CASE PushSample  BY <1>3, PushKeepsType
<1>4. CASE Tick        BY <1>4, TickKeepsType
<1>5. CASE WriteFails
  <2>1. pose' \in Place
    BY <1>5, WriteFailsPartly DEF Place
  <2> QED  BY <1>0, <1>5, <2>1 DEF WriteFails, Pipe!DiscardAll, planVars, TypeOK
<1>6. CASE SimulationEnded
  BY <1>6 DEF SimulationEnded, planVars, pipeVars, TypeOK
<1>7. CASE Drain       BY <1>7, DrainKeepsType
<1>8. CASE ResetJoints
  <2>1. pose' \in Place
    BY <1>8, ResetPartly DEF Place
  <2> QED  BY <1>8, <2>1 DEF ResetJoints, planVars, pipeVars, TypeOK
<1>9. CASE StopServer
  BY <1>9 DEF StopServer, planVars, pipeVars, TypeOK
<1>10. CASE Launch
  BY <1>0, <1>10 DEF Launch, pipeVars, TypeOK
<1>11. CASE UNCHANGED vars
  BY <1>11 DEF vars, planVars, pipeVars, simVars, TypeOK
<1> QED
  BY <1>1, <1>2, <1>3, <1>4, <1>5, <1>6, <1>7, <1>8, <1>9, <1>10, <1>11 DEF Next, Simulation

-----------------------------------------------------------------------------
(* Every step keeps what is on its way to the joints within the limits.    *)
LEMMA LimitsStep == TypeOK /\ WithinLimits /\ [Next]_vars => WithinLimits'
<1> SUFFICES ASSUME TypeOK, WithinLimits, [Next]_vars PROVE WithinLimits'
  OBVIOUS
<1>1. ASSUME NEW k \in Kinds, NEW inc \in BOOLEAN, NEW q \in Targets, Interpret(k, inc, q)
      PROVE  WithinLimits'
  <2>1. UNCHANGED <<plan, queue, pose>>
    BY <1>1 DEF Interpret, pipeVars, simVars
  <2>2. batch' = batch \/ \A i \in DOMAIN batch' : Allowed(batch'[i].at)
    BY <1>1 DEF Interpret
  <2> QED  BY <2>1, <2>2 DEF WithinLimits
<1>2. CASE PushSample
  <2>1. /\ batch # << >> /\ batch' = Tail(batch) /\ UNCHANGED pose
    BY <1>2 DEF PushSample, simVars
  <2>2. Head(batch) = batch[1] /\ 1 \in DOMAIN batch
    BY <2>1, HeadTailProperties, LenProperties, EmptySeq DEF TypeOK
  <2>3. \A i \in DOMAIN batch' : Allowed(batch'[i].at)
    BY <2>1, HeadTailProperties, LenProperties, EmptySeq DEF TypeOK, WithinLimits
  <2>4. ASSUME NEW i \in DOMAIN queue' PROVE Allowed(plan'[queue'[i]].at)
    <3>1. CASE i \in DOMAIN queue /\ queue'[i] = queue[i]
      <4>1. queue[i] \in 1 .. made
        BY <3>1 DEF TypeOK
      <4> QED  BY <1>2, <3>1, <4>1, PushKeepsType DEF WithinLimits
    <3>2. CASE queue'[i] = made'
      BY <1>2, <2>2, <3>2, PushKeepsType DEF WithinLimits
    <3>3. /\ DOMAIN queue = 1 .. Len(queue) /\ Len(queue) \in Nat
          /\ DOMAIN queue' = 1 .. Len(queue) + 1
          /\ \A j \in DOMAIN queue : queue'[j] = queue[j]
          /\ queue'[Len(queue) + 1] = made'
      <4>1. queue \in Seq(1 .. made) /\ queue' = Append(queue, made')
        BY <1>2, PushKeepsType DEF TypeOK
      <4> QED  BY <4>1
    <3> QED  BY <3>1, <3>2, <3>3
  <2> QED  BY <2>1, <2>3, <2>4 DEF WithinLimits
<1>3. CASE Tick \/ Drain
  <2>1. /\ queue # << >> /\ queue' = Tail(queue) /\ UNCHANGED <<batch, plan>>
        /\ pose' \in {pose, plan[Head(queue)].at}
    BY <1>3, TickKeepsType, DrainKeepsType DEF planVars
  <2>2. /\ Head(queue) = queue[1] /\ 1 \in DOMAIN queue
        /\ \A i \in DOMAIN queue' : i + 1 \in DOMAIN queue /\ queue'[i] = queue[i + 1]
    BY <2>1, HeadTailProperties, LenProperties, EmptySeq DEF TypeOK
  <2> QED  BY <2>1, <2>2 DEF WithinLimits
<1>4. CASE WriteFails
  BY <1>4, WriteFailsPartly DEF WriteFails, Pipe!DiscardAll, planVars, WithinLimits
<1>5. CASE ResetJoints
  BY <1>5, ResetPartly DEF ResetJoints, planVars, pipeVars, WithinLimits
<1>6. CASE Refuse \/ SimulationEnded \/ StopServer \/ Launch \/ UNCHANGED vars
  BY <1>6 DEF Refuse, SimulationEnded, StopServer, Launch, vars, planVars, pipeVars, simVars, WithinLimits
<1> QED  BY <1>1, <1>2, <1>3, <1>4, <1>5, <1>6 DEF Next, Simulation

LEMMA LimitsInit == Init => WithinLimits
  BY ZeroIsAllowed DEF Init, Pipe!Init, WithinLimits

(* TypeOK holds in every reachable state.                                  *)
THEOREM TypeCorrect == Spec => []TypeOK
  BY TypeInit, LimitsInit, TypeStep, LimitsStep, PTL DEF Spec

(* The joints are only given poses the machine can take, and never NaN,    *)
(* also when a write or the reset stops half way.                          *)
THEOREM WithinLimitsHolds == Spec => []WithinLimits
  BY TypeInit, LimitsInit, TypeStep, LimitsStep, PTL DEF Spec

-----------------------------------------------------------------------------
(* A new Listener starts at zero: PlanContinues needs that it counts as    *)
(* lost when the joints are elsewhere, with no sample left to push.        *)
PlanInv ==
  /\ PlanContinues
  /\ phase = "stopped" => batch = << >>

(* Removing the oldest does not change the newest.                         *)
LEMMA LastOfTail ==
  ASSUME NEW S, NEW q \in Seq(S), q # << >>
  PROVE  /\ Tail(q) # << >> => Tail(q)[Len(Tail(q))] = q[Len(q)]
         /\ Tail(q) = << >> => q[Len(q)] = Head(q)
<1>1. Tail(q) \in Seq(S) /\ Len(Tail(q)) = Len(q) - 1 /\ Len(q) \in Nat \ {0}
  BY HeadTailProperties, EmptySeq
<1>2. Head(q) = q[1] /\ \A i \in 1 .. Len(Tail(q)) : Tail(q)[i] = q[i + 1]
  BY HeadTailProperties, LenProperties, EmptySeq
<1>3. Tail(q) # << >> => Len(Tail(q)) \in 1 .. Len(Tail(q))
  BY <1>1, EmptySeq
<1>4. Tail(q) = << >> => Len(q) = 1
  <2>1. Tail(q) = << >> => Len(Tail(q)) = 0
    BY EmptySeq
  <2> QED  BY <1>1, <2>1
<1> QED  BY <1>1, <1>2, <1>3, <1>4

(* Every step keeps PlanInv.                                               *)
LEMMA PlanStep == TypeOK /\ PlanInv /\ [Next]_vars => PlanInv'
<1> SUFFICES ASSUME TypeOK, PlanInv, [Next]_vars PROVE PlanInv'
  OBVIOUS
<1> USE DEF PlanInv, PlanContinues
<1>1. ASSUME NEW k \in Kinds, NEW inc \in BOOLEAN, NEW q \in Targets, Interpret(k, inc, q)
      PROVE  PlanInv'
  <2>1. batch = << >> /\ phase # "stopped" /\ UNCHANGED <<plan, queue, pose, phase>>
    BY <1>1 DEF Interpret, Receive, pipeVars, simVars
  <2>2. \/ UNCHANGED <<last, batch, lost>>
        \/ lost' = TRUE
        \/ batch' # << >> /\ last' = batch'[Len(batch')].at
    BY <1>1 DEF Interpret
  <2> QED  BY <2>1, <2>2 DEF End
<1>2. CASE PushSample
  <2>1. /\ batch # << >> /\ batch' = Tail(batch) /\ UNCHANGED <<last, lost, pose, phase>>
    BY <1>2 DEF PushSample, simVars
  <2>2. /\ Tail(batch) # << >> => Tail(batch)[Len(Tail(batch))] = batch[Len(batch)]
        /\ Tail(batch) = << >> => batch[Len(batch)] = Head(batch)
    BY <2>1, LastOfTail DEF TypeOK
  <2>3. queue' # << >> /\ queue'[Len(queue')] = made' /\ plan'[made'] = Head(batch)
    <3>1. /\ queue' = Append(queue, made') /\ plan'[made'] = Head(batch) /\ made' \in Nat
          /\ queue \in Seq(1 .. made')
      <4>1. made \in Nat /\ made' = made + 1 /\ queue \in Seq(1 .. made)
        BY <1>2, PushKeepsType, LenProperties DEF TypeOK
      <4>2. 1 .. made \subseteq 1 .. made'
        BY <4>1
      <4> QED  BY <1>2, <4>1, <4>2, PushKeepsType, SeqMonotonic
    <3>2. Len(queue') = Len(queue) + 1 /\ queue'[Len(queue) + 1] = made' /\ queue' # << >>
      <4>1. made' \in 1 .. made'
        BY <1>2, <3>1, PushKeepsType, LenProperties DEF TypeOK
      <4> QED  BY <3>1, <4>1, AppendProperties
    <3> QED  BY <3>1, <3>2
  <2>4. End' = End
    BY <2>1, <2>2, <2>3 DEF End
  <2> QED  BY <2>1, <2>4
<1>3. CASE Tick
  <2>1. /\ queue # << >> /\ queue' = Tail(queue) /\ pose' = plan[Head(queue)].at
        /\ UNCHANGED <<last, batch, plan, lost>> /\ phase = "running" /\ phase' = phase
    BY <1>3, TickKeepsType DEF planVars, Tick
  <2>2. /\ Tail(queue) # << >> => Tail(queue)[Len(Tail(queue))] = queue[Len(queue)]
        /\ Tail(queue) = << >> => queue[Len(queue)] = Head(queue)
    BY <2>1, LastOfTail DEF TypeOK
  <2>3. End' = End
    BY <2>1, <2>2 DEF End
  <2> QED  BY <2>1, <2>3
<1>4. CASE WriteFails
  BY <1>4 DEF WriteFails, planVars
<1>5. CASE Drain
  BY <1>5 DEF Drain, simVars, planVars
<1>6. CASE SimulationEnded
  BY <1>6 DEF SimulationEnded, planVars, pipeVars, End
<1>7. CASE ResetJoints
  BY <1>7 DEF ResetJoints
<1>8. CASE StopServer
  BY <1>8 DEF StopServer, planVars, pipeVars, End
<1>9. CASE Launch
  BY <1>9 DEF Launch, pipeVars, End
<1>10. CASE Refuse \/ UNCHANGED vars
  BY <1>10 DEF Refuse, vars, planVars, pipeVars, simVars, End
<1> QED
  BY <1>1, <1>2, <1>3, <1>4, <1>5, <1>6, <1>7, <1>8, <1>9, <1>10 DEF Next, Simulation

(* A command starts where the samples before it will leave the joints,     *)
(* unless something was refused or discarded since the last batch.         *)
THEOREM PlanContinuesHolds == Spec => []PlanContinues
<1>1. Init => PlanInv
  BY DEF Init, Pipe!Init, PlanInv, PlanContinues, End
<1>2. PlanInv => PlanContinues
  BY DEF PlanInv
<1> QED  BY <1>1, <1>2, TypeInit, TypeStep, LimitsInit, LimitsStep, PlanStep, PTL DEF Spec

-----------------------------------------------------------------------------
(***************************************************************************)
(* No joint jumps: within a trajectory, and from one to the next.          *)
(***************************************************************************)

Bounded(d, n) ==
  /\ -n <= d.x /\ d.x <= n /\ -n <= d.b /\ d.b <= n /\ -n <= d.c /\ d.c <= n

(* Between two of n parts of a distance of at most n there is at most one. *)
LEMMA PartsAreNear ==
  ASSUME NEW n \in Nat \ {0}, NEW d \in Int, -n <= d, d <= n, NEW i \in Int
  PROVE  /\ (d * i) \div n \in Int /\ (d * (i - 1)) \div n \in Int
         /\ (d * i) \div n - (d * (i - 1)) \div n \in -1 .. 1
<1> DEFINE a == d * (i - 1)
           b == d * i
           q == a \div n
           r == b \div n
<1>1. a \in Int /\ b \in Int /\ b = a + d
  OBVIOUS
<1> HIDE DEF a, b
<1>2. q \in Int /\ q * n <= a /\ a < q * n + n
  BY <1>1
<1>3. r \in Int /\ r * n <= b /\ b < r * n + n
  BY <1>1
<1> HIDE DEF q, r
<1>4. ~ r >= q + 2
  <2> SUFFICES ASSUME r >= q + 2 PROVE FALSE
    OBVIOUS
  <2>1. r * n >= (q + 2) * n
    BY <1>2, <1>3
  <2>2. (q + 2) * n = q * n + n + n /\ q * n \in Int /\ r * n \in Int
    BY <1>2, <1>3
  <2> QED  BY <1>1, <1>2, <1>3, <2>1, <2>2
<1>5. ~ q >= r + 2
  <2> SUFFICES ASSUME q >= r + 2 PROVE FALSE
    OBVIOUS
  <2>1. q * n >= (r + 2) * n
    BY <1>2, <1>3
  <2>2. (r + 2) * n = r * n + n + n /\ q * n \in Int /\ r * n \in Int
    BY <1>2, <1>3
  <2> QED  BY <1>1, <1>2, <1>3, <2>1, <2>2
<1> QED  BY <1>2, <1>3, <1>4, <1>5 DEF a, b, q, r

(* So one sample of a path is next to the one before.                      *)
LEMMA AlongIsNear ==
  ASSUME NEW p \in Pose, NEW d \in Pose, NEW n \in Nat \ {0}, Bounded(d, n), NEW i \in Int
  PROVE  Near(Along(p, d, i - 1, n), Along(p, d, i, n))
<1> DEFINE part(v, j) == (v * j) \div n
<1>1. \A v \in {d.x, d.b, d.c} :
        /\ part(v, i) \in Int /\ part(v, i - 1) \in Int
        /\ part(v, i) - part(v, i - 1) \in -1 .. 1
  <2>1. \A v \in {d.x, d.b, d.c} : v \in Int /\ -n <= v /\ v <= n
    BY DEF Pose, Bounded
  <2> QED  BY <2>1, PartsAreNear
<1>2. \A j : Along(p, d, j, n) =
        [x |-> p.x + part(d.x, j), b |-> p.b + part(d.b, j), c |-> p.c + part(d.c, j)]
  BY DEF Along
<1> HIDE DEF part
<1>3. p.x \in Int /\ p.b \in Int /\ p.c \in Int
  BY DEF Pose
<1> QED  BY <1>1, <1>2, <1>3 DEF Near, Abs, Turn

(* A path begins at its start and ends at its vector.                      *)
LEMMA AlongEnds ==
  ASSUME NEW p \in Pose, NEW d \in Pose, NEW n \in Nat \ {0}
  PROVE  /\ Along(p, d, 0, n) = p
         /\ Along(p, d, n, n) = [x |-> p.x + d.x, b |-> p.b + d.b, c |-> p.c + d.c]
<1>1. \A v \in Int : (v * 0) \div n = 0
  OBVIOUS
<1>2. ASSUME NEW v \in Int PROVE (v * n) \div n = v
  <2> DEFINE a == v * n
             q == a \div n
  <2>1. a \in Int
    OBVIOUS
  <2>2. q \in Int /\ q * n <= a /\ a < q * n + n
    BY <2>1
  <2> HIDE DEF q
  <2>3. ~ v >= q + 1
    <3> SUFFICES ASSUME v >= q + 1 PROVE FALSE
      OBVIOUS
    <3>1. v * n >= (q + 1) * n /\ (q + 1) * n = q * n + n
      BY <2>2
    <3> QED  BY <2>2, <3>1
  <2>4. ~ q >= v + 1
    <3> SUFFICES ASSUME q >= v + 1 PROVE FALSE
      OBVIOUS
    <3>1. q * n >= (v + 1) * n /\ (v + 1) * n = v * n + n
      BY <2>2
    <3> QED  BY <2>2, <3>1
  <2> QED  BY <2>2, <2>3, <2>4 DEF q, a
<1>3. /\ d.x \in Int /\ d.b \in Int /\ d.c \in Int /\ p.x \in Int /\ p.b \in Int /\ p.c \in Int
      /\ p = [x |-> p.x, b |-> p.b, c |-> p.c]
  BY DEF Pose
<1> QED  BY <1>1, <1>2, <1>3 DEF Along

(* No part of a vector is longer than the number of its samples.           *)
LEMMA CombinedBounds ==
  ASSUME NEW d \in Pose
  PROVE  Combined(d) \in Nat /\ Bounded(d, Combined(d))
<1> DEFINE square == d.x * d.x + d.b * d.b + d.c * d.c
           n == Combined(d)
<1>1. d.x \in Int /\ d.b \in Int /\ d.c \in Int
  BY DEF Pose
<1>2. \A a \in Int : a * a \in Nat
  OBVIOUS
<1>3. n \in Nat /\ n * n >= square
  BY CombinedIsNat
<1>4. n * n >= d.x * d.x /\ n * n >= d.b * d.b /\ n * n >= d.c * d.c
  <2>1. d.x * d.x \in Nat /\ d.b * d.b \in Nat /\ d.c * d.c \in Nat /\ n * n \in Nat
    BY <1>1, <1>2, <1>3
  <2> HIDE DEF n
  <2> QED  BY <1>3, <2>1
<1> HIDE DEF n
<1>5. ASSUME NEW a \in Int, n * n >= a * a PROVE -n <= a /\ a <= n
  <2>1. ~ a >= n + 1
    <3> SUFFICES ASSUME a >= n + 1 PROVE FALSE
      OBVIOUS
    <3>1. a * a >= (n + 1) * (n + 1)
      BY <1>3
    <3> QED  BY <1>3, <1>5, <3>1
  <2>2. ~ -a >= n + 1
    <3> SUFFICES ASSUME -a >= n + 1 PROVE FALSE
      OBVIOUS
    <3>1. (-a) * (-a) >= (n + 1) * (n + 1) /\ (-a) * (-a) = a * a
      BY <1>3
    <3> QED  BY <1>3, <1>5, <3>1
  <2> QED  BY <1>3, <2>1, <2>2
<1> QED  BY <1>1, <1>3, <1>4, <1>5 DEF Bounded, n

(* No axis takes more samples than the longest one.                        *)
LEMMA LongestBounds ==
  ASSUME NEW d \in Pose
  PROVE  Longest(d) \in Nat /\ Bounded(d, Longest(d))
<1>1. \E n \in {Abs(d.x), Abs(d.b), Abs(d.c)} : Abs(d.x) <= n /\ Abs(d.b) <= n /\ Abs(d.c) <= n
  BY DEF Pose, Abs
<1>2. /\ Longest(d) \in {Abs(d.x), Abs(d.b), Abs(d.c)}
      /\ Abs(d.x) <= Longest(d) /\ Abs(d.b) <= Longest(d) /\ Abs(d.c) <= Longest(d)
  BY <1>1 DEF Longest
<1> QED  BY <1>2 DEF Pose, Abs, Bounded

(* A rapid turn ends at its target, some full turns away.                  *)
LEMMA RapidArrives ==
  ASSUME NEW xi \in Int, NEW xf \in Int
  PROVE  \E k \in Int : xi + RapidWay(xi, xf, Turn) = xf + 4 * k
<1> DEFINE m == xi \div 4
           cor == xf + m * 4 - xi
           inv == IF cor < 0 THEN cor + 4 ELSE IF cor > 0 THEN cor - 4 ELSE 0
<1>1. m \in Int
  OBVIOUS
<1>2. RapidWay(xi, xf, Turn) = IF Abs(inv) > Abs(cor) THEN cor ELSE inv
  BY DEF RapidWay, Turn
<1>3. RapidWay(xi, xf, Turn) \in {cor, cor + 4, cor - 4}
  <2>1. inv \in {cor, cor + 4, cor - 4}
    OBVIOUS
  <2> HIDE DEF inv, cor
  <2> QED  BY <1>2, <2>1
<1>4. /\ xi + cor = xf + 4 * m
      /\ xi + (cor + 4) = xf + 4 * (m + 1)
      /\ xi + (cor - 4) = xf + 4 * (m - 1)
  <2> HIDE DEF m
  <2> QED  BY <1>1
<1>5. m + 1 \in Int /\ m - 1 \in Int
  BY <1>1
<1> HIDE DEF m, cor, inv
<1> QED  BY <1>1, <1>3, <1>4, <1>5

(* From where a trajectory starts, no sample of it jumps.                  *)
Tracked == {"rapid", "ramp", "interpolated", "arc"}
Follows(p, s) ==
  \A i \in DOMAIN s : s[i].by \in Tracked => Near(IF i = 1 THEN p ELSE s[i - 1].at, s[i].at)

(* A pose is near itself.                                                  *)
LEMMA NearItself == ASSUME NEW p \in Pose PROVE Near(p, p)
  BY DEF Near, Abs, Turn, Pose

(* The same place, some full turns away, is as near.                       *)
LEMMA NearTurned ==
  ASSUME NEW p \in Pose, NEW r \in Pose, NEW q \in Pose, NEW k \in Int, Near(p, r),
         r.x = q.x, r.b = q.b, r.c = q.c + 4 * k
  PROVE  Near(p, q)
<1>1. p.c \in Int /\ q.c \in Int /\ r.c \in Int
  BY DEF Pose
<1>2. p.c - q.c = (p.c - r.c) + 4 * k
  BY <1>1
<1>3. \A a \in Int : (a + 4 * k) % 4 = a % 4
  OBVIOUS
<1>4. (p.c - q.c) % 4 = (p.c - r.c) % 4
  BY <1>1, <1>2, <1>3
<1> QED  BY <1>4 DEF Near, Turn

(* The samples of a rapid move follow each other.                          *)
LEMMA RapidFollows ==
  ASSUME NEW p \in Place, NEW q \in Targets, NEW s \in Rapid(p, q), joints \in Seq(Sample),
         \A i \in DOMAIN s : Allowed(s[i].at)
  PROVE  Follows(p, s)
<1> DEFINE d == RapidPath(p, q)
           n == Longest(d)
           poses == [i \in 1 .. n |-> IF i = n THEN q ELSE Along(p, d, i, n)]
<1>1. p \in Pose /\ q \in Pose
  BY TargetType DEF Rapid, Place
<1>2. d \in Pose /\ n \in Nat /\ Bounded(d, n)
  BY <1>1, PathType, LongestBounds
<1>3. PICK k \in Int : p.c + d.c = q.c + 4 * k
  <2>1. d.c = RapidWay(p.c, q.c, Turn) /\ p.c \in Int /\ q.c \in Int
    BY <1>1 DEF RapidPath, Pose
  <2>2. \E k \in Int : p.c + RapidWay(p.c, q.c, Turn) = q.c + 4 * k
    BY <2>1, RapidArrives
  <2> HIDE DEF d
  <2> QED  BY <2>1, <2>2
<1>4. p.x + d.x = q.x /\ p.b + d.b = q.b
  BY <1>1 DEF RapidPath, Pose
<1>5. CASE n # 0
  <2>1. s = Sampled("rapid", poses)
    BY <1>1, <1>5, PlannerAssumption DEF Rapid
  <2>2. n \in Nat \ {0}
    BY <1>2, <1>5
  <2> HIDE DEF d, n
  <2>3. ASSUME NEW i \in 1 .. n
        PROVE  /\ Along(p, d, i - 1, n) \in Pose /\ Along(p, d, i, n) \in Pose
               /\ Near(Along(p, d, i - 1, n), Along(p, d, i, n))
    BY SMTT(30), <1>1, <1>2, <2>2, AlongType, AlongIsNear
  <2>4. /\ Along(p, d, 0, n) = p
        /\ Along(p, d, n, n) = [x |-> p.x + d.x, b |-> p.b + d.b, c |-> p.c + d.c]
    BY <1>1, <1>2, <2>2, AlongEnds
  <2>5. Near(Along(p, d, n - 1, n), q)
    <3> DEFINE b == Along(p, d, n - 1, n)
               r == Along(p, d, n, n)
    <3>1. n \in 1 .. n
      BY <2>2
    <3>2. b \in Pose /\ r \in Pose /\ Near(b, r)
      BY <2>3, <3>1
    <3>3. r.x = q.x /\ r.b = q.b /\ r.c = q.c + 4 * k
      BY <1>3, <1>4, <2>4
    <3> HIDE DEF b, r
    <3> QED  BY <1>1, <3>2, <3>3, NearTurned DEF b
  <2>6. ASSUME NEW i \in 1 .. n
        PROVE  (IF i = 1 THEN p ELSE poses[i - 1]) = Along(p, d, i - 1, n)
    BY <2>2, <2>4
  <2>7. \A i \in 1 .. n : poses[i] = IF i = n THEN q ELSE Along(p, d, i, n)
    OBVIOUS
  <2>8. DOMAIN poses = 1 .. n
    OBVIOUS
  <2> HIDE DEF poses
  <2>9. DOMAIN s = 1 .. n /\ \A i \in 1 .. n : s[i].at = poses[i]
    BY <2>1, <2>8 DEF Sampled
  <2>10. ASSUME NEW i \in DOMAIN s PROVE Near(IF i = 1 THEN p ELSE s[i - 1].at, s[i].at)
    <3>1. i \in 1 .. n /\ (i # 1 => i - 1 \in 1 .. n)
      BY <2>2, <2>9
    <3>2. (IF i = 1 THEN p ELSE s[i - 1].at) = Along(p, d, i - 1, n)
      BY <2>6, <2>9, <3>1
    <3>3. s[i].at = IF i = n THEN q ELSE Along(p, d, i, n)
      BY <2>7, <2>9, <3>1
    <3> QED  BY <2>3, <2>5, <3>1, <3>2, <3>3
  <2> QED  BY <2>10 DEF Follows
<1>6. CASE n = 0
  <2>1. d.x = 0 /\ d.b = 0 /\ d.c = 0
    BY <1>2, <1>6 DEF Bounded, Pose
  <2>2. Near(p, q)
    <3>1. p.x = q.x /\ p.b = q.b /\ p.c = q.c + 4 * k
      BY <1>1, <1>3, <1>4, <2>1 DEF Pose
    <3> QED  BY <1>1, <3>1, NearItself, NearTurned
  <2>3. \/ s = Sampled("rapid", << q >>) \/ s = Sampled("rapid", << NaN, q >>)
        \/ s = [i \in DOMAIN joints |-> [joints[i] EXCEPT !.by = "again"]]
    BY <1>1, <1>6, PlannerAssumption DEF Rapid
  <2>4. s # Sampled("rapid", << NaN, q >>)
    BY DEF Sampled, Allowed
  <2>5. CASE s = Sampled("rapid", << q >>)
    BY <2>2, <2>5 DEF Sampled, Follows
  <2>6. CASE s = [i \in DOMAIN joints |-> [joints[i] EXCEPT !.by = "again"]]
    <3>1. \A i \in DOMAIN joints : joints[i] \in Sample
      OBVIOUS
    <3>2. \A i \in DOMAIN s : s[i].by = "again"
      BY <2>6, <3>1 DEF Sample
    <3> QED  BY <3>2 DEF Follows, Tracked
  <2> QED  BY <2>3, <2>4, <2>5, <2>6
<1> QED  BY <1>5, <1>6

(* So do those of a straight line.                                         *)
LEMMA LinearFollows ==
  ASSUME NEW p \in Place, NEW q \in Targets, NEW s, s \in Ramp(p, q) \/ s \in Interpolated(p, q),
         \A i \in DOMAIN s : Allowed(s[i].at)
  PROVE  Follows(p, s)
<1> DEFINE d == Path(p, q)
           n == Combined(d)
           ramp  == [i \in 1 .. n |-> Along(p, d, i, n)]
           inter == [i \in 1 .. n |-> Along(p, d, i - 1, n)]
<1>1. CASE s = << >>
  BY <1>1 DEF Follows
<1>2. CASE s # << >>
  <2>1. p \in Pose
    BY <1>2 DEF Ramp, Interpolated, Place
  <2>2. d \in Pose /\ n \in Nat /\ Bounded(d, n)
    BY <2>1, PathType, CombinedBounds
  <2>3. s \in {Sampled("ramp", << NaN >>), Sampled("ramp", ramp), Sampled("interpolated", inter)}
    BY <1>2, <2>1, PlannerAssumption DEF Ramp, Interpolated
  <2>4. s # Sampled("ramp", << NaN >>)
    BY DEF Sampled, Allowed
  <2> HIDE DEF d, n
  <2>5. ASSUME NEW i \in 1 .. n
        PROVE  /\ Along(p, d, i - 1, n) \in Pose /\ Near(Along(p, d, i - 1, n), Along(p, d, i, n))
               /\ Along(p, d, 0, n) = p
    BY <2>1, <2>2, AlongType, AlongIsNear, AlongEnds
  <2>6. CASE s = Sampled("ramp", ramp)
    <3>1. DOMAIN s = 1 .. n /\ \A i \in 1 .. n : s[i].at = Along(p, d, i, n)
      BY <2>6 DEF Sampled
    <3>2. ASSUME NEW i \in DOMAIN s PROVE Near(IF i = 1 THEN p ELSE s[i - 1].at, s[i].at)
      <4>1. (IF i = 1 THEN p ELSE s[i - 1].at) = Along(p, d, i - 1, n)
        BY <2>2, <2>5, <3>1
      <4> QED  BY <2>5, <3>1, <4>1
    <3> QED  BY <3>2 DEF Follows
  <2>7. CASE s = Sampled("interpolated", inter)
    <3>1. DOMAIN s = 1 .. n /\ \A i \in 1 .. n : s[i].at = Along(p, d, i - 1, n)
      BY <2>7 DEF Sampled
    <3>2. ASSUME NEW i \in DOMAIN s PROVE Near(IF i = 1 THEN p ELSE s[i - 1].at, s[i].at)
      <4>1. CASE i = 1
        BY <2>1, <2>5, <3>1, <4>1, NearItself
      <4>2. CASE i # 1
        <5>1. i - 1 \in 1 .. n /\ i \in 1 .. n
          BY <2>2, <3>1, <4>2
        <5> QED  BY <2>5, <3>1, <4>2, <5>1
      <4> QED  BY <4>1, <4>2
    <3> QED  BY <3>2 DEF Follows
  <2> QED  BY <2>3, <2>4, <2>6, <2>7
<1> QED  BY <1>1, <1>2

(* What is computed for a command, if the adapter accepts it, goes on from *)
(* where it starts.                                                        *)
LEMMA TrajectoryFollows ==
  ASSUME NEW k \in Kinds, NEW p \in Place, NEW q \in Targets, joints \in Seq(Sample),
         NEW s \in Trajectories(k, p, q), \A i \in DOMAIN s : Allowed(s[i].at)
  PROVE  Follows(p, s)
<1>1. \/ s \in Rapid(p, q) \/ s \in Ramp(p, q) \/ s \in Interpolated(p, q)
      \/ s \in Arc(p, q) \/ s \in Circle(p) \/ s \in Dwell(p)
  BY DEF Trajectories, Kinds
<1>2. CASE s \in Arc(p, q)
  <2>1. p \in Pose /\ s = Sampled("arc", << p, [p EXCEPT !.x = @ + 1] >>)
    BY <1>2 DEF Arc, Place
  <2>2. DOMAIN s = {1, 2} /\ s[1].at = p /\ s[2].at = [p EXCEPT !.x = @ + 1]
    BY <2>1 DEF Sampled
  <2>3. Near(p, [p EXCEPT !.x = @ + 1])
    BY <2>1 DEF Near, Abs, Turn, Pose
  <2> QED  BY <2>1, <2>2, <2>3, NearItself DEF Follows
<1>3. CASE s \in Circle(p) \/ s \in Dwell(p)
  <2>1. \A i \in DOMAIN s : s[i].by \in {"circle", "dwell"}
    BY <1>3 DEF Circle, Dwell, Sampled
  <2> QED  BY <2>1 DEF Follows, Tracked
<1> QED  BY <1>1, <1>2, <1>3, RapidFollows, LinearFollows

(* An incremental command jumps to zero with its first sample only.        *)
LEMMA CommandedFollows ==
  ASSUME TypeOK, NEW k \in Kinds, NEW inc \in BOOLEAN, NEW q \in Targets,
         NEW s \in Commanded(k, inc, q), \A i \in DOMAIN s : Allowed(s[i].at)
  PROVE  Follows(last, s)
<1>1. last \in Place /\ joints \in Seq(Sample)
  BY DEF TypeOK
<1>2. CASE ~inc
  BY <1>1, <1>2, TrajectoryFollows DEF Commanded
<1>3. CASE inc
  <2>1. PICK t \in Trajectories(k, Zero, q) : s = FromZero(t)
    BY <1>3 DEF Commanded
  <2>2. t \in Seq(Sample)
    BY <1>1, ZeroIsPose, TrajectoriesType
  <2>3. /\ DOMAIN s = DOMAIN t
        /\ \A i \in DOMAIN t : s[i].at = t[i].at
        /\ \A i \in DOMAIN t : i # 1 => s[i] = t[i]
        /\ \A i \in DOMAIN t : i = 1 => s[i].by = "incremental"
    BY <2>1, <2>2, FromZeroType
  <2>4. Follows(Zero, t)
    <3>1. \A i \in DOMAIN t : Allowed(t[i].at)
      BY <2>3
    <3> QED  BY <1>1, <3>1, ZeroIsPose, TrajectoryFollows
  <2>5. ASSUME NEW i \in DOMAIN s, s[i].by \in Tracked
        PROVE  Near(IF i = 1 THEN last ELSE s[i - 1].at, s[i].at)
    <3>0. i \in DOMAIN t /\ s[i].by # "incremental"
      BY <2>3, <2>5 DEF Tracked
    <3>1. i # 1 /\ s[i] = t[i]
      BY <2>3, <3>0
    <3>2. i - 1 \in DOMAIN t
      <4>1. DOMAIN t = 1 .. Len(t) /\ Len(t) \in Nat
        BY <2>2
      <4> QED  BY <2>3, <3>1, <4>1
    <3>3. Near(t[i - 1].at, t[i].at)
      BY <2>3, <2>4, <2>5, <3>1 DEF Follows
    <3>4. s[i - 1].at = t[i - 1].at /\ s[i].at = t[i].at
      BY <2>3, <3>0, <3>2
    <3> QED  BY <3>1, <3>3, <3>4
  <2> QED  BY <2>5 DEF Follows
<1> QED  BY <1>2, <1>3

(* The samples on their way, from a queue q, a plan f and a batch b.       *)
OnTheirWay(q, f, b) == [i \in DOMAIN q |-> f[q[i]]] \o b

(* They are those of the queue, then those of the batch.                   *)
LEMMA OnTheirWayIs ==
  ASSUME NEW f \in Seq(Sample), NEW q \in Seq(1 .. Len(f)), NEW b \in Seq(Sample)
  PROVE  /\ DOMAIN OnTheirWay(q, f, b) = 1 .. Len(q) + Len(b)
         /\ Len(q) \in Nat /\ Len(b) \in Nat
         /\ \A i \in 1 .. Len(q) : OnTheirWay(q, f, b)[i] = f[q[i]]
         /\ \A i \in 1 .. Len(b) : OnTheirWay(q, f, b)[Len(q) + i] = b[i]
<1> DEFINE ahead == [i \in DOMAIN q |-> f[q[i]]]
<1>1. \A i \in DOMAIN q : f[q[i]] \in Sample
  BY ElementOfSeq, LenProperties
<1>2. Len(q) \in Nat /\ Len(b) \in Nat /\ DOMAIN q = 1 .. Len(q)
  BY LenProperties
<1>3. ahead = [i \in 1 .. Len(q) |-> f[q[i]]]
  BY <1>2
<1>4. ahead \in Seq(Sample) /\ Len(ahead) = Len(q) /\ \A i \in 1 .. Len(q) : ahead[i] = f[q[i]]
  BY <1>1, <1>2, <1>3
<1>5. OnTheirWay(q, f, b) = ahead \o b
  BY DEF OnTheirWay
<1> HIDE DEF ahead
<1>6. /\ ahead \o b \in Seq(Sample) /\ Len(ahead \o b) = Len(q) + Len(b)
      /\ \A i \in 1 .. Len(q) + Len(b) :
           (ahead \o b)[i] = IF i <= Len(q) THEN ahead[i] ELSE b[i - Len(q)]
  <2>1. /\ ahead \o b \in Seq(Sample) /\ Len(ahead \o b) = Len(ahead) + Len(b)
        /\ \A i \in 1 .. Len(ahead) + Len(b) :
             (ahead \o b)[i] = IF i <= Len(ahead) THEN ahead[i] ELSE b[i - Len(ahead)]
    BY <1>4, ConcatProperties, Zenon
  <2>2. Len(ahead) = Len(q)
    BY <1>4
  <2> QED  BY <2>1, <2>2, Zenon
<1>7. DOMAIN (ahead \o b) = 1 .. Len(q) + Len(b)
  BY <1>6, LenProperties
<1>8. ASSUME NEW i \in 1 .. Len(q) PROVE (ahead \o b)[i] = f[q[i]]
  <2>1. i \in 1 .. Len(q) + Len(b) /\ i <= Len(q)
    BY <1>2
  <2> QED  BY <1>4, <1>6, <2>1
<1>9. ASSUME NEW i \in 1 .. Len(b) PROVE (ahead \o b)[Len(q) + i] = b[i]
  <2>1. /\ Len(q) + i \in 1 .. Len(q) + Len(b)
        /\ ~ (Len(q) + i <= Len(q)) /\ (Len(q) + i) - Len(q) = i
    BY <1>2
  <2> QED  BY <1>6, <2>1
<1> QED  BY <1>2, <1>5, <1>7, <1>8, <1>9

(* The samples on their way: those of the queue, then those of the batch.  *)
LEMMA WaitingIs ==
  ASSUME TypeOK
  PROVE  /\ DOMAIN Waiting = 1 .. Len(queue) + Len(batch)
         /\ Len(queue) \in Nat /\ Len(batch) \in Nat
         /\ \A i \in 1 .. Len(queue) : Waiting[i] = plan[queue[i]]
         /\ \A i \in 1 .. Len(batch) : Waiting[Len(queue) + i] = batch[i]
<1>1. Waiting = OnTheirWay(queue, plan, batch)
  BY DEF Waiting, OnTheirWay
<1> QED  BY SMTT(30), <1>1, OnTheirWayIs DEF TypeOK

(* So are those after a step.                                              *)
LEMMA WaitingNext ==
  ASSUME TypeOK'
  PROVE  /\ DOMAIN Waiting' = 1 .. Len(queue') + Len(batch')
         /\ Len(queue') \in Nat /\ Len(batch') \in Nat
         /\ \A i \in 1 .. Len(queue') : Waiting'[i] = plan'[queue'[i]]
         /\ \A i \in 1 .. Len(batch') : Waiting'[Len(queue') + i] = batch'[i]
<1>1. Waiting' = OnTheirWay(queue', plan', batch')
  BY DEF Waiting, OnTheirWay
<1> QED  BY SMTT(30), <1>1, OnTheirWayIs DEF TypeOK

(* The last of them is where the joints will be.                           *)
LEMMA EndIs ==
  ASSUME TypeOK
  PROVE  End = IF DOMAIN Waiting = {} THEN pose ELSE Waiting[Len(queue) + Len(batch)].at
<1>1. /\ (batch = << >> <=> Len(batch) = 0) /\ (queue = << >> <=> Len(queue) = 0)
  BY EmptySeq DEF TypeOK
<1>2. CASE batch # << >>
  <2>1. Len(batch) \in 1 .. Len(batch)
    BY <1>1, <1>2, WaitingIs
  <2> QED  BY <1>2, <2>1, WaitingIs DEF End
<1>3. CASE batch = << >> /\ queue # << >>
  <2>1. Len(queue) \in 1 .. Len(queue) /\ Len(batch) = 0
    BY <1>1, <1>3, WaitingIs
  <2> QED  BY <1>3, <2>1, WaitingIs DEF End
<1>4. CASE batch = << >> /\ queue = << >>
  <2>1. DOMAIN Waiting = {}
    BY <1>1, <1>4, WaitingIs
  <2> QED  BY <1>4, <2>1 DEF End
<1> QED  BY <1>2, <1>3, <1>4

(* A push moves the first sample of the batch behind those of the queue.   *)
LEMMA PushKeepsWaiting ==
  ASSUME TypeOK, TypeOK', PushSample
  PROVE  /\ DOMAIN Waiting' = DOMAIN Waiting
         /\ \A i \in DOMAIN Waiting : Waiting'[i] = Waiting[i]
<1>1. /\ made' = made + 1 /\ plan'[made'] = Head(batch)
      /\ \A m \in 1 .. made : plan'[m] = plan[m]
      /\ queue' = Append(queue, made')
  BY PushKeepsType
<1>2. batch # << >> /\ batch' = Tail(batch)
  BY DEF PushSample
<1>3. /\ Len(batch') = Len(batch) - 1 /\ Head(batch) = batch[1] /\ Len(batch) \in Nat \ {0}
      /\ \A i \in 1 .. Len(batch) - 1 : batch'[i] = batch[i + 1]
  BY <1>2, HeadTailProperties, EmptySeq, LenProperties DEF TypeOK
<1>4. /\ Len(queue') = Len(queue) + 1 /\ queue'[Len(queue) + 1] = made'
      /\ \A i \in 1 .. Len(queue) : queue'[i] = queue[i] /\ queue[i] \in 1 .. made
  <2>1. made \in Nat /\ queue \in Seq(1 .. made)
    BY LenProperties DEF TypeOK
  <2>2. 1 .. made \subseteq Nat /\ made' \in Nat
    BY <1>1, <2>1
  <2>3. queue \in Seq(Nat)
    BY <2>1, <2>2, SeqMonotonic
  <2>4. /\ Len(queue') = Len(queue) + 1 /\ queue'[Len(queue) + 1] = made'
        /\ \A i \in 1 .. Len(queue) : queue'[i] = queue[i]
    BY <1>1, <2>2, <2>3, AppendProperties
  <2> QED  BY <2>1, <2>4, ElementOfSeq
<1>5. DOMAIN Waiting' = DOMAIN Waiting
  BY <1>3, <1>4, WaitingIs, WaitingNext
<1>6. ASSUME NEW i \in 1 .. Len(queue) PROVE Waiting'[i] = Waiting[i]
  BY SMTT(30), <1>1, <1>4, WaitingIs, WaitingNext
<1>7. Waiting'[Len(queue) + 1] = Waiting[Len(queue) + 1]
  <2>1. Len(queue) + 1 \in 1 .. Len(queue') /\ 1 \in 1 .. Len(batch)
    BY <1>3, <1>4, WaitingIs
  <2>2. Waiting'[Len(queue) + 1] = plan'[queue'[Len(queue) + 1]]
    BY <2>1, WaitingNext
  <2>3. Waiting[Len(queue) + 1] = batch[1]
    BY <2>1, WaitingIs
  <2> QED  BY <1>1, <1>3, <1>4, <2>2, <2>3
<1>8. ASSUME NEW i \in 1 .. Len(batch) - 1
      PROVE  Waiting'[Len(queue) + 1 + i] = Waiting[Len(queue) + 1 + i]
  <2>1. i \in 1 .. Len(batch') /\ i + 1 \in 1 .. Len(batch)
    BY <1>3
  <2>2. Waiting'[Len(queue') + i] = batch'[i] /\ Waiting[Len(queue) + (i + 1)] = batch[i + 1]
    BY <2>1, WaitingIs, WaitingNext
  <2>3. Len(queue') + i = Len(queue) + 1 + i /\ Len(queue) + (i + 1) = Len(queue) + 1 + i
    BY <1>4, WaitingIs
  <2> QED  BY <1>3, <2>2, <2>3
<1>9. ASSUME NEW i \in DOMAIN Waiting PROVE Waiting'[i] = Waiting[i]
  <2>1. CASE i <= Len(queue) + 1
    BY <1>6, <1>7, <2>1, WaitingIs
  <2>2. CASE i > Len(queue) + 1
    <3>1. /\ i - (Len(queue) + 1) \in 1 .. Len(batch) - 1
          /\ Len(queue) + 1 + (i - (Len(queue) + 1)) = i
      BY <2>2, WaitingIs
    <3> QED  BY <1>8, <3>1
  <2> QED  BY <2>1, <2>2, WaitingIs
<1> QED  BY <1>5, <1>9

(* A tick takes the first sample away, and the joints there.               *)
LEMMA TickShifts ==
  ASSUME TypeOK, TypeOK', Tick
  PROVE  /\ 1 \in DOMAIN Waiting /\ pose' = Waiting[1].at
         /\ \A i \in DOMAIN Waiting' : i + 1 \in DOMAIN Waiting /\ Waiting'[i] = Waiting[i + 1]
<1>1. /\ queue # << >> /\ pose' = plan[Head(queue)].at
      /\ queue' = Tail(queue) /\ UNCHANGED <<plan, batch>>
  BY TickKeepsType DEF planVars
<1>2. /\ Len(queue') = Len(queue) - 1 /\ Head(queue) = queue[1] /\ Len(queue) \in Nat \ {0}
      /\ \A i \in 1 .. Len(queue) - 1 : queue'[i] = queue[i + 1]
  BY <1>1, HeadTailProperties, EmptySeq, LenProperties DEF TypeOK
<1>3. 1 \in DOMAIN Waiting /\ Waiting[1] = plan[queue[1]]
  BY <1>2, WaitingIs
<1>4. ASSUME NEW i \in DOMAIN Waiting'
      PROVE  i + 1 \in DOMAIN Waiting /\ Waiting'[i] = Waiting[i + 1]
  <2>1. i + 1 \in DOMAIN Waiting /\ i \in Nat \ {0}
    BY <1>1, <1>2, WaitingIs, WaitingNext
  <2>2. CASE i <= Len(queue) - 1
    <3>1. i \in 1 .. Len(queue') /\ i + 1 \in 1 .. Len(queue)
      BY <1>2, <2>1, <2>2
    <3>2. Waiting'[i] = plan'[queue'[i]] /\ Waiting[i + 1] = plan[queue[i + 1]]
      BY <3>1, WaitingIs, WaitingNext
    <3> QED  BY <1>1, <1>2, <2>1, <2>2, <3>1, <3>2
  <2>3. CASE i > Len(queue) - 1
    <3> DEFINE j == i - (Len(queue) - 1)
    <3>1. j \in 1 .. Len(batch) /\ Len(queue') + j = i /\ Len(queue) + j = i + 1
      BY <1>1, <1>2, <2>1, <2>3, WaitingIs, WaitingNext
    <3>2. Waiting'[Len(queue') + j] = batch'[j] /\ Waiting[Len(queue) + j] = batch[j]
      BY <1>1, <3>1, WaitingIs, WaitingNext
    <3> QED  BY <1>1, <2>1, <3>1, <3>2
  <2> QED  BY <1>2, <2>1, <2>2, <2>3
<1> QED  BY <1>1, <1>2, <1>3, <1>4

(* An accepted batch comes behind the samples of the queue, and begins     *)
(* where they end.                                                         *)
LEMMA AcceptedFollows ==
  ASSUME TypeOK, TypeOK', batch = << >>, UNCHANGED <<queue, plan, pose>>,
         Follows(End, batch'), ~cut' => queue = << >> \/ (~lost /\ ~cut), SmoothPath
  PROVE  SmoothPath'
<1> SUFFICES ASSUME ~cut', NEW i \in DOMAIN Waiting', Waiting'[i].by \in Tracked
             PROVE  Near((IF i = 1 THEN pose ELSE Waiting'[i - 1].at), Waiting'[i].at)
  BY DEF SmoothPath, Tracked, Before
<1>1. Len(batch) = 0
  BY EmptySeq DEF TypeOK
<1>4. queue' = queue /\ plan' = plan /\ pose' = pose
  OBVIOUS
<1>5. /\ Len(queue) \in Nat /\ Len(batch') \in Nat /\ i \in 1 .. Len(queue) + Len(batch')
      /\ \A m \in 1 .. Len(queue) : Waiting'[m] = Waiting[m] /\ m \in DOMAIN Waiting
      /\ \A m \in 1 .. Len(batch') : Waiting'[Len(queue) + m] = batch'[m]
  BY <1>1, <1>4, WaitingIs, WaitingNext
<1>2. CASE i <= Len(queue)
  <2>1. i \in DOMAIN Waiting /\ Waiting'[i] = Waiting[i] /\ queue # << >>
    BY <1>1, <1>2, <1>5, EmptySeq
  <2>2. i # 1 => Waiting'[i - 1] = Waiting[i - 1]
    <3>1. i # 1 => i - 1 \in 1 .. Len(queue)
      BY <1>2, <1>5
    <3> QED  BY <1>5, <3>1
  <2>3. Near(Before(i), Waiting[i].at)
    BY <2>1 DEF SmoothPath, Tracked
  <2> QED  BY <2>1, <2>2, <2>3 DEF Before
<1>3. CASE i > Len(queue)
  <2> DEFINE j == i - Len(queue)
  <2>1. j \in 1 .. Len(batch') /\ Len(queue) + j = i /\ Waiting'[i] = batch'[j]
    <3>1. j \in 1 .. Len(batch') /\ Len(queue) + j = i
      BY <1>3, <1>5
    <3> HIDE DEF j
    <3> QED  BY <1>5, <3>1
  <2>2. j \in DOMAIN batch'
    BY <2>1, LenProperties DEF TypeOK
  <2>3. Near((IF j = 1 THEN End ELSE batch'[j - 1].at), batch'[j].at)
    BY <2>1, <2>2 DEF Follows
  <2>4. CASE j # 1
    <3>1. j - 1 \in 1 .. Len(batch') /\ i # 1 /\ Len(queue) + (j - 1) = i - 1
      BY SMTT(30), <1>5, <2>1, <2>4
    <3>2. Waiting'[i - 1] = batch'[j - 1]
      BY <1>5, <3>1
    <3> QED  BY <2>1, <2>3, <2>4, <3>1, <3>2
  <2>5. CASE j = 1
    <3>1. End = IF i = 1 THEN pose ELSE Waiting'[i - 1].at
      <4>1. CASE Len(queue) = 0
        BY <1>1, <2>1, <2>5, <4>1, EndIs, WaitingIs
      <4>2. CASE Len(queue) # 0
        <5>1. i - 1 = Len(queue) /\ Len(queue) \in 1 .. Len(queue) /\ i # 1
          BY <2>1, <2>5, <4>2, WaitingIs
        <5>2. Waiting'[Len(queue)] = Waiting[Len(queue)] /\ End = Waiting[Len(queue)].at
          BY <1>1, <5>1, EndIs, WaitingIs, WaitingNext
        <5> QED  BY <5>1, <5>2
      <4> QED  BY <4>1, <4>2
    <3> QED  BY <2>1, <2>3, <2>5, <3>1
  <2> QED  BY <2>4, <2>5
<1> QED  BY <1>2, <1>3, <1>5

(* Every step keeps the path smooth.                                       *)
LEMMA SmoothStep == TypeOK /\ WithinLimits /\ PlanInv /\ SmoothPath /\ [Next]_vars => SmoothPath'
<1> SUFFICES ASSUME TypeOK, WithinLimits, PlanInv, SmoothPath, [Next]_vars PROVE SmoothPath'
  OBVIOUS
<1>t. TypeOK'
  BY TypeStep
<1>1. ASSUME NEW k \in Kinds, NEW inc \in BOOLEAN, NEW q \in Targets, Interpret(k, inc, q)
      PROVE  SmoothPath'
  <2>1. PICK s \in Commanded(k, inc, q) :
          \/ s = << >> /\ UNCHANGED <<last, batch, lost, cut>>
          \/ /\ s # << >>
             /\ last' = s[Len(s)].at
             /\ IF \A i \in DOMAIN s : Allowed(s[i].at)
                THEN batch' = s /\ Accepted
                ELSE lost' = TRUE /\ UNCHANGED <<batch, cut>>
    BY <1>1 DEF Interpret
  <2>2. batch = << >> /\ UNCHANGED <<queue, plan, pose>>
    BY <1>1 DEF Interpret, Receive, pipeVars, simVars
  <2>3. CASE batch' = s /\ Accepted /\ \A i \in DOMAIN s : Allowed(s[i].at)
    <3>1. CASE cut'
      BY <3>1 DEF SmoothPath
    <3>2. CASE ~cut'
      <4>1. ~lost /\ (queue = << >> \/ ~cut)
        BY <2>3, <3>2 DEF Accepted
      <4>2. last = End
        BY <4>1 DEF PlanInv, PlanContinues
      <4>3. Follows(last, s)
        BY <2>3, CommandedFollows
      <4> QED  BY <1>t, <2>2, <2>3, <4>1, <4>2, <4>3, AcceptedFollows
    <3> QED  BY <3>1, <3>2
  <2>4. CASE lost' = TRUE
    BY <2>4 DEF SmoothPath
  <2>5. CASE UNCHANGED <<last, batch, lost, cut>>
    BY <2>2, <2>5 DEF SmoothPath, Waiting, Before
  <2> QED  BY <2>1, <2>3, <2>4, <2>5
<1>2. CASE PushSample
  <2>1. UNCHANGED <<pose, lost, cut>>
    BY <1>2 DEF PushSample, simVars
  <2>2. /\ DOMAIN Waiting' = DOMAIN Waiting
        /\ \A i \in DOMAIN Waiting : Waiting'[i] = Waiting[i]
    BY <1>t, <1>2, PushKeepsWaiting
  <2>3. ASSUME NEW i \in DOMAIN Waiting, i # 1 PROVE Waiting'[i - 1] = Waiting[i - 1]
    <3>1. i - 1 \in DOMAIN Waiting
      BY <2>3, WaitingIs
    <3> QED  BY <2>2, <3>1
  <2> QED  BY <2>1, <2>2, <2>3 DEF SmoothPath, Before
<1>3. CASE Tick
  <2>1. UNCHANGED <<lost, cut>>
    BY <1>3 DEF Tick
  <2>2. /\ 1 \in DOMAIN Waiting /\ pose' = Waiting[1].at
        /\ \A i \in DOMAIN Waiting' : i + 1 \in DOMAIN Waiting /\ Waiting'[i] = Waiting[i + 1]
    BY <1>t, <1>3, TickShifts
  <2>3. ASSUME NEW i \in DOMAIN Waiting' PROVE Before(i)' = Before(i + 1)
    <3>0. i \in Nat \ {0}
      BY <1>t, WaitingNext
    <3>1. CASE i = 1
      BY <2>2, <3>1 DEF Before
    <3>2. CASE i # 1
      <4>1. i - 1 \in DOMAIN Waiting' /\ (i - 1) + 1 = i /\ i + 1 # 1 /\ (i + 1) - 1 = i
        BY <1>t, <3>0, <3>2, WaitingNext
      <4>2. Waiting'[i - 1] = Waiting[i]
        BY <2>2, <4>1
      <4> QED  BY <3>2, <4>1, <4>2 DEF Before
    <3> QED  BY <3>1, <3>2
  <2> QED  BY <2>1, <2>2, <2>3 DEF SmoothPath
<1>4. CASE WriteFails \/ Drain \/ ResetJoints
  BY <1>4 DEF WriteFails, Drain, ResetJoints, SmoothPath
<1>5. CASE Launch
  <2>1. (queue # << >> => lost') /\ UNCHANGED <<batch, queue>> /\ batch = << >>
    BY <1>5 DEF Launch, pipeVars, PlanInv
  <2>2. CASE queue # << >>
    BY <2>1, <2>2 DEF SmoothPath
  <2>3. CASE queue = << >>
    <3>1. DOMAIN Waiting' = {}
      BY <1>t, <2>1, <2>3, WaitingNext, EmptySeq
    <3> QED  BY <3>1 DEF SmoothPath
  <2> QED  BY <2>2, <2>3
<1>6. CASE Refuse \/ SimulationEnded \/ StopServer \/ UNCHANGED vars
  BY <1>6
  DEF Refuse, SimulationEnded, StopServer, vars, planVars, pipeVars, simVars,
      SmoothPath, Waiting, Before
<1> QED  BY <1>1, <1>2, <1>3, <1>4, <1>5, <1>6 DEF Next, Simulation

(* No joint jumps from one sample to the next, for every target, limit and *)
(* number of commands, while nothing is lost.                              *)
THEOREM SmoothPathHolds == Spec => []SmoothPath
<1>1. Init => PlanInv /\ SmoothPath
  <2> SUFFICES ASSUME Init PROVE PlanInv /\ SmoothPath
    OBVIOUS
  <2>1. PlanInv
    BY DEF Init, Pipe!Init, PlanInv, PlanContinues, End
  <2>2. DOMAIN Waiting = {}
    BY TypeInit, WaitingIs, EmptySeq DEF Init, Pipe!Init
  <2> QED  BY <2>1, <2>2 DEF SmoothPath
<1> QED
  BY <1>1, TypeInit, TypeStep, LimitsInit, LimitsStep, PlanStep, SmoothStep, PTL DEF Spec

-----------------------------------------------------------------------------
(***************************************************************************)
(* Why the joints end where the Listener believes them: what is on its way *)
(* is counted, and nothing is left when it is used up.  (That it is used   *)
(* up is the run's HeadCatchesUp, which needs fairness.)                   *)
(***************************************************************************)

(* A sample that is accepted is still pushed and then written.             *)
ToCome == 2 * Len(batch) + Len(queue)

(* The joints are where the Listener believes them once nothing is on its  *)
(* way, unless something was lost.                                         *)
CaughtUp == ToCome = 0 => lost \/ pose = last

(* It says so for every target and limit.                                  *)
THEOREM CaughtUpHolds == Spec => []CaughtUp
<1>1. TypeOK /\ PlanContinues => CaughtUp
  <2> SUFFICES ASSUME TypeOK, PlanContinues, ToCome = 0, ~ lost PROVE pose = last
    BY DEF CaughtUp
  <2>1. /\ batch \in Seq(Sample) /\ queue \in Seq(1 .. made)
        /\ Len(batch) \in Nat /\ Len(queue) \in Nat
    BY DEF TypeOK
  <2>2. Len(batch) = 0 /\ Len(queue) = 0
    BY <2>1 DEF ToCome
  <2> QED  BY <2>1, <2>2, EmptySeq DEF PlanContinues, End
<1> QED  BY <1>1, TypeCorrect, PlanContinuesHolds, PTL

(* A push and a tick bring the last sample nearer, and only a new command  *)
(* puts it off.                                                            *)
SamplesRunOut ==
  [][/\ PushSample \/ Tick => ToCome' < ToCome
     /\ (\A k \in Kinds, inc \in BOOLEAN, q \in Targets : ~ Interpret(k, inc, q)) => ToCome' <= ToCome]_vars

(* The samples of a command take a bounded number of pushes and ticks.     *)
THEOREM SamplesRunOutHolds == Spec => SamplesRunOut
<1>1. TypeOK /\ WithinLimits /\ [Next]_vars =>
        [/\ PushSample \/ Tick => ToCome' < ToCome
         /\ (\A k \in Kinds, inc \in BOOLEAN, q \in Targets : ~ Interpret(k, inc, q)) => ToCome' <= ToCome]_vars
  <2> SUFFICES ASSUME TypeOK, WithinLimits, Next
               PROVE  /\ PushSample \/ Tick => ToCome' < ToCome
                      /\ (\A k \in Kinds, inc \in BOOLEAN, q \in Targets : ~ Interpret(k, inc, q)) => ToCome' <= ToCome
    OBVIOUS
  <2>0. /\ batch \in Seq(Sample) /\ queue \in Seq(1 .. made) /\ made \in Nat
        /\ Len(batch) \in Nat /\ Len(queue) \in Nat
    BY DEF TypeOK
  <2>6. ToCome \in Int /\ ToCome' \in Int
    BY <2>0, TypeStep DEF ToCome, TypeOK
  <2>1. ASSUME PushSample PROVE ToCome' < ToCome
    <3>1. Len(batch') = Len(batch) - 1
      BY <2>0, <2>1, HeadTailProperties DEF PushSample
    <3>2. Len(queue') = Len(queue) + 1
      <4>1. made' \in Nat /\ queue \in Seq(Nat)
        <5>1. 1 .. made \subseteq Nat
          OBVIOUS
        <5> QED  BY <2>0, <2>1, <5>1, SeqMonotonic DEF PushSample, Pipe!Make
      <4> QED  BY <2>1, <4>1, AppendProperties DEF PushSample, Pipe!Make
    <3> QED  BY <2>0, <3>1, <3>2 DEF ToCome
  <2>2. ASSUME Pipe!Leave, UNCHANGED batch PROVE ToCome' < ToCome
    <3>1. queue # << >> /\ Len(queue) # 0
      BY <2>0, <2>2, EmptySeq DEF Pipe!Leave, Pipe!Actuate, Pipe!DiscardFirst, Pipe!DiscardAll
    <3>2. CASE queue' = << >>
      <4>1. Len(queue') = 0
        BY <3>2
      <4> QED  BY <2>0, <2>2, <3>1, <4>1 DEF ToCome
    <3>3. CASE queue' = Tail(queue)
      <4>1. Len(queue') = Len(queue) - 1
        BY <2>0, <3>1, <3>3, HeadTailProperties
      <4> QED  BY <2>0, <2>2, <4>1 DEF ToCome
    <3> QED
      BY <2>2, <3>2, <3>3 DEF Pipe!Leave, Pipe!Actuate, Pipe!DiscardFirst, Pipe!DiscardAll
  <2>3. ASSUME Tick \/ WriteFails \/ Drain PROVE ToCome' < ToCome
    BY <2>2, <2>3 DEF Tick, WriteFails, Drain, Pipe!Leave, planVars
  <2>4. ASSUME UNCHANGED <<batch, queue>> PROVE ToCome' = ToCome
    BY <2>4 DEF ToCome
  <2>5. CASE Refuse \/ SimulationEnded \/ ResetJoints \/ StopServer \/ Launch
    <3>1. UNCHANGED <<batch, queue>>
      BY <2>5 DEF Refuse, SimulationEnded, ResetJoints, StopServer, Launch, planVars, pipeVars
    <3>2. ~ PushSample /\ ~ Tick
      BY <2>1, <2>3, <2>4, <2>6, <3>1
    <3> QED  BY <2>0, <2>4, <3>1, <3>2 DEF ToCome
  <2> QED  BY <2>1, <2>3, <2>5, <2>6 DEF Next, Simulation
<1> QED  BY <1>1, TypeInit, TypeStep, LimitsInit, LimitsStep, PTL DEF Spec, SamplesRunOut
=============================================================================
