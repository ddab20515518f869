------------------------- MODULE LocalPlaybackProofs -------------------------
(***************************************************************************)
(* Proofs about LocalPlayback, for any programs, poses, number of joints   *)
(* and number of clicks, and any distance the clock is set back.           *)
(***************************************************************************)
EXTENDS LocalPlayback, TLAPS

(* A playback has something to play.                                       *)
NotEmpty == running => moves # << >>

(* The self-test has all joints or no program, and nobody clicks.          *)
SelfTestReady == selfTest => handles = Axes \/ moves = << >>

(* While the self-test plays, the joints are where its last move left      *)
(* them: the end of a simulation takes them away, but the next one starts  *)
(* the playback from its first move.                                       *)
JointsFollow ==
  selfTest /\ running /\ simulating /\ index > 1 => joints = AllAt(moves[index - 1])

PlayInv == TypeOK /\ PlaysInOrder /\ NotEmpty /\ SelfTestReady /\ JointsFollow

-----------------------------------------------------------------------------
(* TypeOK in two parts, for provers that are good at one of them.          *)
FlagsOK ==
  /\ simulating \in BOOLEAN /\ running \in BOOLEAN /\ paused \in BOOLEAN
  /\ root \in BOOLEAN /\ selfTest \in BOOLEAN
  /\ paused => running

DataOK ==
  /\ waited \in -MaxSetBack .. Longest /\ period \in Periods
  /\ moves \in Programs \cup {TestProgram, << >>} /\ index \in 1 .. Len(moves) + 1
  /\ handles \in 0 .. Axes
  /\ joints \in [1 .. Axes -> Poses] /\ saved \in [1 .. Axes -> Poses]
  /\ result \in {"none", "ok", "failed"}

LEMMA TypeParts == TypeOK <=> FlagsOK /\ DataOK
  BY Zenon DEF TypeOK, FlagsOK, DataOK

LEMMA TypePartsNext == TypeOK' <=> (FlagsOK /\ DataOK)'
  BY Zenon DEF TypeOK, FlagsOK, DataOK

LEMMA Constants ==
  /\ Longest \in Nat \ {0} /\ Longest \in Periods
  /\ MaxSetBack \in Nat /\ MaxClicks \in Nat /\ Axes \in Nat \ {0, 1}
  /\ Programs \cup {TestProgram, << >>} \subseteq Seq(Poses)
  /\ Periods \subseteq Nat /\ HomePose \in Poses
  /\ TestProgram # << >> /\ << >> \notin Programs
<1>1. Longest \in Periods
  BY PlaybackAssumption DEF Longest
<1>2. /\ MaxSetBack \in Nat /\ MaxClicks \in Nat /\ Axes \in Nat \ {0, 1}
      /\ Periods \subseteq Nat \ {0} /\ HomePose \in Poses
      /\ Programs \subseteq Seq(Poses) \ {<< >>} /\ TestProgram \in Seq(Poses) \ {<< >>}
  BY Zenon, PlaybackAssumption
<1>3. << >> \in Seq(Poses)
  OBVIOUS
<1> QED BY <1>1, <1>2, <1>3

LEMMA MovesType ==
  ASSUME TypeOK
  PROVE  /\ moves \in Seq(Poses)
         /\ Len(moves) \in Nat
         /\ index \in Nat \ {0} /\ index <= Len(moves) + 1
         /\ index <= Len(moves) => moves[index] \in Poses
  BY Constants DEF TypeOK

LEMMA WriteJointsType ==
  ASSUME TypeOK, NEW p \in Poses, WriteJoints(p)
  PROVE  /\ joints' \in [1 .. Axes -> Poses]
         /\ Applies(p) => joints' = AllAt(p)
  BY SMTT(30), Constants DEF TypeOK, WriteJoints, Applies, AllAt

LEMMA AllAtType ==
  ASSUME NEW p \in Poses
  PROVE  AllAt(p) \in [1 .. Axes -> Poses]
  BY DEF AllAt

LEMMA AdvanceType ==
  ASSUME TypeOK, NEW from \in -MaxSetBack .. Longest, Advance(from)
  PROVE  /\ waited' \in -MaxSetBack .. Longest
         /\ simulating' = simulating /\ period' = period
  BY Constants DEF Advance

(* Playing one more move.                                                  *)
LEMMA OneMoreMove ==
  ASSUME NEW S, NEW seq \in Seq(S), NEW i \in 1 .. Len(seq)
  PROVE  Append(SubSeq(seq, 1, i - 1), seq[i]) = SubSeq(seq, 1, (i + 1) - 1)
  OBVIOUS

LEMMA StartPlaybackStep ==
  ASSUME PlayInv, NEW t \in -MaxSetBack .. Longest, StartPlayback(t),
         UNCHANGED <<moves, handles, selfTest>>
  PROVE  /\ waited' \in -MaxSetBack .. Longest
         /\ index' \in 1 .. Len(moves') + 1
         /\ running' \in BOOLEAN /\ paused' \in BOOLEAN
         /\ result' \in {"none", "ok", "failed"}
         /\ paused' => running'
         /\ PlaysInOrder' /\ NotEmpty' /\ SelfTestReady'
         /\ running' => index' = 1
<1>1. SelfTestReady'
  BY DEF PlayInv, SelfTestReady
<1>2. CASE moves = << >> \/ handles = 0
  BY <1>1, <1>2, MovesType
  DEF StartPlayback, Fail, WriteSelfTest, PlayInv, TypeOK, PlaysInOrder, NotEmpty
<1>3. CASE ~ (moves = << >> \/ handles = 0)
  <2>1. SubSeq(moves, 1, 0) = << >>
    BY MovesType DEF PlayInv
  <2>2. /\ index' = 1 /\ running' = TRUE /\ paused' = FALSE
        /\ waited' = 0 /\ played' = << >> /\ result' = result
    BY <1>3 DEF StartPlayback
  <2>3. PlaysInOrder' /\ NotEmpty'
    BY <1>3, <2>1, <2>2 DEF PlaysInOrder, NotEmpty
  <2>4. waited' \in -MaxSetBack .. Longest /\ index' \in 1 .. Len(moves') + 1
    BY <2>2, MovesType, Constants DEF PlayInv
  <2> QED BY <1>1, <2>2, <2>3, <2>4 DEF PlayInv, TypeOK
<1> QED BY <1>2, <1>3

LEMMA InitPlay == Init => PlayInv
<1> SUFFICES ASSUME Init PROVE PlayInv
  OBVIOUS
<1>1. waited \in -MaxSetBack .. Longest /\ period \in Periods
  BY Constants, PlaybackAssumption DEF Init
<1>2. joints \in [1 .. Axes -> Poses] /\ saved \in [1 .. Axes -> Poses]
  BY Constants, AllAtType DEF Init
<1>3. moves \in Programs \cup {TestProgram, << >>} /\ index \in 1 .. Len(moves) + 1
  BY Constants DEF Init
<1>4. /\ root \in BOOLEAN /\ selfTest \in BOOLEAN /\ handles \in 0 .. Axes
      /\ result \in {"none", "ok", "failed"}
  <2>1. Axes \in 0 .. Axes /\ 0 \in 0 .. Axes
    BY Constants
  <2> QED BY <2>1, Zenon DEF Init
<1>5. TypeOK
  <2>1. FlagsOK
    BY <1>4, Zenon DEF Init, FlagsOK
  <2>2. DataOK
    BY <1>1, <1>2, <1>3, <1>4 DEF DataOK
  <2> QED BY <2>1, <2>2, TypeParts
<1>6. SelfTestReady
  BY DEF Init, SelfTestReady
<1> QED BY <1>5, <1>6 DEF Init, PlayInv, PlaysInOrder, NotEmpty, JointsFollow

-----------------------------------------------------------------------------
(* The buttons.  None of them acts in a self-test.                         *)
LEMMA FailType ==
  ASSUME TypeOK, Fail
  PROVE  running' = FALSE /\ paused' = FALSE /\ result' \in {"none", "ok", "failed"}
  BY DEF TypeOK, Fail, WriteSelfTest

LEMMA WindowStep ==
  ASSUME PlayInv, Window
  PROVE  PlayInv'
<1>0. selfTest = FALSE /\ selfTest' = selfTest
  BY DEF Window, Click, BuildScene, Open, OpenFails, Start, Pause, Resume, Stop, Manual, Speed,
         PlayInv, TypeOK
<1> USE <1>0
<1>1. CASE BuildScene
  <2>1. TypeOK'
    <3>1. FlagsOK'
      BY <1>1, FailType, Zenon DEF BuildScene, PlayInv, TypeOK, timeVars, FlagsOK
    <3>2. Axes \in 0 .. Axes /\ AllAt(HomePose) \in [1 .. Axes -> Poses]
      BY Constants, AllAtType
    <3>3. result' \in {"none", "ok", "failed"}
      BY <1>1, FailType, Zenon DEF BuildScene, PlayInv, TypeOK
    <3>4. DataOK'
      BY <1>1, <3>2, <3>3 DEF BuildScene, PlayInv, TypeOK, DataOK, timeVars
    <3> QED BY <3>1, <3>4, TypePartsNext
  <2>2. running' => running
    BY <1>1, FailType DEF BuildScene, PlayInv
  <2>3. UNCHANGED <<moves, index, played>>
    BY <1>1 DEF BuildScene
  <2> QED BY <2>1, <2>2, <2>3 DEF PlayInv, PlaysInOrder, NotEmpty, SelfTestReady, JointsFollow
<1>2. CASE \E program \in Programs \cup {TestProgram} : Open(program)
  <2>1. PICK program \in Programs \cup {TestProgram} : Open(program)
    BY <1>2
  <2>2. Len(program) \in Nat
    BY Constants
  <2>3. moves' = program /\ index' = 1 /\ running' = FALSE /\ paused' = FALSE
    BY <2>1 DEF Open
  <2>4. TypeOK'
    <3>1. FlagsOK'
      BY <2>1, <2>3, Zenon DEF Open, PlayInv, TypeOK, timeVars, sceneVars, FlagsOK
    <3>2. DataOK'
      BY <2>1, <2>2, <2>3 DEF Open, PlayInv, TypeOK, timeVars, sceneVars, DataOK
    <3> QED BY <3>1, <3>2, TypePartsNext
  <2> QED BY <2>3, <2>4 DEF PlayInv, PlaysInOrder, NotEmpty, SelfTestReady, JointsFollow
<1>3. CASE OpenFails
  <2>1. TypeOK' /\ running' = FALSE
    BY <1>3, FailType DEF OpenFails, PlayInv, TypeOK, timeVars, sceneVars
  <2> QED BY <2>1 DEF PlayInv, PlaysInOrder, NotEmpty, SelfTestReady, JointsFollow
<1>4. CASE Start
  <2>1. waited \in -MaxSetBack .. Longest
    BY DEF PlayInv, TypeOK
  <2>2. UNCHANGED <<simulating, period, moves, root, handles, joints, saved>>
    BY <1>4 DEF Start, sceneVars
  <2>3. StartPlayback(waited)
    BY <1>4 DEF Start
  <2>4. TypeOK' /\ PlaysInOrder' /\ NotEmpty' /\ SelfTestReady'
    BY <2>1, <2>2, <2>3, StartPlaybackStep DEF PlayInv, TypeOK
  <2> QED BY <2>4 DEF PlayInv, JointsFollow
<1>5. CASE Pause \/ Resume \/ (\E p \in Periods : Speed(p))
  <2>1. UNCHANGED <<moves, index, running, played, simulating, root, handles, joints, saved, result>>
    BY <1>5 DEF Pause, Resume, Speed, timeVars, sceneVars, playVars
  <2>2. paused' \in BOOLEAN /\ (paused' => running') /\ period' \in Periods
    <3>1. CASE Pause
      BY <3>1, Zenon DEF Pause, timeVars, PlayInv, TypeOK
    <3>2. CASE Resume
      BY <3>2, Zenon DEF Resume, PlayInv, TypeOK
    <3>3. CASE \E p \in Periods : Speed(p)
      <4>1. UNCHANGED <<running, paused>>
        BY <3>3 DEF Speed, playVars
      <4>2. period' \in Periods
        BY <3>3 DEF Speed
      <4> QED BY <4>1, <4>2, Zenon DEF PlayInv, TypeOK
    <3> QED BY <1>5, <3>1, <3>2, <3>3
  <2>3. waited' \in -MaxSetBack .. Longest
    BY SMTT(30), <1>5, Constants DEF Pause, Resume, Speed, timeVars, PlayInv, TypeOK
  <2>4. TypeOK'
    BY <2>1, <2>2, <2>3 DEF PlayInv, TypeOK
  <2> QED BY <2>1, <2>4 DEF PlayInv, PlaysInOrder, NotEmpty, SelfTestReady, JointsFollow
<1>6. CASE Stop
  <2>1. TypeOK' /\ running' = FALSE
    <3>1. FlagsOK'
      BY <1>6, Zenon DEF Stop, PlayInv, TypeOK, timeVars, sceneVars, FlagsOK
    <3>2. DataOK'
      BY <1>6, MovesType DEF Stop, PlayInv, TypeOK, timeVars, sceneVars, DataOK
    <3> QED BY <1>6, <3>1, <3>2, TypePartsNext DEF Stop
  <2> QED BY <2>1 DEF PlayInv, PlaysInOrder, NotEmpty, SelfTestReady, JointsFollow
<1>7. CASE \E p \in Poses : Manual(p)
  <2>1. PICK p \in Poses : Manual(p)
    BY <1>7
  <2>2. UNCHANGED <<simulating, waited, period, moves, index, root, handles, saved, played>>
    BY <2>1 DEF Manual, timeVars
  <2>3. joints' \in [1 .. Axes -> Poses]
    BY <2>1, WriteJointsType DEF Manual, PlayInv, TypeOK
  <2>4. /\ running' => running
        /\ running' \in BOOLEAN /\ paused' \in BOOLEAN
        /\ paused' => running'
        /\ result' \in {"none", "ok", "failed"}
    BY <2>1, FailType, Zenon DEF Manual, PlayInv, TypeOK
  <2>5. TypeOK'
    <3>1. FlagsOK'
      BY <2>2, <2>4, Zenon DEF PlayInv, TypeOK, FlagsOK
    <3>2. DataOK'
      BY <2>2, <2>3, <2>4 DEF PlayInv, TypeOK, DataOK
    <3> QED BY <3>1, <3>2, TypePartsNext
  <2> QED BY <2>2, <2>4, <2>5 DEF PlayInv, PlaysInOrder, NotEmpty, SelfTestReady, JointsFollow
<1> QED BY <1>1, <1>2, <1>3, <1>4, <1>5, <1>6, <1>7 DEF Window

-----------------------------------------------------------------------------
(* The simulation and its steps.                                           *)
LEMMA BeginStep ==
  ASSUME PlayInv, BeginSimulation
  PROVE  PlayInv'
<1>1. /\ simulating' = TRUE /\ saved' = joints
      /\ UNCHANGED <<period, moves, root, handles, joints, selfTest>>
  BY DEF BeginSimulation
<1>2. PICK setBack \in -MaxSetBack .. 0 :
        IF selfTest /\ handles > 0
        THEN StartPlayback(setBack)
        ELSE waited' = setBack /\ UNCHANGED <<index, running, paused, result, played>>
  BY DEF BeginSimulation
<1>3. setBack \in -MaxSetBack .. Longest
  BY Constants
<1>4. CASE selfTest /\ handles > 0
  <2>1. StartPlayback(setBack)
    BY <1>2, <1>4
  <2>2. /\ waited' \in -MaxSetBack .. Longest /\ index' \in 1 .. Len(moves') + 1
        /\ running' \in BOOLEAN /\ paused' \in BOOLEAN
        /\ result' \in {"none", "ok", "failed"}
        /\ paused' => running'
    BY <1>1, <1>3, <2>1, StartPlaybackStep
  <2>3. PlaysInOrder' /\ NotEmpty' /\ SelfTestReady' /\ (running' => index' = 1)
    BY <1>1, <1>3, <2>1, StartPlaybackStep
  <2>4. TypeOK'
    <3>1. FlagsOK'
      BY <1>1, <2>2, Zenon DEF PlayInv, TypeOK, FlagsOK
    <3>2. DataOK'
      BY <1>1, <2>2 DEF PlayInv, TypeOK, DataOK
    <3> QED BY <3>1, <3>2, TypePartsNext
  <2> QED BY <2>3, <2>4 DEF PlayInv, JointsFollow
<1>5. CASE ~(selfTest /\ handles > 0)
  <2>1. waited' = setBack /\ UNCHANGED <<index, running, paused, result, played>>
    BY <1>2, <1>5
  <2>2. TypeOK'
    <3>1. FlagsOK'
      BY <1>1, <2>1, Zenon DEF PlayInv, TypeOK, FlagsOK
    <3>2. DataOK'
      BY <1>1, <1>3, <2>1 DEF PlayInv, TypeOK, DataOK
    <3> QED BY <3>1, <3>2, TypePartsNext
  <2>3. PlaysInOrder' /\ NotEmpty' /\ SelfTestReady'
    BY <1>1, <2>1 DEF PlayInv, PlaysInOrder, NotEmpty, SelfTestReady
  <2>4. ~(selfTest /\ running)
    <3>1. selfTest /\ handles # Axes => moves = << >>
      BY DEF PlayInv, SelfTestReady
    <3>2. selfTest => handles # Axes
      BY <1>5, Constants
    <3> QED BY <3>1, <3>2 DEF PlayInv, NotEmpty
  <2> QED BY <1>1, <2>1, <2>2, <2>3, <2>4 DEF PlayInv, JointsFollow
<1> QED BY <1>4, <1>5

LEMMA EndStep ==
  ASSUME PlayInv, EndSimulation \/ Cleanup
  PROVE  PlayInv'
<1>1. /\ simulating' = FALSE
      /\ UNCHANGED <<waited, period, moves, index, running, paused, root, handles,
                     saved, selfTest, played>>
  BY DEF EndSimulation, Cleanup, playVars, sceneVars
<1>2. joints' = saved \/ joints' = joints
  BY DEF EndSimulation, Cleanup, sceneVars
<1>3. result' \in {"none", "ok", "failed"}
  BY DEF EndSimulation, Cleanup, WriteSelfTest, PlayInv, TypeOK
<1>4. TypeOK'
  <2>1. FlagsOK'
    BY <1>1, Zenon DEF PlayInv, TypeOK, FlagsOK
  <2>2. DataOK'
    BY <1>1, <1>2, <1>3 DEF PlayInv, TypeOK, DataOK
  <2> QED BY <2>1, <2>2, TypePartsNext
<1> QED BY <1>1, <1>4 DEF PlayInv, PlaysInOrder, NotEmpty, SelfTestReady, JointsFollow

LEMMA PlayMoveStep ==
  ASSUME PlayInv, PlayMove
  PROVE  PlayInv' /\ result' = result
<1>1. /\ running /\ index <= Len(moves) /\ Applies(moves[index])
      /\ WriteJoints(moves[index])
      /\ index' = index + 1 /\ played' = Append(played, moves[index])
      /\ Advance(0)
      /\ UNCHANGED <<moves, running, paused, root, handles, saved, selfTest, result>>
  BY DEF PlayMove, Due
<1>2. /\ moves \in Seq(Poses) /\ Len(moves) \in Nat /\ index \in 1 .. Len(moves)
      /\ moves[index] \in Poses
  BY <1>1, MovesType DEF PlayInv
<1>3. joints' \in [1 .. Axes -> Poses] /\ joints' = AllAt(moves[index])
  BY <1>1, <1>2, WriteJointsType DEF PlayInv
<1>4. waited' \in -MaxSetBack .. Longest /\ simulating' = simulating /\ period' = period
  <2>1. 0 \in -MaxSetBack .. Longest
    BY Constants
  <2> QED BY <1>1, <2>1, AdvanceType DEF PlayInv
<1>5. TypeOK'
  <2>1. FlagsOK'
    BY <1>1, <1>4, Zenon DEF PlayInv, TypeOK, FlagsOK
  <2>2. DataOK'
    BY <1>1, <1>2, <1>3, <1>4 DEF PlayInv, TypeOK, DataOK
  <2> QED BY <2>1, <2>2, TypePartsNext
<1>6. PlaysInOrder'
  <2>1. played = SubSeq(moves, 1, index - 1)
    BY <1>1 DEF PlayInv, PlaysInOrder
  <2>2. played' = SubSeq(moves, 1, index' - 1)
    BY <1>1, <1>2, <2>1, OneMoreMove
  <2> QED BY <1>1, <2>2 DEF PlaysInOrder
<1>7. NotEmpty' /\ SelfTestReady'
  BY <1>1 DEF PlayInv, NotEmpty, SelfTestReady
<1>8. JointsFollow'
  <2>1. index' - 1 = index
    BY <1>1, <1>2
  <2> QED BY <1>1, <1>3, <2>1 DEF JointsFollow, AllAt
<1> QED BY <1>1, <1>5, <1>6, <1>7, <1>8 DEF PlayInv

LEMMA OtherActuationStep ==
  ASSUME PlayInv, Wait \/ MoveFails \/ Complete
  PROVE  PlayInv'
<1>1. /\ UNCHANGED <<simulating, period, moves, index, root, handles, saved, selfTest, played>>
      /\ Advance(waited)
  BY DEF Wait, MoveFails, Complete, playVars, sceneVars, Advance
<1>2. waited' \in -MaxSetBack .. Longest
  BY <1>1, AdvanceType DEF PlayInv, TypeOK
<1>3. CASE Wait
  <2>1. UNCHANGED <<running, paused, joints, result>>
    BY <1>3 DEF Wait, playVars, sceneVars
  <2>2. FlagsOK'
    BY <1>1, <2>1, Zenon DEF PlayInv, TypeOK, FlagsOK
  <2>3. DataOK'
    BY <1>1, <1>2, <2>1 DEF PlayInv, TypeOK, DataOK
  <2> QED BY <1>1, <2>1, <2>2, <2>3, TypePartsNext
          DEF PlayInv, PlaysInOrder, NotEmpty, SelfTestReady, JointsFollow, AllAt
<1>4. CASE MoveFails \/ Complete
  <2>1. running' = FALSE /\ paused' = FALSE /\ result' \in {"none", "ok", "failed"}
    <3>1. paused = FALSE
      BY <1>4, Zenon DEF MoveFails, Complete, Due, PlayInv, TypeOK
    <3> QED BY <1>4, <3>1, FailType DEF MoveFails, Complete, WriteSelfTest, PlayInv, TypeOK
  <2>2. joints' \in [1 .. Axes -> Poses]
    <3>1. CASE MoveFails
      BY <3>1, MovesType, WriteJointsType DEF MoveFails, PlayInv
    <3>2. CASE Complete
      BY <3>2 DEF Complete, sceneVars, PlayInv, TypeOK
    <3> QED BY <1>4, <3>1, <3>2
  <2>3. FlagsOK'
    BY <1>1, <2>1, Zenon DEF PlayInv, TypeOK, FlagsOK
  <2>4. DataOK'
    BY <1>1, <1>2, <2>1, <2>2 DEF PlayInv, TypeOK, DataOK
  <2> QED BY <1>1, <2>1, <2>3, <2>4, TypePartsNext
          DEF PlayInv, PlaysInOrder, NotEmpty, SelfTestReady, JointsFollow
<1> QED BY <1>3, <1>4

LEMMA PlayStep ==
  ASSUME PlayInv, [Next]_vars
  PROVE  PlayInv'
<1>1. CASE Window
  BY <1>1, WindowStep
<1>2. CASE BeginSimulation
  BY <1>2, BeginStep
<1>3. CASE EndSimulation \/ Cleanup
  BY <1>3, EndStep
<1>4. CASE Actuation
  BY <1>4, PlayMoveStep, OtherActuationStep DEF Actuation, Playback
<1>5. CASE UNCHANGED vars
  <2>1. FlagsOK'
    BY <1>5, Zenon DEF vars, timeVars, playVars, sceneVars, PlayInv, TypeOK, FlagsOK
  <2>2. DataOK'
    BY <1>5 DEF vars, timeVars, playVars, sceneVars, PlayInv, TypeOK, DataOK
  <2> QED BY <1>5, <2>1, <2>2, TypePartsNext
          DEF vars, timeVars, playVars, sceneVars, PlayInv, PlaysInOrder, NotEmpty,
              SelfTestReady, JointsFollow, AllAt
<1> QED BY <1>1, <1>2, <1>3, <1>4, <1>5 DEF Next

LEMMA PlayInvariant == Spec => []PlayInv
  BY InitPlay, PlayStep, PTL DEF Spec

-----------------------------------------------------------------------------
(* Only a playback that has run out of moves gives a good result.          *)
LEMMA VerdictStep ==
  ASSUME PlayInv, Next, result' # result
  PROVE  /\ result = "none"
         /\ result' = "ok" => played = moves /\ joints = AllAt(moves[Len(moves)])
<1>1. selfTest /\ result = "none"
  <2>1. CASE Window
    <3>1. selfTest = FALSE
      BY <2>1 DEF Window, Click, BuildScene, Open, OpenFails, Start, Pause, Resume, Stop, Manual,
                  Speed, PlayInv, TypeOK
    <3> QED BY <2>1, <3>1 DEF Window, BuildScene, Open, OpenFails, Start, Pause, Resume, Stop,
                            Manual, Speed, Fail, WriteSelfTest, StartPlayback
  <2>2. CASE BeginSimulation \/ EndSimulation \/ Cleanup
    BY <2>2 DEF BeginSimulation, EndSimulation, Cleanup, StartPlayback, Fail, WriteSelfTest
  <2>3. CASE Actuation
    BY <2>3 DEF Actuation, Playback, Wait, PlayMove, MoveFails, Complete, Fail, WriteSelfTest
  <2> QED BY <2>1, <2>2, <2>3 DEF Next
<1>2. SUFFICES ASSUME result' = "ok"
               PROVE  played = moves /\ joints = AllAt(moves[Len(moves)])
  BY <1>1
<1>3. Complete
  <2>1. ~Window
    BY <1>1, <1>2 DEF Window, Click, BuildScene, Open, OpenFails, Start, Pause, Resume, Stop,
                      Manual, Speed
  <2>2. ~(BeginSimulation \/ EndSimulation \/ Cleanup)
    BY <1>1, <1>2
    DEF BeginSimulation, EndSimulation, Cleanup, StartPlayback, Fail, WriteSelfTest
  <2>3. ~(Wait \/ PlayMove \/ MoveFails)
    BY <1>1, <1>2 DEF Wait, PlayMove, MoveFails, Fail, WriteSelfTest
  <2> QED BY <2>1, <2>2, <2>3 DEF Next, Actuation, Playback
<1>4. running /\ simulating /\ index > Len(moves)
  BY <1>3 DEF Complete, Due
<1>5. index = Len(moves) + 1 /\ moves # << >> /\ moves \in Seq(Poses)
  BY <1>4, MovesType DEF PlayInv, NotEmpty
<1>6. Len(moves) \in Nat \ {0} /\ index - 1 = Len(moves)
  BY <1>5
<1>7. played = SubSeq(moves, 1, Len(moves))
  BY <1>4, <1>6 DEF PlayInv, PlaysInOrder
<1>8. SubSeq(moves, 1, Len(moves)) = moves
  BY <1>5
<1>9. joints = AllAt(moves[Len(moves)])
  BY <1>1, <1>4, <1>5, <1>6 DEF PlayInv, JointsFollow
<1> QED BY <1>7, <1>8, <1>9

(* Types in every reachable state; the index stays in the program.         *)
THEOREM TypeCorrect == Spec => []TypeOK
  BY PlayInvariant, PTL DEF PlayInv

(* For any program, the playback applies its moves in order, each once.    *)
THEOREM PlaysInOrderHolds == Spec => []PlaysInOrder
  BY PlayInvariant, PTL DEF PlayInv

(* The self-test says "ok" only when every move was applied and the joints *)
(* are where the last one leaves them, whatever simulations began or ended *)
(* in between.                                                             *)
THEOREM VerdictIsTrueHolds == Spec => VerdictIsTrue
<1>1. PlayInv /\ [Next]_vars
        => [result' # result =>
              /\ result = "none"
              /\ result' = "ok" => played = moves /\ joints = AllAt(moves[Len(moves)])]_vars
  BY VerdictStep
<1> QED BY <1>1, PlayInvariant, PTL DEF Spec, VerdictIsTrue
=============================================================================
