---------------------------- MODULE LocalPlayback ----------------------------
(***************************************************************************)
(* The scene builder add-on (simAddOnRep5xSceneBuilder.lua) as a player of *)
(* G-code: the buttons of its window, the actuation callback of a running  *)
(* simulation, and the headless self-test.  All of it runs on one thread;  *)
(* what interleaves are the user's clicks, the simulation's steps and the  *)
(* simulation's starts and ends, which the add-on's state outlives.        *)
(*                                                                         *)
(* A step is one callback.  A move is its pose, a pose a name.  Of the two *)
(* times the add-on compares only their difference is kept, in simulation  *)
(* steps; it may be negative, because the simulator sets its clock back to *)
(* zero when a simulation starts.  It puts the joints back when one ends.  *)
(***************************************************************************)
EXTENDS Integers, Sequences

CONSTANTS
  Poses,        (* the poses moves and jogs ask for, with the home pose     *)
  HomePose,     (* all axes at zero                                         *)
  Unreachable,  (* poses applyPose refuses                                  *)
  Programs,     (* trajectories a file may hold                             *)
  TestProgram,  (* the built-in test trajectory                             *)
  Axes,         (* number of joints, in the order they are written          *)
  Periods,      (* steps between two moves, by speed                        *)
  NormalPeriod, (* the same at the speed of the start                       *)
  MaxSetBack,   (* bound: steps by which the clock is set back              *)
  MaxClicks     (* bound: clicks, simulation starts and ends                *)

ASSUME PlaybackAssumption ==
  /\ HomePose \in Poses /\ Unreachable \subseteq Poses \ {HomePose}
  /\ Programs \subseteq Seq(Poses) \ {<< >>} /\ TestProgram \in Seq(Poses) \ {<< >>}
  /\ Axes \in Nat \ {0, 1}
  /\ Periods \subseteq Nat \ {0} /\ NormalPeriod \in Periods
  /\ \E p \in Periods : \A q \in Periods : q <= p
  /\ MaxSetBack \in Nat /\ MaxClicks \in Nat

VARIABLES
  simulating, (* is a simulation running?                                   *)
  waited,     (* sim.getSimulationTime() - state.lastStep, up to Longest    *)
  moves, index, running, paused,  (* state.moves, index, running, paused    *)
  period,     (* 0.15 / state.speed                                         *)
  root,       (* does the scene have the Rep5x root object?                 *)
  handles,    (* joints in state.handles: the first so many of them         *)
  joints,     (* pose each joint was last written for                       *)
  saved,      (* the joints when the simulation started                     *)
  selfTest,   (* state.selfTestPath is set: no window                       *)
  result,     (* the self-test result file                                  *)
  played,     (* history: moves applied by the playback since its start     *)
  clicks      (* clicks, simulation starts and ends so far                  *)

playVars  == <<moves, index, running, paused>>
timeVars  == <<simulating, waited, period>>
sceneVars == <<root, handles, joints, saved>>
vars == <<timeVars, playVars, sceneVars, selfTest, result, played, clicks>>

Longest == CHOOSE p \in Periods : \A q \in Periods : q <= p
AllAt(p) == [axis \in 1 .. Axes |-> p]

-----------------------------------------------------------------------------
(* Pieces of the callbacks.                                                *)

WriteSelfTest(verdict) ==
  result' = IF selfTest /\ result = "none" THEN verdict ELSE result

(* fail(): the playback ends, whatever has failed.                         *)
Fail ==
  /\ running' = FALSE /\ paused' = FALSE
  /\ WriteSelfTest("failed")

(* applyPose(): nothing is written when a check refuses the pose; a joint  *)
(* without a handle raises an error after the joints before it.            *)
Applies(p) == p \notin Unreachable /\ handles = Axes

WriteJoints(p) ==
  joints' = IF p \in Unreachable
            THEN joints
            ELSE [axis \in 1 .. Axes |-> IF axis <= handles THEN p ELSE joints[axis]]

(* rep5xStart(), by a click or by the self-test; t has been waited.        *)
StartPlayback(t) ==
  IF moves = << >> \/ handles = 0
  THEN Fail /\ waited' = t /\ UNCHANGED <<index, played>>
  ELSE /\ index' = 1 /\ running' = TRUE /\ paused' = FALSE
       /\ waited' = 0 /\ played' = << >>
       /\ UNCHANGED result

-----------------------------------------------------------------------------
(* The window.                                                             *)
Click ==
  /\ ~selfTest /\ clicks < MaxClicks
  /\ clicks' = clicks + 1
  /\ UNCHANGED selfTest

BuildScene ==
  /\ Click
  /\ IF root
     THEN Fail /\ UNCHANGED <<root, handles, joints>>
     ELSE /\ root' = TRUE /\ handles' = Axes /\ joints' = AllAt(HomePose)
          /\ UNCHANGED <<running, paused, result>>
  /\ UNCHANGED <<timeVars, moves, index, saved, played>>

\* Mutant: a new program does not end the playback of the old one.
OpenWhilePlaying(program) ==
  /\ Click
  /\ moves' = program /\ index' = 1
  /\ UNCHANGED <<timeVars, running, paused, sceneVars, result, played>>

(* rep5xOpen() and rep5xTest().                                            *)
Open(program) ==
  /\ Click
  /\ moves' = program /\ index' = 1 /\ running' = FALSE /\ paused' = FALSE
  /\ UNCHANGED <<timeVars, sceneVars, result, played>>

OpenFails ==
  /\ Click /\ Fail
  /\ UNCHANGED <<timeVars, moves, index, sceneVars, played>>

Start ==
  /\ Click /\ StartPlayback(waited)
  /\ UNCHANGED <<simulating, period, moves, sceneVars>>

Pause ==
  /\ Click /\ running /\ paused' = TRUE
  /\ UNCHANGED <<timeVars, moves, index, running, sceneVars, result, played>>

Resume ==
  /\ Click /\ running /\ paused' = FALSE /\ waited' = 0
  /\ UNCHANGED <<simulating, period, moves, index, running, sceneVars, result, played>>

\* Mutant: a playback stopped in a pause stays paused.
StopPaused ==
  /\ Click
  /\ running' = FALSE /\ index' = 1
  /\ UNCHANGED <<timeVars, moves, paused, sceneVars, result, played>>

Stop ==
  /\ Click
  /\ running' = FALSE /\ paused' = FALSE /\ index' = 1
  /\ UNCHANGED <<timeVars, moves, sceneVars, result, played>>

(* rep5xHome() and rep5xJog(), which asks for a pose next to state.pose.   *)
Manual(p) ==
  /\ Click
  /\ IF (running /\ ~paused) \/ ~Applies(p)
     THEN Fail
     ELSE UNCHANGED <<running, paused, result>>
  /\ IF running /\ ~paused THEN UNCHANGED joints ELSE WriteJoints(p)
  /\ UNCHANGED <<timeVars, moves, index, root, handles, saved, played>>

Speed(p) ==
  /\ Click /\ period' = p
  /\ UNCHANGED <<simulating, waited, playVars, sceneVars, result, played>>

-----------------------------------------------------------------------------
(* The simulation.  sysCall_beforeSimulation starts the self-test.         *)
BeginSimulation ==
  /\ ~simulating /\ clicks < MaxClicks
  /\ simulating' = TRUE /\ saved' = joints
  /\ \E setBack \in -MaxSetBack .. 0 :
       IF selfTest /\ handles > 0
       THEN StartPlayback(setBack)
       ELSE waited' = setBack /\ UNCHANGED <<index, running, paused, result, played>>
  /\ clicks' = clicks + 1
  /\ UNCHANGED <<period, moves, root, handles, joints, selfTest>>

EndSimulation ==
  /\ simulating /\ clicks < MaxClicks
  /\ simulating' = FALSE /\ joints' = saved
  /\ clicks' = clicks + 1
  /\ UNCHANGED <<waited, period, playVars, root, handles, saved, selfTest, result, played>>

(* The clock goes on after the actuation callback.                         *)
Advance(from) ==
  /\ waited' = IF from < Longest THEN from + 1 ELSE from
  /\ UNCHANGED <<simulating, period>>

Due == running /\ ~paused /\ waited >= period

Wait ==
  /\ simulating /\ ~Due
  /\ Advance(waited)
  /\ UNCHANGED <<playVars, sceneVars, selfTest, result, played, clicks>>

PlayMove ==
  /\ simulating /\ Due /\ index <= Len(moves) /\ Applies(moves[index])
  /\ WriteJoints(moves[index])
  /\ index' = index + 1
  /\ played' = Append(played, moves[index])
  /\ Advance(0)
  /\ UNCHANGED <<moves, running, paused, root, handles, saved, selfTest, result, clicks>>

\* Mutant: a move that fails is tried again.
RetryMove ==
  /\ simulating /\ Due /\ index <= Len(moves) /\ ~Applies(moves[index])
  /\ WriteJoints(moves[index])
  /\ Advance(waited)
  /\ UNCHANGED <<playVars, root, handles, saved, selfTest, result, played, clicks>>

MoveFails ==
  /\ simulating /\ Due /\ index <= Len(moves) /\ ~Applies(moves[index])
  /\ WriteJoints(moves[index])
  /\ Fail
  /\ Advance(waited)
  /\ UNCHANGED <<moves, index, root, handles, saved, selfTest, played, clicks>>

\* Mutant: the self-test is over with its last move but one.
CompleteEarly ==
  /\ simulating /\ Due /\ index >= Len(moves)
  /\ running' = FALSE
  /\ WriteSelfTest("ok")
  /\ Advance(waited)
  /\ UNCHANGED <<moves, index, paused, sceneVars, selfTest, played, clicks>>

Complete ==
  /\ simulating /\ Due /\ index > Len(moves)
  /\ running' = FALSE
  /\ WriteSelfTest("ok")
  /\ Advance(waited)
  /\ UNCHANGED <<moves, index, paused, sceneVars, selfTest, played, clicks>>

(* sysCall_cleanup(): the add-on is unloaded, and nothing follows.         *)
Cleanup ==
  /\ clicks < MaxClicks
  /\ WriteSelfTest("failed")
  /\ clicks' = MaxClicks
  /\ simulating' = FALSE
  /\ UNCHANGED <<waited, period, playVars, sceneVars, selfTest, played>>

-----------------------------------------------------------------------------
(* sysCall_init().  With a window the scene may be there already, complete *)
(* or not; validateHandles() keeps the handles it finds before it fails.   *)
Init ==
  /\ simulating = FALSE /\ waited = 0 /\ period = NormalPeriod
  /\ index = 1 /\ running = FALSE /\ paused = FALSE
  /\ joints = AllAt(HomePose) /\ saved = joints
  /\ played = << >> /\ clicks = 0
  /\ \/ /\ selfTest = TRUE /\ root = TRUE /\ handles = Axes
        /\ moves = TestProgram /\ result = "none"
     \/ /\ selfTest = TRUE /\ root = TRUE /\ handles = 0
        /\ moves = << >> /\ result = "failed"
     \/ /\ selfTest = FALSE /\ root = TRUE /\ handles \in 0 .. Axes
        /\ moves = << >> /\ result = "none"
     \/ /\ selfTest = FALSE /\ root = FALSE /\ handles = 0
        /\ moves = << >> /\ result = "none"

Playback == PlayMove \/ MoveFails \/ Complete

Actuation == Wait \/ Playback

Window ==
  \/ BuildScene
  \/ \E program \in Programs \cup {TestProgram} : Open(program)
  \/ OpenFails
  \/ Start \/ Pause \/ Resume \/ Stop
  \/ \E p \in Poses : Manual(p)
  \/ \E p \in Periods : Speed(p)

Next == Window \/ BeginSimulation \/ EndSimulation \/ Actuation \/ Cleanup

(* A running simulation calls the add-on at every step.                    *)
Fairness == WF_vars(Actuation)

Spec == Init /\ [][Next]_vars /\ Fairness

-----------------------------------------------------------------------------
(***************************************************************************)
(* Properties.                                                             *)
(***************************************************************************)

(* Types; the index is at most one past the program, a paused playback is  *)
(* running, and a clock set back leaves a bounded time to wait.            *)
TypeOK ==
  /\ simulating \in BOOLEAN /\ waited \in -MaxSetBack .. Longest
  /\ period \in Periods
  /\ moves \in Programs \cup {TestProgram, << >>} /\ index \in 1 .. Len(moves) + 1
  /\ running \in BOOLEAN /\ paused \in BOOLEAN /\ root \in BOOLEAN
  /\ handles \in 0 .. Axes
  /\ joints \in [1 .. Axes -> Poses] /\ saved \in [1 .. Axes -> Poses]
  /\ selfTest \in BOOLEAN /\ result \in {"none", "ok", "failed"}
  /\ paused => running

(* Since its start the playback has applied the moves before its index,    *)
(* each once and in order, whatever was paused, jogged, opened or          *)
(* restarted in between.                                                   *)
PlaysInOrder == running => played = SubSeq(moves, 1, index - 1)

(* The self-test's result is written once; it is good only when every move *)
(* was applied and the joints are where the last one leaves them.          *)
VerdictIsTrue ==
  [][result' # result =>
       /\ result = "none"
       /\ result' = "ok" => played = moves /\ joints = AllAt(moves[Len(moves)])]_vars

(* A playback that nobody pauses or interrupts comes to an end, completed  *)
(* or failed, also when the clock is set back under it.                    *)
PlaybackEnds ==
  running /\ ~paused /\ simulating ~> ~running \/ paused \/ ~simulating
=============================================================================
