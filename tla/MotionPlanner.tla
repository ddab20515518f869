---------------------------- MODULE MotionPlanner ----------------------------
(***************************************************************************)
(* From a motion command to the joints: the Listener plans a trajectory    *)
(* from the position it believes the machine will be in, Trajectory        *)
(* samples it, the Rep5x adapter accepts the samples as a whole or rejects *)
(* them, and the samples go through the motion pipeline (SampleFifo).      *)
(*                                                                         *)
(* A pose has one linear axis, the tilt B and the turn C.  Angles are in   *)
(* quarter turns, on which the inverse kinematics is exact; samples in     *)
(* between are rounded to this lattice.  The planner moves one unit per    *)
(* sample.  Y and Z, velocities and arcs that also turn an axis are left   *)
(* out.                                                                    *)
(***************************************************************************)
EXTENDS Integers, Sequences

CONSTANTS
  NaN,          (* a pose that is not a number                              *)
  Targets,      (* poses the commands ask for                               *)
  Length,       (* the linear axis goes from 0 to Length                    *)
  Reach,        (* distance of the nozzle from the axis of B                *)
  MaxCommands,  (* bound: commands in a behaviour                           *)
  MaxRuns       (* bound: simulations in a behaviour                        *)

Turn == 4
Pose == [x : Int, b : Int, c : Int]
Zero == [x |-> 0, b |-> 0, c |-> 0]

Kinds == {"rapid", "ramp", "interpolated", "arc", "circle", "dwell"}

ASSUME PlannerAssumption ==
  /\ NaN \notin Pose
  /\ Targets \subseteq Pose
  /\ Length \in Nat /\ Reach \in Nat
  /\ MaxCommands \in Nat /\ MaxRuns \in Nat

VARIABLES
  last,      (* m_last_position: where the next command starts              *)
  joints,    (* m_joints: the trajectory computed last                      *)
  batch,     (* samples accepted and still to be pushed                     *)
  plan,      (* every sample pushed, by its number                          *)
  queue, made, acted,  (* the pipeline, see SampleFifo                      *)
  pose,      (* the joints of the scene                                     *)
  phase,     (* of the simulation                                           *)
  commands,  (* commands received                                           *)
  runs,      (* simulations started                                         *)
  lost,      (* was anything refused or discarded since a batch was accepted*)
  cut        (* is there a gap before or between the samples on their way   *)

pipeVars  == <<queue, made, acted>>
planVars  == <<last, joints, batch, plan>>
simVars   == <<pose, phase, runs>>
vars == <<planVars, pipeVars, simVars, commands, lost, cut>>

Pipe == INSTANCE SampleFifo

Abs(n) == IF n < 0 THEN -n ELSE n

-----------------------------------------------------------------------------
(* Trajectories: pure functions of the start and the end of a command.     *)

(* SetBCPath: how far C turns from xi to xf.                               *)
Way(xi, xf, turn) ==
  LET cor == xf + (xi \div turn) * turn - xi
      inv == IF cor < 0 THEN cor + turn ELSE cor - turn
  IN IF Abs(inv) <= Abs(cor) THEN IF cor > inv THEN cor ELSE inv ELSE cor

(* The same in RapidTrajectory: the other way when there is a tie.         *)
RapidWay(xi, xf, turn) ==
  LET cor == xf + (xi \div turn) * turn - xi
      inv == IF cor < 0 THEN cor + turn ELSE IF cor > 0 THEN cor - turn ELSE 0
  IN IF Abs(inv) > Abs(cor) THEN cor ELSE inv

Path(p, q)      == [x |-> q.x - p.x, b |-> q.b - p.b, c |-> Way(p.c, q.c, Turn)]
RapidPath(p, q) == [x |-> q.x - p.x, b |-> q.b - p.b, c |-> RapidWay(p.c, q.c, Turn)]

Along(p, d, i, n) ==
  [x |-> p.x + (d.x * i) \div n, b |-> p.b + (d.b * i) \div n, c |-> p.c + (d.c * i) \div n]

(* max_len of a rapid move; the combined length of a linear one, rounded up*)
Longest(d) ==
  CHOOSE n \in {Abs(d.x), Abs(d.b), Abs(d.c)} :
    Abs(d.x) <= n /\ Abs(d.b) <= n /\ Abs(d.c) <= n
Combined(d) ==
  LET square == d.x * d.x + d.b * d.b + d.c * d.c
  IN CHOOSE n \in 0 .. square :
       n * n >= square /\ \A m \in 0 .. square : m * m >= square => n <= m

Sampled(k, poses) == [i \in DOMAIN poses |-> [at |-> poses[i], by |-> k]]

(* A move of no length leaves quadroots with r2 unset: the samples before  *)
(* the last are NaN, or their number overflows and m_joints stays as it is.*)
Rapid(p, q) ==
  IF p = NaN THEN {}
  ELSE LET d == RapidPath(p, q)
           n == Longest(d)
       IN IF n = 0
          THEN {Sampled("rapid", << q >>), Sampled("rapid", << NaN, q >>),
                [i \in DOMAIN joints |-> [joints[i] EXCEPT !.by = "again"]]}
          ELSE {Sampled("rapid", [i \in 1 .. n |-> IF i = n THEN q ELSE Along(p, d, i, n)])}

\* Mutant: the profile starts one time step too late.
RampAhead(p, q) ==
  IF p = NaN THEN {<< >>}
  ELSE LET d == Path(p, q)
           n == Combined(d)
       IN IF n = 0 THEN {<< >>, Sampled("ramp", << NaN >>)}
          ELSE {Sampled("ramp", [i \in 1 .. n |-> Along(p, d, IF i < n THEN i + 1 ELSE n, n)])}

(* No length divides by a combined length of 0.                            *)
Ramp(p, q) ==
  IF p = NaN THEN {<< >>}
  ELSE LET d == Path(p, q)
           n == Combined(d)
       IN IF n = 0 THEN {<< >>, Sampled("ramp", << NaN >>)}
          ELSE {Sampled("ramp", [i \in 1 .. n |-> Along(p, d, i, n)])}

(* Starts at the start, and stops one sample before the end.               *)
Interpolated(p, q) ==
  IF p = NaN THEN {}
  ELSE LET d == Path(p, q)
           n == Combined(d)
       IN {Sampled("interpolated", [i \in 1 .. n |-> Along(p, d, i - 1, n)])}

(* A half circle around the next unit, in two samples of which none is its *)
(* end, and a full circle in four; the circle leaves B and C at zero.      *)
Arc(p, q) ==
  IF p # NaN /\ q = [p EXCEPT !.x = @ + 2]
  THEN {Sampled("arc", << p, [p EXCEPT !.x = @ + 1] >>)} ELSE {}

Circle(p) ==
  IF p = NaN THEN {<< >>}
  ELSE {Sampled("circle", [i \in 1 .. 4 |->
          [Zero EXCEPT !.x = p.x + (CASE i = 1 -> 0 [] i = 3 -> 2 [] OTHER -> 1)]])}

(* Degrees are divided by 1000, as millimetres are: less than 6 degrees    *)
(* are left of a quarter turn, zero on the lattice.                        *)
Dwell(p) ==
  {<< >>, Sampled("dwell", << IF p = NaN THEN NaN ELSE [Zero EXCEPT !.x = p.x] >>)}

(* The trajectory of a command of kind k from p to q.                      *)
Trajectories(k, p, q) ==
  CASE k = "rapid"        -> Rapid(p, q)
    [] k = "ramp"         -> Ramp(p, q)
    [] k = "interpolated" -> Interpolated(p, q)
    [] k = "arc"          -> Arc(p, q)
    [] k = "circle"       -> Circle(p)
    [] k = "dwell"        -> Dwell(p)

-----------------------------------------------------------------------------
(* The Rep5x adapter: inverse kinematics and the limits of the machine.    *)
Cos(a) == CASE a % Turn = 0 -> 1 [] a % Turn = 2 -> -1 [] OTHER -> 0
Sin(a) == Cos(a - 1)

MachineX(p) == p.x + Cos(p.c) * Sin(p.b) * Reach

(* The joints are set one after the other, the linear one, C, then B: this *)
(* is the pose when the first n have gone from p to q.                     *)
Partly(p, q, n) ==
  LET m == IF n >= 1 THEN MachineX(q) ELSE MachineX(p)
      c == IF n >= 2 THEN q.c ELSE p.c
      b == IF n >= 3 THEN q.b ELSE p.b
  IN  [x |-> m - Cos(c) * Sin(b) * Reach, b |-> b, c |-> c]

Allowed(p) == p # NaN /\ MachineX(p) \in 0 .. Length /\ p.b \in -1 .. 1

-----------------------------------------------------------------------------
(* Listener.                                                               *)

Receive ==
  /\ phase # "stopped" /\ batch = << >> /\ commands < MaxCommands
  /\ commands' = commands + 1

(* A message that does not parse, a keycode that is not supported, or an   *)
(* exception of the trajectory.                                            *)
Refuse ==
  /\ Receive
  /\ UNCHANGED <<planVars, pipeVars, simVars, lost, cut>>

(* What a batch that is accepted does to the history: it begins where the  *)
(* samples before it end, unless something was lost since.                 *)
Accepted == lost' = FALSE /\ cut' = (lost \/ (cut /\ queue # << >>))

(* A command with an incremental keycode is planned from zero, and begins  *)
(* there, wherever the machine is.  There is no incremental dwell.         *)
FromZero(samples) == [samples EXCEPT ![1].by = "incremental"]
Commanded(k, inc, q) ==
  IF ~inc THEN Trajectories(k, last, q)
  ELSE IF k = "dwell" THEN {}
  ELSE {FromZero(s) : s \in Trajectories(k, Zero, q)}

\* Mutant: the position is that of the command, not of its last sample.
InterpretBelieving(k, inc, q) ==
  /\ Receive
  /\ \E samples \in Commanded(k, inc, q) :
       /\ joints' = samples
       /\ \/ samples = << >> /\ UNCHANGED <<last, batch, lost, cut>>
          \/ /\ samples # << >>
             /\ last' = IF k \in {"circle", "dwell"} THEN last ELSE q
             /\ IF \A i \in DOMAIN samples : Allowed(samples[i].at)
                THEN batch' = samples /\ Accepted
                ELSE lost' = TRUE /\ UNCHANGED <<batch, cut>>
  /\ UNCHANGED <<plan, pipeVars, simVars>>

\* Mutant: samples before the one that is not allowed are pushed.
InterpretPartly(k, inc, q) ==
  /\ Receive
  /\ \E samples \in Commanded(k, inc, q) :
       /\ joints' = samples
       /\ \/ samples = << >> /\ UNCHANGED <<last, batch, lost, cut>>
          \/ /\ samples # << >>
             /\ last' = samples[Len(samples)].at
             /\ IF Allowed(samples[1].at)
                THEN batch' = samples /\ Accepted
                ELSE lost' = TRUE /\ UNCHANGED <<batch, cut>>
  /\ UNCHANGED <<plan, pipeVars, simVars>>

(* PushAction: the position moves before the adapter has accepted the      *)
(* samples, and a command without samples only advances the line.          *)
Interpret(k, inc, q) ==
  /\ Receive
  /\ \E samples \in Commanded(k, inc, q) :
       /\ joints' = samples
       /\ \/ samples = << >> /\ UNCHANGED <<last, batch, lost, cut>>
          \/ /\ samples # << >>
             /\ last' = samples[Len(samples)].at
             /\ IF \A i \in DOMAIN samples : Allowed(samples[i].at)
                THEN batch' = samples /\ Accepted
                ELSE lost' = TRUE /\ UNCHANGED <<batch, cut>>
  /\ UNCHANGED <<plan, pipeVars, simVars>>

\* Mutant: the sample is pushed twice.
PushSampleTwice ==
  /\ batch # << >>
  /\ plan' = plan \o << Head(batch), Head(batch) >>
  /\ batch' = Tail(batch)
  /\ Pipe!Make
  /\ UNCHANGED <<last, joints, simVars, commands, lost, cut>>

PushSample ==
  /\ batch # << >>
  /\ plan' = Append(plan, Head(batch))
  /\ batch' = Tail(batch)
  /\ Pipe!Make
  /\ UNCHANGED <<last, joints, simVars, commands, lost, cut>>

-----------------------------------------------------------------------------
(* The simulator thread.                                                   *)

\* Mutant: a sample is removed without being written.
TickSkips ==
  /\ phase = "running"
  /\ Pipe!Actuate
  /\ IF Len(queue) = 1 THEN UNCHANGED pose ELSE pose' = plan[Head(queue)].at
  /\ UNCHANGED <<planVars, phase, runs, commands, lost, cut>>

Tick ==
  /\ phase = "running"
  /\ Pipe!Actuate
  /\ pose' = plan[Head(queue)].at
  /\ UNCHANGED <<planVars, phase, runs, commands, lost, cut>>

(* A joint cannot be set: those before it have been, and the queues are    *)
(* cleared.                                                                *)
WriteFails ==
  /\ phase = "running"
  /\ Pipe!DiscardAll
  /\ \E n \in 0 .. 2 : pose' = Partly(pose, plan[Head(queue)].at, n)
  /\ lost' = TRUE /\ cut' = TRUE
  /\ UNCHANGED <<planVars, phase, runs, commands>>

SimulationEnded ==
  /\ phase = "running"
  /\ phase' = "draining"
  /\ UNCHANGED <<planVars, pipeVars, pose, runs, commands, lost, cut>>

Drain ==
  /\ phase = "draining"
  /\ Pipe!DiscardFirst
  /\ lost' = TRUE /\ cut' = TRUE
  /\ UNCHANGED <<planVars, simVars, commands>>

(* Nobody looks at how many joints were reset.                             *)
ResetJoints ==
  /\ phase = "draining" /\ queue = << >>
  /\ pose' = Zero \/ \E n \in 0 .. 2 : pose' = Partly(pose, Zero, n)
  /\ phase' = "stopping"
  /\ lost' = TRUE /\ cut' = TRUE
  /\ UNCHANGED <<planVars, pipeVars, runs, commands>>

(* StopServer joins the io thread, which returns from the handler it is in.*)
StopServer ==
  /\ phase = "stopping" /\ batch = << >>
  /\ phase' = "stopped"
  /\ UNCHANGED <<planVars, pipeVars, pose, runs, commands, lost, cut>>

(* LaunchServer makes a Server, its session a Listener, which believes the *)
(* machine at zero.  Samples a command pushed after the drain are still in *)
(* the queue.                                                              *)
Launch ==
  /\ phase = "stopped" /\ runs < MaxRuns
  /\ phase' = "running" /\ runs' = runs + 1
  /\ last' = Zero /\ joints' = << >>
  /\ lost' = (queue # << >> \/ pose # Zero) /\ cut' = lost'
  /\ UNCHANGED <<batch, plan, pipeVars, pose, commands>>

-----------------------------------------------------------------------------
Init ==
  /\ last = Zero /\ joints = << >> /\ batch = << >> /\ plan = << >>
  /\ Pipe!Init
  /\ pose = Zero /\ phase = "stopped" /\ runs = 0
  /\ commands = 0 /\ lost = FALSE /\ cut = FALSE

Simulation ==
  Tick \/ WriteFails \/ SimulationEnded \/ Drain \/ ResetJoints \/ StopServer \/ Launch

Next ==
  \/ Refuse
  \/ \E k \in Kinds, inc \in BOOLEAN, q \in Targets : Interpret(k, inc, q)
  \/ PushSample
  \/ Simulation

(* The io thread pushes what was accepted, and the simulation ticks.       *)
Fairness == WF_vars(PushSample) /\ WF_vars(Tick)

Spec == Init /\ [][Next]_vars /\ Fairness

-----------------------------------------------------------------------------
(***************************************************************************)
(* Properties.                                                             *)
(***************************************************************************)

Place  == Pose \cup {NaN}
Sample == [at : Place, by : Kinds \cup {"again", "incremental"}]

(* Types, and every sample of the queue is one that was pushed.            *)
TypeOK ==
  /\ last \in Place /\ pose \in Place
  /\ joints \in Seq(Sample) /\ batch \in Seq(Sample) /\ plan \in Seq(Sample)
  /\ made = Len(plan) /\ queue \in Seq(1 .. made)
  /\ phase \in {"running", "draining", "stopping", "stopped"}
  /\ commands \in Nat /\ runs \in Nat
  /\ lost \in BOOLEAN /\ cut \in BOOLEAN

(* "Soft limit exceeded", "rejected NaN/Infinity": whatever the trajectory *)
(* computes and wherever it believes to be, the joints are only given      *)
(* poses the machine can take, also when samples of a run before are left. *)
WithinLimits ==
  /\ Allowed(pose)
  /\ \A i \in DOMAIN batch : Allowed(batch[i].at)
  /\ \A i \in DOMAIN queue : Allowed(plan[queue[i]].at)

(* Where the samples on their way will leave the joints.                   *)
End ==
  IF batch # << >> THEN batch[Len(batch)].at
  ELSE IF queue # << >> THEN plan[queue[Len(queue)]].at
  ELSE pose

(* A command starts where the samples before it will have left the joints: *)
(* the Listener never asks the scene, and is wrong only after a refusal or *)
(* a discard, until the next batch is accepted.                            *)
PlanContinues == ~ lost => last = End

Near(p, q) ==
  /\ Abs(p.x - q.x) <= 1 /\ Abs(p.b - q.b) <= 1
  /\ (p.c - q.c) % Turn \in {0, 1, Turn - 1}

(* The samples on their way after the joints as they are.                  *)
Waiting == [i \in DOMAIN queue |-> plan[queue[i]]] \o batch
Before(i) == IF i = 1 THEN pose ELSE Waiting[i - 1].at

(* No joint jumps from one sample to the next, within commands and from    *)
(* one to the next.  Dwell, circle, an incremental command and a trajectory *)
(* that is sent again begin somewhere else: a dwell scales the angles of   *)
(* its pose like lengths.                                                  *)
SmoothPath ==
  ~ lost /\ ~ cut =>
    \A i \in DOMAIN Waiting :
      Waiting[i].by \in {"rapid", "ramp", "interpolated", "arc"} => Near(Before(i), Waiting[i].at)

(* When commands stop, the joints end up where the Listener believes them, *)
(* unless the last command was refused or discarded.                       *)
HeadCatchesUp == <>[](phase = "running") => <>[](lost \/ pose = last)
=============================================================================
