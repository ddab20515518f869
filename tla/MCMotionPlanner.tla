-------------------------- MODULE MCMotionPlanner --------------------------
(* Targets along the axis, a turn back, a tilt facing away from the end of *)
(* the axis, the same tilt facing it, out of reach, and a turn of 270      *)
(* degrees, as in gcode_examples/5axis.gcode:10.                           *)
EXTENDS MotionPlanner
At(x, b, c) == [x |-> x, b |-> b, c |-> c]
MCTargets == {At(2, 0, 0), At(0, 0, -1), At(2, 1, 2), At(2, 1, 0), At(1, 0, 3)}
=============================================================================
