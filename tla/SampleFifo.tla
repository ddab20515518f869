------------------------------ MODULE SampleFifo ------------------------------
(***************************************************************************)
(* What the motion pipeline promises: samples are numbered as they are     *)
(* made, wait in one queue, and leave it from the front, either written    *)
(* to the joints together with their own paint or discarded.               *)
(***************************************************************************)
EXTENDS Integers, Sequences

VARIABLES
  queue,  (* samples made and neither written nor discarded                 *)
  made,   (* number of the newest sample                                    *)
  acted   (* the sample last written, and the paint it was written with     *)

vars == <<queue, made, acted>>

Init ==
  /\ queue = << >>
  /\ made = 0
  /\ acted = [sample |-> 0, paint |-> 0]

Make ==
  /\ made' = made + 1
  /\ queue' = Append(queue, made')
  /\ UNCHANGED acted

Actuate ==
  /\ queue # << >>
  /\ acted' = [sample |-> Head(queue), paint |-> Head(queue)]
  /\ queue' = Tail(queue)
  /\ UNCHANGED made

DiscardFirst ==
  /\ queue # << >>
  /\ queue' = Tail(queue)
  /\ UNCHANGED <<made, acted>>

DiscardAll ==
  /\ queue # << >>
  /\ queue' = << >>
  /\ UNCHANGED <<made, acted>>

Leave == Actuate \/ DiscardFirst \/ DiscardAll

Next == Make \/ Leave

Spec == Init /\ [][Next]_vars
=============================================================================
