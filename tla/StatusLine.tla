------------------------------ MODULE StatusLine ------------------------------
(***************************************************************************)
(* What the status channel promises its client: the messages are numbered  *)
(* as they are formulated, and each is sent at most once, unchanged and in *)
(* that order; a message is lost only when there is no client.             *)
(***************************************************************************)
EXTENDS Integers, Sequences

VARIABLES
  pending,  (* messages formulated and neither sent nor lost                *)
  made,     (* number of the newest message                                 *)
  told      (* what the client has been sent                                *)

vars == <<pending, made, told>>

Init == pending = << >> /\ made = 0 /\ told = << >>

Tell ==
  /\ made' = made + 1
  /\ pending' = Append(pending, made')
  /\ UNCHANGED told

Send ==
  /\ pending # << >>
  /\ told' = Append(told, Head(pending))
  /\ pending' = Tail(pending)
  /\ UNCHANGED made

Lose ==
  /\ pending # << >>
  /\ pending' = Tail(pending)
  /\ UNCHANGED <<made, told>>

Next == Tell \/ Send \/ Lose

Spec == Init /\ [][Next]_vars
=============================================================================
