---------------------------- MODULE SamplePipeline ----------------------------
(***************************************************************************)
(* The motion pipeline of the simulator plugin (simExtFIBR3D.cpp).         *)
(*                                                                         *)
(* Two threads share a Printer and an Extruder.  The server's io thread    *)
(* turns a motion command into samples and pushes each of them onto three  *)
(* queues, one after the other: the joint target, the paint flag and the   *)
(* G-code line.  Every push takes the mutex of ONE queue only.  The        *)
(* simulator thread consumes them in simMessage: one target, one paint and *)
(* one line per module-handle callback, and it empties two or three of the *)
(* queues when a joint write fails or the simulation ends.                 *)
(*                                                                         *)
(* A step of this module is one critical section of a queue's mutex.  A    *)
(* sample is its number in the order of creation; the poses, the extrusion *)
(* drawing and the texts of the message boxes are left out.                *)
(***************************************************************************)
EXTENDS Integers, Sequences

CONSTANTS
  Lines,         (* the G-code line numbers a command may carry             *)
  MaxBatch,      (* bound: samples of one command                           *)
  MaxSamples,    (* bound: samples made in a behaviour                      *)
  MaxLineQueue   (* bound: length of the line queue a motionless command    *)
                 (* may still extend                                        *)

ASSUME PipelineAssumption ==
  /\ Lines \subseteq Nat
  /\ MaxBatch \in Nat \ {0}
  /\ MaxSamples \in Nat
  /\ MaxLineQueue \in Nat

VARIABLES
  sim,       (* is the simulation stopped or running?                       *)
  server,    (* the CommunicationManager: its io_context can run only once  *)
  ready,     (* Printer::ready                                              *)
  target,    (* Printer::target_jpos, consumed at its head                  *)
  paint,     (* Extruder::paint                                             *)
  line,      (* Printer::line                                               *)
  ppc,       (* io thread: the queue it pushes to next                      *)
  todo,      (* io thread: samples of the command still to push             *)
  bline,     (* io thread: line number of the command                       *)
  issued,    (* number of the newest sample                                 *)
  cpc,       (* simulator thread: where it is in simMessage                 *)
  current,   (* simulator thread: current_paint                             *)
  info,      (* info_line: the line and collision flag last broadcast       *)
  acted,     (* history: the sample last written and the paint it got       *)
  reported,  (* history: the line entry last taken off the queue            *)
  late,      (* history: when the last simulation began to end, the first   *)
             (* sample that was not yet on both queues                      *)
  overlapped (* history: were queues ever being emptied while a command was *)
             (* received or enqueued?  Nothing in the code forbids it       *)

producerVars == <<ppc, todo, bline, issued>>
historyVars  == <<acted, reported, late, overlapped>>
vars == <<sim, server, ready, target, paint, line, ppc, todo, bline, issued,
          cpc, current, info, historyVars>>

(* An entry of the line queue: the line number, and the newest sample at   *)
(* the time of the push (the sample itself, when the entry is a sample's). *)
LineEntry == [no : Nat, of : Nat]

(* The simulator thread empties queues, or is about to close the sessions. *)
Emptying == {"clearTarget", "clearPaint", "clearLine",
             "drainTarget", "drainPaint", "cancel"}

-----------------------------------------------------------------------------
(***************************************************************************)
(* The io thread.  Interpret runs in the read handler of the echo session, *)
(* so one command is enqueued to its last sample before the next is read.  *)
(***************************************************************************)

(* A command whose trajectory has n samples, all accepted by the adapter.  *)
ReceiveMotion(n, l) ==
  /\ ppc = "idle" /\ server = "up" /\ ready
  /\ overlapped' = (overlapped \/ cpc \in Emptying)
  /\ issued + n <= MaxSamples
  /\ todo' = n
  /\ bline' = l
  /\ issued' = issued + 1
  /\ ppc' = "target"
  /\ UNCHANGED <<sim, server, ready, target, paint, line, cpc, current, info, acted, reported,
                 late>>

(* A command with an empty trajectory only advances the line.              *)
ReceiveMotionless(l) ==
  /\ ppc = "idle" /\ server = "up" /\ ready
  /\ overlapped' = (overlapped \/ cpc \in Emptying)
  /\ Len(line) < MaxLineQueue
  /\ line' = Append(line, [no |-> l, of |-> issued])
  /\ UNCHANGED <<sim, server, ready, target, paint, producerVars, cpc, current, info, acted,
                 reported, late>>

\* Mutant: the target goes to the wrong end of the deque.
PushTargetAtBack ==
  /\ ppc = "target"
  /\ target' = << issued >> \o target
  /\ ppc' = "paint"
  /\ UNCHANGED <<sim, server, ready, paint, line, todo, bline, issued, cpc, current, info, historyVars>>

PushTarget ==
  /\ ppc = "target"
  /\ target' = Append(target, issued)
  /\ ppc' = "paint"
  /\ UNCHANGED <<sim, server, ready, paint, line, todo, bline, issued, cpc, current, info, historyVars>>

PushPaint ==
  /\ ppc = "paint"
  /\ paint' = Append(paint, issued)
  /\ ppc' = "line"
  /\ UNCHANGED <<sim, server, ready, target, line, todo, bline, issued, cpc, current, info, historyVars>>

\* Mutant: the loop over the samples runs once too often.
PushLineOffByOne ==
  /\ ppc = "line"
  /\ line' = Append(line, [no |-> bline, of |-> issued])
  /\ todo' = todo - 1
  /\ IF todo = 0
     THEN ppc' = "idle" /\ bline' = 0 /\ UNCHANGED issued
     ELSE ppc' = "target" /\ issued' = issued + 1 /\ UNCHANGED bline
  /\ UNCHANGED <<sim, server, ready, target, paint, cpc, current, info, historyVars>>

PushLine ==
  /\ ppc = "line"
  /\ line' = Append(line, [no |-> bline, of |-> issued])
  /\ todo' = todo - 1
  /\ IF todo = 1
     THEN ppc' = "idle" /\ bline' = 0 /\ UNCHANGED issued
     ELSE ppc' = "target" /\ issued' = issued + 1 /\ UNCHANGED bline
  /\ UNCHANGED <<sim, server, ready, target, paint, cpc, current, info, historyVars>>

-----------------------------------------------------------------------------
(***************************************************************************)
(* The simulator thread, sim_message_eventcallback_modulehandle.           *)
(***************************************************************************)

\* Mutant: the callback does not look whether there is a target.
BeginTickUnchecked ==
  /\ sim = "running" /\ cpc = "rest"
  /\ cpc' = IF ready THEN "paint" ELSE "lines"
  /\ UNCHANGED <<sim, server, ready, target, paint, line, producerVars, current, info, historyVars>>

BeginTick ==
  /\ sim = "running" /\ cpc = "rest"
  /\ cpc' = IF ready /\ target # << >> THEN "paint" ELSE "lines"
  /\ UNCHANGED <<sim, server, ready, target, paint, line, producerVars, current, info, historyVars>>

(* paint.back() waits on the queue's condition variable while it is empty. *)
ReadPaint ==
  /\ cpc = "paint" /\ paint # << >>
  /\ current' = Head(paint)
  /\ cpc' = "write"
  /\ UNCHANGED <<sim, server, ready, target, paint, line, producerVars, info, historyVars>>

WriteSucceeds ==
  /\ cpc = "write" /\ target # << >>
  /\ acted' = [sample |-> Head(target), paint |-> current]
  /\ current' = 0
  /\ cpc' = "popTarget"
  /\ UNCHANGED <<sim, server, ready, target, paint, line, producerVars, info, reported, late,
                 overlapped>>

(* A handle count that differs from the sample's, or a joint the simulator *)
(* refuses to move.                                                        *)
WriteFails ==
  /\ cpc = "write" /\ target # << >>
  /\ overlapped' = (overlapped \/ ppc # "idle")
  /\ current' = 0
  /\ cpc' = "clearTarget"
  /\ UNCHANGED <<sim, server, ready, target, paint, line, producerVars, info, acted, reported,
                 late>>

\* Mutant: the target that was written is not popped.
PopTargetForgotten ==
  /\ cpc = "popTarget"
  /\ cpc' = "popPaint"
  /\ UNCHANGED <<sim, server, ready, target, paint, line, producerVars, current, info, historyVars>>

PopTarget ==
  /\ cpc = "popTarget"
  /\ target' = IF target # << >> THEN Tail(target) ELSE target
  /\ cpc' = "popPaint"
  /\ UNCHANGED <<sim, server, ready, paint, line, producerVars, current, info, historyVars>>

PopPaint ==
  /\ cpc = "popPaint"
  /\ paint' = IF paint # << >> THEN Tail(paint) ELSE paint
  /\ cpc' = "lines"
  /\ UNCHANGED <<sim, server, ready, target, line, producerVars, current, info, historyVars>>

ClearTarget ==
  /\ cpc = "clearTarget"
  /\ target' = << >>
  /\ cpc' = "clearPaint"
  /\ UNCHANGED <<sim, server, ready, paint, line, producerVars, current, info, historyVars>>

\* Mutant: a failed write leaves the paint queue as it is.
ClearPaintForgotten ==
  /\ cpc = "clearPaint"
  /\ cpc' = "clearLine"
  /\ UNCHANGED <<sim, server, ready, target, paint, line, producerVars, current, info, historyVars>>

ClearPaint ==
  /\ cpc = "clearPaint"
  /\ paint' = << >>
  /\ cpc' = "clearLine"
  /\ UNCHANGED <<sim, server, ready, target, line, producerVars, current, info, historyVars>>

ClearLine ==
  /\ cpc = "clearLine"
  /\ line' = << >>
  /\ cpc' = "lines"
  /\ UNCHANGED <<sim, server, ready, target, paint, producerVars, current, info, historyVars>>

(* One line entry per callback; it is broadcast when the line is new, or   *)
(* when a collision shows up on a line broadcast without one.              *)
ReportLine(colliding) ==
  /\ cpc = "lines" /\ line # << >>
  /\ LET l == Head(line).no IN
     IF info.line # l \/ (~info.collision /\ colliding)
     THEN info' = [line |-> l, collision |-> colliding]
     ELSE UNCHANGED info
  /\ reported' = Head(line)
  /\ line' = Tail(line)
  /\ cpc' = "rest"
  /\ UNCHANGED <<sim, server, ready, target, paint, producerVars, current, acted, late, overlapped>>

NoLineToReport ==
  /\ cpc = "lines" /\ line = << >>
  /\ cpc' = "rest"
  /\ UNCHANGED <<sim, server, ready, target, paint, line, producerVars, current, info, historyVars>>

-----------------------------------------------------------------------------
(***************************************************************************)
(* The simulator thread: the simulation starts and ends, and a script      *)
(* initialises the plugin again in between.                                *)
(***************************************************************************)

(* sim_message_eventcallback_simulationabouttostart: the handles, then the *)
(* server.  Nothing ever resets ready, nor restarts a spent io_context.    *)
SimulationAboutToStart(handlesFound) ==
  /\ sim = "stopped"
  /\ sim' = "running"
  /\ ready' = (ready \/ handlesFound)
  /\ server' = IF server = "fresh" THEN "up" ELSE server
  /\ UNCHANGED <<target, paint, line, producerVars, cpc, current, info, historyVars>>

(* sim_message_eventcallback_simulationended, up to the end of the         *)
(* callback: two queues are drained entry by entry, then the server is     *)
(* stopped: its sessions are closed and its thread is joined.              *)
SimulationEnded ==
  /\ sim = "running" /\ cpc = "rest"
  /\ overlapped' = (overlapped \/ ppc # "idle")
  /\ cpc' = "drainTarget"
  /\ late' = IF ppc = "idle" THEN issued + 1 ELSE issued
  /\ UNCHANGED <<sim, server, ready, target, paint, line, producerVars, current, info, acted,
                 reported>>

DrainTarget ==
  /\ cpc = "drainTarget"
  /\ target' = IF target # << >> THEN Tail(target) ELSE target
  /\ cpc' = IF target # << >> THEN "drainTarget" ELSE "drainPaint"
  /\ UNCHANGED <<sim, server, ready, paint, line, producerVars, current, info, historyVars>>

\* Mutant: only the first paint is drained.
DrainPaintOnce ==
  /\ cpc = "drainPaint"
  /\ paint' = IF paint # << >> THEN Tail(paint) ELSE paint
  /\ cpc' = "cancel"
  /\ UNCHANGED <<sim, server, ready, target, line, producerVars, current, info, historyVars>>

DrainPaint ==
  /\ cpc = "drainPaint"
  /\ paint' = IF paint # << >> THEN Tail(paint) ELSE paint
  /\ cpc' = IF paint # << >> THEN "drainPaint" ELSE "cancel"
  /\ UNCHANGED <<sim, server, ready, target, line, producerVars, current, info, historyVars>>

CancelSessions ==
  /\ cpc = "cancel"
  /\ server' = IF server = "up" THEN "closed" ELSE server
  /\ cpc' = "join"
  /\ UNCHANGED <<sim, ready, target, paint, line, producerVars, current, info, historyVars>>

JoinServerThread ==
  /\ cpc = "join" /\ ppc = "idle"
  /\ server' = "spent"
  /\ sim' = "stopped"
  /\ cpc' = "rest"
  /\ UNCHANGED <<ready, target, paint, line, producerVars, current, info, historyVars>>

(* simFIBR3D.init: new Printer, Extruder and CommunicationManager; the     *)
(* global info_line stays.                                                 *)
LuaInit ==
  /\ sim = "stopped" /\ server = "spent"
  /\ ready' = FALSE
  /\ server' = "fresh"
  /\ target' = << >> /\ paint' = << >> /\ line' = << >>
  /\ UNCHANGED <<sim, producerVars, cpc, current, info, historyVars>>

-----------------------------------------------------------------------------
Init ==
  /\ sim = "stopped" /\ server = "fresh" /\ ready = FALSE
  /\ target = << >> /\ paint = << >> /\ line = << >>
  /\ ppc = "idle" /\ todo = 0 /\ bline = 0 /\ issued = 0
  /\ cpc = "rest" /\ current = 0
  /\ info = [line |-> 0, collision |-> FALSE]
  /\ late = 1 /\ overlapped = FALSE
  /\ acted = [sample |-> 0, paint |-> 0]
  /\ reported = [no |-> 0, of |-> 0]

Push == PushTarget \/ PushPaint \/ PushLine

Receive ==
  \E l \in Lines :
    \/ \E n \in 1 .. MaxBatch : ReceiveMotion(n, l)
    \/ ReceiveMotionless(l)

Report == NoLineToReport \/ \E colliding \in BOOLEAN : ReportLine(colliding)

Write == WriteSucceeds \/ WriteFails

Callback ==
  \/ ReadPaint \/ Write \/ PopTarget \/ PopPaint
  \/ ClearTarget \/ ClearPaint \/ ClearLine \/ Report
  \/ DrainTarget \/ DrainPaint \/ CancelSessions \/ JoinServerThread

Environment ==
  \/ \E handlesFound \in BOOLEAN : SimulationAboutToStart(handlesFound)
  \/ SimulationEnded
  \/ LuaInit

Next == Push \/ Receive \/ BeginTick \/ Callback \/ Environment

(* The io thread finishes a command it has begun, a callback continues     *)
(* while nothing it waits for is missing, and a running simulation keeps   *)
(* calling the plugin.  Clients, the user and the scene owe nothing.       *)
Fairness == WF_vars(Push) /\ WF_vars(Callback) /\ WF_vars(BeginTick)

Spec == Init /\ [][Next]_vars /\ Fairness

-----------------------------------------------------------------------------
(***************************************************************************)
(* Properties.                                                             *)
(***************************************************************************)

(* The newest sample already on the target queue, and on the paint queue.   *)
TargetEnd == IF ppc = "target" THEN issued - 1 ELSE issued
PaintEnd  == IF ppc \in {"target", "paint"} THEN issued - 1 ELSE issued

(* The newest sample no longer on the target queue, and on the paint queue.*)
TargetGone == TargetEnd - Len(target)
PaintGone  == PaintEnd - Len(paint)

(* Types, with the places each thread can be in.                           *)
TypeOK ==
  /\ sim \in {"stopped", "running"}
  /\ server \in {"fresh", "up", "closed", "spent"}
  /\ ready \in BOOLEAN
  /\ target \in Seq(Nat) /\ paint \in Seq(Nat) /\ line \in Seq(LineEntry)
  /\ ppc \in {"idle", "target", "paint", "line"}
  /\ todo \in Nat /\ bline \in Nat /\ issued \in Nat
  /\ cpc \in {"rest", "paint", "write", "popTarget", "popPaint", "lines", "join"} \cup Emptying
  /\ current \in Nat
  /\ info \in [line : Nat, collision : BOOLEAN]
  /\ acted \in [sample : Nat, paint : Nat]
  /\ reported \in LineEntry
  /\ late \in Nat /\ overlapped \in BOOLEAN

(* Every pose the simulator thread writes is drawn with the extrusion flag *)
(* of the same sample: "for each trajectory path point, the simulator      *)
(* thread can pop one joint values set and an extrude set".                *)
PairedActuation == acted.sample = acted.paint

(* That much is true as long as the client is quiet whenever queues are    *)
(* emptied, however the three pushes of a sample and the pops interleave,  *)
(* and however often writes fail and simulations end.                      *)
PairedWhenQuiet == ~overlapped => PairedActuation

(* "If queues not empty, empty": when a simulation whose client was quiet  *)
(* has ended, no sample is left that the next one would start with.        *)
QueuesEmptyWhenStopped ==
  ~overlapped /\ sim = "stopped" => target = << >> /\ paint = << >>

(* The queues are emptied before the thread that fills them is stopped     *)
(* (simExtFIBR3D.cpp:1027), so that samples may be left, but whatever the  *)
(* io thread pushes in the meantime, only such as were not yet whole on    *)
(* the queues when the simulation began to end: none of the old ones.      *)
OldSamplesDrained ==
  sim = "stopped" =>
    /\ \A i \in DOMAIN target : target[i] >= late
    /\ \A i \in DOMAIN paint : paint[i] >= late

(* Samples are written in the order the trajectories made them, and none   *)
(* is written twice, whatever is cleared or restarted in between.          *)
NeverReplays == [][acted' # acted => acted'.sample > acted.sample]_vars

(* A line reported to a quiet client is never ahead of the motion by more  *)
(* than one sample: the callback takes at most one line entry, after the   *)
(* write.                                                                  *)
LineFollows  == reported.of <= TargetGone + 1
LineNotAhead == ~overlapped => LineFollows

(* A callback into the plugin returns: the wait for the paint of a sample  *)
(* and the join of the server thread both end, as long as no paint was     *)
(* taken away by an emptying that met a command on its way.                *)
CallbackReturns == cpc # "rest" ~> cpc = "rest" \/ overlapped

(* The abstract pipeline: one queue of whole samples.  The three queues    *)
(* behave like it for as long as the client is quiet.                      *)
Pending == IF cpc = "popTarget" THEN Tail(target) ELSE target
Fifo == INSTANCE SampleFifo WITH queue <- Pending, made <- TargetEnd
FifoWhenQuiet ==
  Fifo!Init /\ [][overlapped' \/ [Fifo!Next]_(Fifo!vars)]_vars
=============================================================================
