--------------------------- MODULE ServerLifecycle ---------------------------
(***************************************************************************)
(* The server of the plugin (Server.cpp) over several simulations: the     *)
(* acceptors of the echo and the send port, their two sessions, the        *)
(* io_context with its thread, and the client that connects to both ports. *)
(*                                                                         *)
(* A step is one handler run by the io thread, one call of LaunchServer,   *)
(* one half of StopServer, or one step of the client.  Commands have no    *)
(* content here (SamplePipeline) and neither have status messages          *)
(* (StatusChannel).                                                        *)
(***************************************************************************)
EXTENDS Integers

CONSTANTS
  MaxLaunches,  (* bound: simulations                                       *)
  MaxKnocks,    (* bound: connections a client makes in one simulation      *)
  InitEachRun   (* does simFIBR3D.init make a new CommunicationManager      *)
                (* before each simulation?                                  *)

ASSUME LifecycleAssumption ==
  /\ MaxLaunches \in Nat /\ MaxKnocks \in Nat
  /\ InitEachRun \in BOOLEAN

Ports == {"echo", "send"}

VARIABLES
  sim,        (* is the simulation stopped or running?                      *)
  spc,        (* simulator thread: where it is in StopServer                *)
  ios,        (* the io_context and its thread: run() not called, in run(), *)
              (* or out of it, and then for good                            *)
  listening,  (* are the acceptors open, so that connections queue up?      *)
  accept,     (* the asynchronous accept of each port                       *)
  session,    (* the socket of each session                                 *)
  op,         (* what the echo session waits for                            *)
  client,     (* the client's connection to each port                       *)
  ghost,      (* is a connection its client gave up queued at the port?     *)
  asked,      (* the client's command: none, sent or answered               *)
  launches,   (* simulations so far                                         *)
  knocks      (* connections made to the echo port since the launch         *)

vars == <<sim, spc, ios, listening, accept, session, op, client, ghost, asked,
          launches, knocks>>

clientVars == <<client, ghost, asked, knocks>>
serverVars == <<accept, session, op>>

Everywhere(x) == [port \in Ports |-> x]

(* Closing the server's end of its connections.                            *)
Drop(states) ==
  [port \in Ports |-> IF client[port] \in states THEN "dropped" ELSE client[port]]

-----------------------------------------------------------------------------
(* LaunchServer: the new Server opens its acceptors while the old Server,  *)
(* if there is one, still has its own open: that works or throws, by the   *)
(* platform's reading of SO_REUSEADDR.  run() does nothing on an           *)
(* io_context it has already returned from.                                *)
LaunchServer(binds) ==
  /\ sim = "stopped" /\ launches < MaxLaunches
  /\ InitEachRun => ios = "fresh"
  /\ ios = "fresh" => binds
  /\ sim' = "running"
  /\ launches' = launches + 1
  /\ knocks' = 0
  /\ ios' = IF ios = "fresh" THEN "running" ELSE ios
  /\ IF binds
     THEN /\ listening' = TRUE
          /\ accept' = Everywhere("pending")
          /\ session' = Everywhere("closed")
          /\ client' = Drop({"waiting", "linked"})
          /\ ghost' = Everywhere(FALSE)
     ELSE UNCHANGED <<listening, accept, session, client, ghost>>
  /\ UNCHANGED <<spc, op, asked>>

\* Mutant: the echo session is not started.
HandleAcceptWithoutStart(port) ==
  /\ ios = "running" /\ accept[port] = "pending"
  /\ ghost[port] \/ client[port] = "waiting"
  /\ accept' = [accept EXCEPT ![port] = "done"]
  /\ session' = [session EXCEPT ![port] = "open"]
  /\ IF ghost[port]
     THEN ghost' = [ghost EXCEPT ![port] = FALSE] /\ UNCHANGED client
     ELSE client' = [client EXCEPT ![port] = "linked"] /\ UNCHANGED ghost
  /\ UNCHANGED <<sim, spc, ios, listening, op, asked, launches, knocks>>

(* handle_accept_echo and handle_accept_send without an error.  Nothing    *)
(* accepts a second connection.                                            *)
HandleAccept(port) ==
  /\ ios = "running" /\ accept[port] = "pending"
  /\ ghost[port] \/ client[port] = "waiting"
  /\ accept' = [accept EXCEPT ![port] = "done"]
  /\ session' = [session EXCEPT ![port] = "open"]
  /\ IF ghost[port]
     THEN ghost' = [ghost EXCEPT ![port] = FALSE] /\ UNCHANGED client
     ELSE client' = [client EXCEPT ![port] = "linked"] /\ UNCHANGED ghost
  /\ op' = IF port = "echo" THEN "reading" ELSE op
  /\ UNCHANGED <<sim, spc, ios, listening, asked, launches, knocks>>

HandleAcceptAborted(port) ==
  /\ ios = "running" /\ accept[port] = "aborted"
  /\ accept' = [accept EXCEPT ![port] = "done"]
  /\ UNCHANGED <<sim, spc, ios, listening, session, op, clientVars, launches>>

(* SessionEcho::handle_read: the echo goes out and the command is          *)
(* interpreted; the next read starts in handle_write.                      *)
HandleRead ==
  /\ ios = "running" /\ op = "reading"
  /\ client["echo"] = "linked" /\ asked = "sent"
  /\ asked' = "answered"
  /\ op' = "writing"
  /\ UNCHANGED <<sim, spc, ios, listening, accept, session, client, ghost, launches, knocks>>

(* An error: a message for the user, and no further read.                  *)
HandleReadError ==
  /\ ios = "running" /\ op = "reading"
  /\ client["echo"] # "linked"
  /\ op' = "none"
  /\ UNCHANGED <<sim, spc, ios, listening, accept, session, clientVars, launches>>

\* Mutant: no read follows the write.
HandleWriteWithoutRead ==
  /\ ios = "running" /\ op = "writing"
  /\ op' = "none"
  /\ UNCHANGED <<sim, spc, ios, listening, accept, session, clientVars, launches>>

HandleWrite ==
  /\ ios = "running" /\ op = "writing"
  /\ op' = "reading"
  /\ UNCHANGED <<sim, spc, ios, listening, accept, session, clientVars, launches>>

(* io_context::run returns when nothing is left to wait for.               *)
RunReturns ==
  /\ ios = "running" /\ op = "none"
  /\ \A port \in Ports : accept[port] = "done"
  /\ ios' = "over"
  /\ UNCHANGED <<sim, spc, listening, serverVars, clientVars, launches>>

-----------------------------------------------------------------------------
(* StopServer on the simulator thread: cancel_sessions closes the sockets, *)
(* then cancels the accepts; then the thread is joined.                    *)
CloseSessions ==
  /\ sim = "running" /\ spc = "rest"
  /\ session' = Everywhere("closed")
  /\ client' = Drop({"linked"})
  /\ spc' = "cancel"
  /\ UNCHANGED <<sim, ios, listening, accept, op, ghost, asked, launches, knocks>>

\* Mutant: the accepts are left pending.
CancelNothing ==
  /\ spc = "cancel"
  /\ spc' = "join"
  /\ UNCHANGED <<sim, ios, listening, accept, session, op, clientVars, launches>>

\* Mutant: the simulation counts as stopped before the join.
CancelAcceptsAndStop ==
  /\ spc = "cancel"
  /\ accept' = [port \in Ports |-> IF accept[port] = "pending" THEN "aborted" ELSE accept[port]]
  /\ spc' = "join"
  /\ sim' = "stopped"
  /\ UNCHANGED <<ios, listening, session, op, clientVars, launches>>

CancelAccepts ==
  /\ spc = "cancel"
  /\ accept' = [port \in Ports |-> IF accept[port] = "pending" THEN "aborted" ELSE accept[port]]
  /\ spc' = "join"
  /\ UNCHANGED <<sim, ios, listening, session, op, clientVars, launches>>

\* Mutant: the simulation does not wait for the thread.
JoinNothing ==
  /\ spc = "join"
  /\ spc' = "rest"
  /\ sim' = "stopped"
  /\ UNCHANGED <<ios, listening, serverVars, clientVars, launches>>

Join ==
  /\ spc = "join" /\ ios = "over"
  /\ spc' = "rest"
  /\ sim' = "stopped"
  /\ UNCHANGED <<ios, listening, serverVars, clientVars, launches>>

(* simFIBR3D.init: the old manager goes, with its Server and acceptors.    *)
LuaInit ==
  /\ sim = "stopped" /\ ios = "over"
  /\ ios' = "fresh"
  /\ listening' = FALSE
  /\ accept' = Everywhere("none") /\ session' = Everywhere("closed") /\ op' = "none"
  /\ client' = Drop({"waiting", "linked"})
  /\ ghost' = Everywhere(FALSE)
  /\ UNCHANGED <<sim, spc, asked, launches, knocks>>

-----------------------------------------------------------------------------
(* The client (SocketClient.cs): the echo port first, then the send port.  *)
ConnectEcho ==
  /\ client = Everywhere("away") /\ listening /\ knocks < MaxKnocks
  /\ client' = [client EXCEPT !["echo"] = "waiting"]
  /\ knocks' = knocks + 1
  /\ UNCHANGED <<sim, spc, ios, listening, serverVars, ghost, asked, launches>>

ConnectSend ==
  /\ client["echo"] \in {"waiting", "linked"} /\ client["send"] = "away" /\ listening
  /\ client' = [client EXCEPT !["send"] = "waiting"]
  /\ UNCHANGED <<sim, spc, ios, listening, serverVars, ghost, asked, launches, knocks>>

SendCommand ==
  /\ client["echo"] \in {"waiting", "linked"} /\ client["send"] # "away"
  /\ asked # "sent"
  /\ asked' = "sent"
  /\ UNCHANGED <<sim, spc, ios, listening, serverVars, client, ghost, launches, knocks>>

(* The user disconnects, or an answer does not come in time.               *)
Disconnect ==
  /\ client["echo"] # "away"
  /\ client' = Everywhere("away")
  /\ ghost' = [port \in Ports |-> ghost[port] \/ client[port] = "waiting"]
  /\ asked' = "none"
  /\ UNCHANGED <<sim, spc, ios, listening, serverVars, launches, knocks>>

-----------------------------------------------------------------------------
Init ==
  /\ sim = "stopped" /\ spc = "rest" /\ ios = "fresh" /\ listening = FALSE
  /\ accept = Everywhere("none") /\ session = Everywhere("closed") /\ op = "none"
  /\ client = Everywhere("away") /\ ghost = Everywhere(FALSE) /\ asked = "none"
  /\ launches = 0 /\ knocks = 0

IoThread ==
  \/ \E port \in Ports : HandleAccept(port) \/ HandleAcceptAborted(port)
  \/ HandleRead \/ HandleReadError \/ HandleWrite \/ RunReturns

StopServer == CancelAccepts \/ Join

Client == ConnectEcho \/ ConnectSend \/ SendCommand \/ Disconnect

Next ==
  \/ \E binds \in BOOLEAN : LaunchServer(binds)
  \/ IoThread \/ CloseSessions \/ StopServer \/ LuaInit \/ Client

(* The io thread runs what is ready, and a StopServer once begun goes on.  *)
Fairness ==
  /\ \A port \in Ports : WF_vars(HandleAccept(port))
  /\ WF_vars(IoThread)
  /\ WF_vars(StopServer)

Spec == Init /\ [][Next]_vars /\ Fairness

-----------------------------------------------------------------------------
(***************************************************************************)
(* Properties.                                                             *)
(***************************************************************************)

(* Types; StopServer is part of a simulation, and a port that nobody       *)
(* listens on has no accept.                                               *)
TypeOK ==
  /\ sim \in {"stopped", "running"}
  /\ spc \in {"rest", "cancel", "join"}
  /\ ios \in {"fresh", "running", "over"}
  /\ listening \in BOOLEAN
  /\ accept \in [Ports -> {"none", "pending", "done", "aborted"}]
  /\ session \in [Ports -> {"closed", "open"}]
  /\ op \in {"none", "reading", "writing"}
  /\ client \in [Ports -> {"away", "waiting", "linked", "dropped"}]
  /\ ghost \in [Ports -> BOOLEAN]
  /\ asked \in {"none", "sent", "answered"}
  /\ launches \in 0 .. MaxLaunches /\ knocks \in 0 .. MaxKnocks
  /\ spc # "rest" => sim = "running"
  /\ ~listening => accept = Everywhere("none")

(* When the simulation has ended no handler can run any more, so that no   *)
(* command reaches the plugin before the next launch.                      *)
QuietWhenStopped == sim = "stopped" => ios # "running" /\ op = "none"

(* An accepted client talks to a session of its own: the two ends of the   *)
(* echo connection agree that it is there, and somebody reads it.          *)
LinkedIsHeard ==
  client["echo"] = "linked" => session["echo"] = "open" /\ op # "none" /\ ios = "running"

(* The first client of a simulation gets an answer to its command, unless  *)
(* it leaves or the simulation ends: "Try to stop and relaunch simulation".*)
Unanswered == asked = "sent" /\ sim = "running" /\ spc = "rest"
FirstClientServed ==
  Unanswered /\ knocks = 1 ~> ~Unanswered

(* "Close TCP/IP connection with Printer parser": StopServer returns.      *)
StopReturns == spc # "rest" ~> spc = "rest"

(* It does when nobody talks to the echo session for ever.                 *)
StopReturnsWithoutClient ==
  []<>(client["echo"] # "linked") => StopReturns
=============================================================================
