------------------------ MODULE ServerLifecycleProofs ------------------------
(***************************************************************************)
(* Proofs about ServerLifecycle, for any number of simulations and         *)
(* connections, and whether or not a new manager is made for each run:     *)
(* types, silence between simulations, that every linked client is heard,  *)
(* and what the stop of the server waits for.                              *)
(***************************************************************************)
EXTENDS ServerLifecycle, TLAPS

(* Only a running io_context has an echo session at work: run() does not   *)
(* return while an operation is outstanding, and none starts afterwards.   *)
WorkIsRun == ios # "running" => op = "none"

LifecycleInv == TypeOK /\ WorkIsRun /\ QuietWhenStopped /\ LinkedIsHeard

-----------------------------------------------------------------------------
(* The functions with one value, and those that drop a connection.         *)
LEMMA EverywhereType ==
  ASSUME NEW S, NEW x \in S
  PROVE  Everywhere(x) \in [Ports -> S]
  BY Zenon DEF Everywhere

(* Dropping connections leaves a state of each.                            *)
LEMMA DropType ==
  ASSUME NEW states, client \in [Ports -> {"away", "waiting", "linked", "dropped"}]
  PROVE  Drop(states) \in [Ports -> {"away", "waiting", "linked", "dropped"}]
  BY DEF Drop

(* A connection in a state that is dropped is not linked afterwards.       *)
LEMMA DropEcho ==
  ASSUME NEW states, "linked" \in states
  PROVE  Drop(states)["echo"] # "linked"
<1>1. Drop(states)["echo"] = IF client["echo"] \in states THEN "dropped" ELSE client["echo"]
  BY Zenon DEF Drop, Ports
<1> QED BY <1>1

(* The invariant holds when the plugin is loaded.                          *)
LEMMA InitLifecycle == Init => LifecycleInv
<1> SUFFICES ASSUME Init PROVE LifecycleInv
  OBVIOUS
<1>1. launches \in 0 .. MaxLaunches /\ knocks \in 0 .. MaxKnocks
  BY LifecycleAssumption DEF Init
<1>2. ghost \in [Ports -> BOOLEAN]
  BY Zenon DEF Init, Everywhere
<1>3. TypeOK
  BY <1>1, <1>2 DEF Init, TypeOK, Everywhere
<1> QED BY <1>3 DEF Init, LifecycleInv, WorkIsRun, QuietWhenStopped, LinkedIsHeard,
                    Everywhere, Ports

(* A launch keeps the invariant.                                           *)
LEMMA LaunchStep ==
  ASSUME LifecycleInv, NEW binds \in BOOLEAN, LaunchServer(binds)
  PROVE  LifecycleInv'
<1>1. TypeOK'
  <2>1. launches' \in 0 .. MaxLaunches /\ knocks' \in 0 .. MaxKnocks
    BY LifecycleAssumption DEF LifecycleInv, TypeOK, LaunchServer
  <2>2. CASE ~binds
    BY <2>1, <2>2 DEF LifecycleInv, TypeOK, LaunchServer
  <2>3. CASE binds
    <3>1. Everywhere(FALSE) \in [Ports -> BOOLEAN]
      BY EverywhereType
    <3>2. Everywhere("pending") \in [Ports -> {"none", "pending", "done", "aborted"}]
      BY EverywhereType
    <3>3. Everywhere("closed") \in [Ports -> {"closed", "open"}]
      BY EverywhereType
    <3>4. client' \in [Ports -> {"away", "waiting", "linked", "dropped"}]
      BY <2>3, DropType DEF LifecycleInv, TypeOK, LaunchServer
    <3>5. accept' = Everywhere("pending") /\ session' = Everywhere("closed")
      BY <2>3 DEF LaunchServer
    <3>6. ghost' = Everywhere(FALSE)
      BY <2>3, Zenon DEF LaunchServer
    <3>7. ghost' \in [Ports -> BOOLEAN]
      BY <3>1, <3>6
    <3>8. sim' = "running" /\ listening' = TRUE /\ spc' = spc /\ op' = op /\ asked' = asked
      BY <2>3, Zenon DEF LaunchServer
    <3>9. ios' \in {"fresh", "running", "over"}
      BY DEF LifecycleInv, TypeOK, LaunchServer
    <3> QED BY <2>1, <3>2, <3>3, <3>4, <3>5, <3>7, <3>8, <3>9 DEF LifecycleInv, TypeOK
  <2> QED BY <2>2, <2>3
<1>2. WorkIsRun'
  BY DEF LifecycleInv, WorkIsRun, QuietWhenStopped, LaunchServer
<1>3. QuietWhenStopped'
  BY DEF QuietWhenStopped, LaunchServer
<1>4. LinkedIsHeard'
  <2>1. client'["echo"] # "linked"
    <3>1. CASE binds
      BY <3>1, DropEcho DEF LaunchServer
    <3>2. CASE ~binds
      BY <3>2 DEF LifecycleInv, QuietWhenStopped, LinkedIsHeard, LaunchServer
    <3> QED BY <3>1, <3>2
  <2> QED BY <2>1 DEF LinkedIsHeard
<1> QED BY <1>1, <1>2, <1>3, <1>4 DEF LifecycleInv

(* So does an accepted connection,                                         *)
LEMMA AcceptStep ==
  ASSUME LifecycleInv, NEW port \in Ports, HandleAccept(port)
  PROVE  LifecycleInv'
<1>1. TypeOK'
  <2>1. listening
    BY DEF LifecycleInv, TypeOK, HandleAccept, Everywhere
  <2> QED BY <2>1 DEF LifecycleInv, TypeOK, HandleAccept
<1>2. WorkIsRun' /\ QuietWhenStopped'
  BY DEF LifecycleInv, WorkIsRun, QuietWhenStopped, HandleAccept
<1>3. LinkedIsHeard'
  <2>1. CASE port = "echo"
    BY <2>1 DEF LifecycleInv, TypeOK, LinkedIsHeard, HandleAccept, Ports
  <2>2. CASE port = "send"
    BY <2>2 DEF LifecycleInv, TypeOK, LinkedIsHeard, HandleAccept, Ports
  <2> QED BY <2>1, <2>2 DEF Ports
<1> QED BY <1>1, <1>2, <1>3 DEF LifecycleInv

(* every other handler of the io thread,                                   *)
LEMMA IoThreadStep ==
  ASSUME LifecycleInv, IoThread
  PROVE  LifecycleInv'
<1>1. CASE \E port \in Ports : HandleAccept(port)
  BY <1>1, AcceptStep
<1>2. CASE \E port \in Ports : HandleAcceptAborted(port)
  <2> PICK port \in Ports : HandleAcceptAborted(port)
    BY <1>2
  <2>1. listening
    BY DEF LifecycleInv, TypeOK, HandleAcceptAborted, Everywhere
  <2> QED BY <2>1 DEF LifecycleInv, TypeOK, WorkIsRun, QuietWhenStopped, LinkedIsHeard,
                      HandleAcceptAborted, clientVars
<1>3. CASE HandleRead
  BY <1>3 DEF LifecycleInv, TypeOK, WorkIsRun, QuietWhenStopped, LinkedIsHeard, HandleRead
<1>4. CASE HandleReadError
  BY <1>4 DEF LifecycleInv, TypeOK, WorkIsRun, QuietWhenStopped, LinkedIsHeard,
              HandleReadError, clientVars
<1>5. CASE HandleWrite
  BY <1>5 DEF LifecycleInv, TypeOK, WorkIsRun, QuietWhenStopped, LinkedIsHeard,
              HandleWrite, clientVars
<1>6. CASE RunReturns
  BY <1>6 DEF LifecycleInv, TypeOK, WorkIsRun, QuietWhenStopped, LinkedIsHeard,
              RunReturns, serverVars, clientVars
<1> QED BY <1>1, <1>2, <1>3, <1>4, <1>5, <1>6 DEF IoThread

(* every step of the simulator thread,                                     *)
LEMMA SimulatorStep ==
  ASSUME LifecycleInv, CloseSessions \/ StopServer \/ LuaInit
  PROVE  LifecycleInv'
<1>1. CASE CloseSessions
  <2>1. client'["echo"] # "linked"
    BY <1>1, DropEcho DEF CloseSessions
  <2>2. TypeOK'
    BY <1>1, DropType DEF LifecycleInv, TypeOK, CloseSessions, Everywhere
  <2> QED BY <1>1, <2>1, <2>2
          DEF LifecycleInv, WorkIsRun, QuietWhenStopped, LinkedIsHeard, CloseSessions
<1>2. CASE CancelAccepts
  BY <1>2 DEF LifecycleInv, TypeOK, WorkIsRun, QuietWhenStopped, LinkedIsHeard,
              CancelAccepts, Everywhere, clientVars
<1>3. CASE Join
  BY <1>3 DEF LifecycleInv, TypeOK, WorkIsRun, QuietWhenStopped, LinkedIsHeard,
              Join, serverVars, clientVars
<1>4. CASE LuaInit
  <2>1. client'["echo"] # "linked"
    BY <1>4, DropEcho DEF LuaInit
  <2>2. TypeOK'
    BY <1>4, DropType DEF LifecycleInv, TypeOK, LuaInit, Everywhere
  <2> QED BY <1>4, <2>1, <2>2
          DEF LifecycleInv, WorkIsRun, QuietWhenStopped, LinkedIsHeard, LuaInit
<1> QED BY <1>1, <1>2, <1>3, <1>4 DEF StopServer

(* and every step of the client.                                           *)
LEMMA ClientStep ==
  ASSUME LifecycleInv, Client
  PROVE  LifecycleInv'
<1>1. WorkIsRun' /\ QuietWhenStopped'
  BY DEF LifecycleInv, WorkIsRun, QuietWhenStopped, Client, ConnectEcho, ConnectSend,
         SendCommand, Disconnect, serverVars
<1>2. TypeOK'
  <2>1. CASE ConnectEcho
    <3>1. knocks' \in 0 .. MaxKnocks
      BY <2>1, LifecycleAssumption DEF LifecycleInv, TypeOK, ConnectEcho
    <3> QED BY <2>1, <3>1 DEF LifecycleInv, TypeOK, ConnectEcho, serverVars, Everywhere
  <2>2. CASE ConnectSend
    BY <2>2 DEF LifecycleInv, TypeOK, ConnectSend, serverVars, Everywhere
  <2>3. CASE SendCommand
    BY <2>3 DEF LifecycleInv, TypeOK, SendCommand, serverVars
  <2>4. CASE Disconnect
    <3>1. Everywhere("away") \in [Ports -> {"away", "waiting", "linked", "dropped"}]
      BY EverywhereType
    <3>2. ghost' \in [Ports -> BOOLEAN]
      BY <2>4 DEF LifecycleInv, TypeOK, Disconnect
    <3> QED BY <2>4, <3>1, <3>2 DEF LifecycleInv, TypeOK, Disconnect, serverVars
  <2> QED BY <2>1, <2>2, <2>3, <2>4 DEF Client
<1>3. LinkedIsHeard'
  <2>1. CASE ConnectEcho \/ Disconnect
    BY <2>1 DEF LifecycleInv, TypeOK, LinkedIsHeard, ConnectEcho, Disconnect, Everywhere, Ports
  <2>2. CASE ConnectSend \/ SendCommand
    BY <2>2 DEF LifecycleInv, TypeOK, LinkedIsHeard, ConnectSend, SendCommand, serverVars, Ports
  <2> QED BY <2>1, <2>2 DEF Client
<1> QED BY <1>1, <1>2, <1>3 DEF LifecycleInv

(* Hence every step keeps it.                                              *)
LEMMA LifecycleStep ==
  ASSUME LifecycleInv, [Next]_vars
  PROVE  LifecycleInv'
<1>1. CASE \E binds \in BOOLEAN : LaunchServer(binds)
  BY <1>1, LaunchStep
<1>2. CASE IoThread
  BY <1>2, IoThreadStep
<1>3. CASE CloseSessions \/ StopServer \/ LuaInit
  BY <1>3, SimulatorStep
<1>4. CASE Client
  BY <1>4, ClientStep
<1>5. CASE UNCHANGED vars
  BY <1>5 DEF vars, LifecycleInv, TypeOK, WorkIsRun, QuietWhenStopped, LinkedIsHeard
<1> QED BY <1>1, <1>2, <1>3, <1>4, <1>5 DEF Next

(* It holds in every reachable state.                                      *)
LEMMA LifecycleInvariant == Spec => []LifecycleInv
  BY InitLifecycle, LifecycleStep, PTL DEF Spec

-----------------------------------------------------------------------------
(* Types in every reachable state; a simulator thread that waits in        *)
(* StopServer is in a simulation, and no closed port has an accept.        *)
THEOREM TypeCorrect == Spec => []TypeOK
  BY LifecycleInvariant, PTL DEF LifecycleInv

(* No handler of the server can run between two simulations, over any      *)
(* number of launches, stops and reconnections.                            *)
THEOREM QuietWhenStoppedHolds == Spec => []QuietWhenStopped
  BY LifecycleInvariant, PTL DEF LifecycleInv

(* No accepted client is left with a session nobody reads.                 *)
THEOREM LinkedIsHeardHolds == Spec => []LinkedIsHeard
  BY LifecycleInvariant, PTL DEF LifecycleInv

-----------------------------------------------------------------------------
(***************************************************************************)
(* Why StopServer returns when no client is linked: what the join waits    *)
(* for comes, and the steps to it are counted.  (That it does is the run's *)
(* StopReturnsWithoutClient, which needs fairness.)                        *)
(***************************************************************************)

(* A handler of the io thread can run: the guards of its actions when no   *)
(* client is linked.                                                       *)
HandlerReady ==
  \/ \E port \in Ports : accept[port] = "aborted"
  \/ op \in {"reading", "writing"}
  \/ \A port \in Ports : accept[port] = "done"

(* The simulator thread that joins the io thread waits for one that has    *)
(* returned, or that has something to do and is on its way out; only a     *)
(* client that was accepted too late, after the sessions were closed, can  *)
(* keep it.                                                                *)
JoinIsAnswered ==
  spc = "join" /\ client["echo"] # "linked" =>
    ios = "over" \/ (ios = "running" /\ HandlerReady)

(* The accepts of a running io_context, while nothing is cancelled and     *)
(* afterwards.                                                             *)
AcceptsInv ==
  /\ sim = "running" => ios # "fresh"
  /\ ios = "running" => \A port \in Ports : accept[port] # "none"
  /\ spc = "join" => \A port \in Ports : accept[port] # "pending"

(* Every step keeps them.                                                  *)
LEMMA AcceptsStep ==
  ASSUME LifecycleInv, AcceptsInv, [Next]_vars
  PROVE  AcceptsInv'
<1> USE DEF AcceptsInv, Ports, clientVars, serverVars
<1>0. TypeOK
  BY DEF LifecycleInv
<1>1. ASSUME NEW binds \in BOOLEAN, LaunchServer(binds) PROVE AcceptsInv'
  <2>1. spc = "rest" /\ ios # "running"
    BY <1>0, <1>1 DEF LaunchServer, LifecycleInv, QuietWhenStopped, TypeOK
  <2>2. CASE binds
    <3>1. \A port \in Ports : accept'[port] = "pending"
      BY <1>1, <2>2 DEF LaunchServer, Everywhere
    <3> QED  BY <1>1, <2>1, <3>1 DEF LaunchServer
  <2>3. CASE ~ binds
    BY <1>1, <2>1, <2>3 DEF LaunchServer
  <2> QED  BY <2>2, <2>3
<1>2. ASSUME NEW port \in Ports, HandleAccept(port) PROVE AcceptsInv'
  BY <1>0, <1>2 DEF HandleAccept, TypeOK
<1>3. ASSUME NEW port \in Ports, HandleAcceptAborted(port) PROVE AcceptsInv'
  BY <1>0, <1>3 DEF HandleAcceptAborted, TypeOK
<1>4. CASE HandleRead \/ HandleReadError \/ HandleWrite \/ RunReturns
  BY <1>4 DEF HandleRead, HandleReadError, HandleWrite, RunReturns
<1>5. CASE CloseSessions  BY <1>5 DEF CloseSessions
<1>6. CASE CancelAccepts  BY <1>0, <1>6 DEF CancelAccepts, TypeOK
<1>7. CASE Join           BY <1>7 DEF Join
<1>8. CASE LuaInit
  BY <1>0, <1>8 DEF LuaInit, TypeOK
<1>9. CASE Client
  BY <1>9 DEF Client, ConnectEcho, ConnectSend, SendCommand, Disconnect
<1>10. CASE UNCHANGED vars  BY <1>10 DEF vars
<1> QED
  BY <1>1, <1>2, <1>3, <1>4, <1>5, <1>6, <1>7, <1>8, <1>9, <1>10
  DEF Next, IoThread, StopServer

(* The join waits for nothing but itself and a client accepted too late,   *)
(* whether or not a new manager is made for each run.                      *)
THEOREM JoinIsAnsweredHolds == Spec => []JoinIsAnswered
<1>1. Init => AcceptsInv
  BY DEF Init, AcceptsInv
<1>2. LifecycleInv /\ AcceptsInv /\ [Next]_vars => AcceptsInv'
  BY AcceptsStep
<1>3. LifecycleInv /\ AcceptsInv => JoinIsAnswered
  BY DEF LifecycleInv, AcceptsInv, JoinIsAnswered, HandlerReady, TypeOK, Ports
<1> QED  BY <1>1, <1>2, <1>3, LifecycleInvariant, PTL DEF Spec

(* An upper bound of the handlers that still run before run() returns.     *)
Aborted(port) == IF accept[port] = "aborted" THEN 1 ELSE 0
Working == IF op = "writing" THEN 2 ELSE IF op = "reading" THEN 1 ELSE 0
Left == (IF ios = "running" THEN 1 ELSE 0) + Aborted("echo") + Aborted("send") + Working

(* While the join waits without a client, every handler brings the io      *)
(* thread nearer to its end, and neither the client nor the simulator puts *)
(* it off.                                                                 *)
StopEnds ==
  [][spc = "join" /\ client["echo"] # "linked" =>
       (IoThread => Left' < Left) /\ Left' <= Left]_vars

(* StopServer waits for a bounded number of handlers.                      *)
THEOREM StopEndsHolds == Spec => StopEnds
<1>1. LifecycleInv /\ AcceptsInv /\ [Next]_vars =>
        [spc = "join" /\ client["echo"] # "linked" =>
           (IoThread => Left' < Left) /\ Left' <= Left]_vars
  <2> SUFFICES ASSUME LifecycleInv, AcceptsInv, Next, spc = "join", client["echo"] # "linked"
               PROVE  (IoThread => Left' < Left) /\ Left' <= Left
    OBVIOUS
  <2> USE DEF Left, Aborted, Working, Ports, clientVars, serverVars
  <2>1. TypeOK /\ sim = "running" /\ \A port \in Ports : accept[port] # "pending"
    BY DEF LifecycleInv, TypeOK, AcceptsInv
  <2>2. CASE IoThread
    <3> SUFFICES Left' < Left
      <4>1. Left \in Int /\ Left' \in Int
        OBVIOUS
      <4> QED  BY <4>1
    <3>1. ASSUME NEW port \in Ports, HandleAccept(port) PROVE FALSE
      BY <2>1, <3>1 DEF HandleAccept
    <3>2. ASSUME NEW port \in Ports, HandleAcceptAborted(port) PROVE Left' < Left
      BY <2>1, <3>2 DEF HandleAcceptAborted, TypeOK
    <3>3. CASE HandleReadError  BY <3>3 DEF HandleReadError
    <3>4. CASE HandleWrite      BY <3>4 DEF HandleWrite
    <3>5. CASE RunReturns       BY <3>5 DEF RunReturns
    <3> QED  BY <2>2, <3>1, <3>2, <3>3, <3>4, <3>5 DEF IoThread, HandleRead
  <2>3. CASE ~ IoThread
    <3>1. UNCHANGED <<ios, accept, op>>
      BY <2>1, <2>3 DEF Next, LaunchServer, CloseSessions, StopServer, CancelAccepts, Join,
                       LuaInit, Client, ConnectEcho, ConnectSend, SendCommand, Disconnect
    <3> QED  BY <2>3, <3>1
  <2> QED  BY <2>2, <2>3
<1>2. LifecycleInv /\ AcceptsInv /\ [Next]_vars => AcceptsInv'
  BY AcceptsStep
<1>3. Init => AcceptsInv
  BY DEF Init, AcceptsInv
<1> QED  BY <1>1, <1>2, <1>3, LifecycleInvariant, PTL DEF Spec, StopEnds
=============================================================================
