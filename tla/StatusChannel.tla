---------------------------- MODULE StatusChannel ----------------------------
(***************************************************************************)
(* The status channel of the plugin: SessionSend (Server.cpp) and its      *)
(* Speaker.  The simulator thread delivers a message: it pushes it on the  *)
(* speaker's queue, takes the oldest message off the queue, copies it into *)
(* the session's only buffer and starts an asynchronous write of it.  The  *)
(* io thread does the same from the queue on when a write completes.  The  *)
(* queue has a mutex; the look at its size, the second look at whether it  *)
(* is empty, the removal, the buffer and the writes have none in common.   *)
(*                                                                         *)
(* A step is one critical section of the queue, one access to the buffer   *)
(* or one event of the socket.  A message is its number; 0 is "{}", what   *)
(* ReadMessage returns when it finds the queue empty.                      *)
(***************************************************************************)
EXTENDS Integers, Sequences

CONSTANTS
  MaxMessages   (* bound: messages delivered in a behaviour                 *)

ASSUME ChannelAssumption == MaxMessages \in Nat

Threads == {"sim", "io"}
Blank   == 0    (* the message "{}"                                         *)
Torn    == -1   (* a mixture of two messages                                *)

VARIABLES
  link,       (* the send socket: not accepted yet, connected, or closed    *)
  queue,      (* Speaker::JSON_scq                                          *)
  formulated, (* number of the newest message                               *)
  pc,         (* where each thread is in write() or handle_write()          *)
  msg,        (* the local msg of each thread                               *)
  buffer,     (* SessionSend::data_                                         *)
  writes,     (* writes in flight: the message meant, and data_ at the start*)
  completed,  (* completions whose handler has not run                      *)
  wire,       (* what the client has been sent                              *)
  dispatched, (* history: the messages handed to async_write so far         *)
  hurried     (* history: was the newest message formulated while an        *)
              (* earlier one was still being written?                       *)

historyVars == <<dispatched, hurried>>
vars == <<link, queue, formulated, pc, msg, buffer, writes, completed, wire, historyVars>>

Goto(t, place) == pc' = [pc EXCEPT ![t] = place]

(* The last write is complete and its handler has returned.                *)
AtRest == writes = << >> /\ completed = 0 /\ pc["io"] = "rest"

\* Mutant: the number is counted up once too often.
FormulateAhead ==
  /\ pc["sim"] = "rest" /\ link # "closed"
  /\ formulated < MaxMessages
  /\ formulated' = formulated + 1
  /\ queue' = Append(queue, formulated' + 1)
  /\ Goto("sim", "count")
  /\ hurried' = ~AtRest
  /\ UNCHANGED <<link, msg, buffer, writes, completed, wire, dispatched>>

(* Speaker::Formulate, the first half of deliver().                        *)
Formulate ==
  /\ pc["sim"] = "rest" /\ link # "closed"
  /\ formulated < MaxMessages
  /\ formulated' = formulated + 1
  /\ queue' = Append(queue, formulated')
  /\ Goto("sim", "count")
  /\ hurried' = ~AtRest
  /\ UNCHANGED <<link, msg, buffer, writes, completed, wire, dispatched>>

(* handle_write() without an error: the io thread goes for more.           *)
HandleWrite ==
  /\ pc["io"] = "rest" /\ completed > 0
  /\ completed' = completed - 1
  /\ Goto("io", "count")
  /\ UNCHANGED <<link, queue, formulated, msg, buffer, writes, wire, historyVars>>

\* Mutant: one message too many is asked for.
CountMore(t) ==
  /\ pc[t] = "count"
  /\ Goto(t, IF Len(queue) > 1 THEN "look" ELSE "rest")
  /\ UNCHANGED <<link, queue, formulated, msg, buffer, writes, completed, wire, historyVars>>

(* if (m_speaker->NumberMessages() > 0)                                    *)
Count(t) ==
  /\ pc[t] = "count"
  /\ Goto(t, IF Len(queue) > 0 THEN "look" ELSE "rest")
  /\ UNCHANGED <<link, queue, formulated, msg, buffer, writes, completed, wire, historyVars>>

\* Mutant: the look takes the message away already.
LookAndDrop(t) ==
  /\ pc[t] = "look"
  /\ msg' = [msg EXCEPT ![t] = Blank]
  /\ queue' = IF queue = << >> THEN queue ELSE Tail(queue)
  /\ Goto(t, IF queue = << >> THEN "copy" ELSE "take")
  /\ UNCHANGED <<link, formulated, buffer, writes, completed, wire, historyVars>>

(* ReadMessage: if (!JSON_scq.empty())                                     *)
Look(t) ==
  /\ pc[t] = "look"
  /\ msg' = [msg EXCEPT ![t] = Blank]
  /\ Goto(t, IF queue = << >> THEN "copy" ELSE "take")
  /\ UNCHANGED <<link, queue, formulated, buffer, writes, completed, wire, historyVars>>

\* Mutant: the message is read but not removed.
TakeAndKeep(t) ==
  /\ pc[t] = "take" /\ queue # << >>
  /\ msg' = [msg EXCEPT ![t] = Head(queue)]
  /\ Goto(t, "copy")
  /\ UNCHANGED <<link, queue, formulated, buffer, writes, completed, wire, historyVars>>

\* Mutant: the last message stays until there is another one.
TakeUnlessLast(t) ==
  /\ pc[t] = "take" /\ Len(queue) > 1
  /\ msg' = [msg EXCEPT ![t] = Head(queue)]
  /\ queue' = Tail(queue)
  /\ Goto(t, "copy")
  /\ UNCHANGED <<link, formulated, buffer, writes, completed, wire, historyVars>>

(* consume_back: it waits, in rounds of 100 ms, while the queue is empty.  *)
Take(t) ==
  /\ pc[t] = "take" /\ queue # << >>
  /\ msg' = [msg EXCEPT ![t] = Head(queue)]
  /\ queue' = Tail(queue)
  /\ Goto(t, "copy")
  /\ UNCHANGED <<link, formulated, buffer, writes, completed, wire, historyVars>>

\* Mutant: data_ keeps what it held.
CopyNothing(t) ==
  /\ pc[t] = "copy"
  /\ Goto(t, "send")
  /\ UNCHANGED <<link, queue, formulated, msg, buffer, writes, completed, wire, historyVars>>

Copy(t) ==
  /\ pc[t] = "copy"
  /\ buffer' = msg[t]
  /\ Goto(t, "send")
  /\ UNCHANGED <<link, queue, formulated, msg, writes, completed, wire, historyVars>>

(* async_write(socket_, buffer(data_, msg.length()), ...)                  *)
StartWrite(t) ==
  /\ pc[t] = "send"
  /\ writes' = Append(writes, [meant |-> msg[t], start |-> buffer])
  /\ msg' = [msg EXCEPT ![t] = Blank]
  /\ Goto(t, "rest")
  /\ dispatched' = dispatched \cup ({msg[t]} \ {Blank})
  /\ UNCHANGED <<link, queue, formulated, buffer, completed, wire, hurried>>

-----------------------------------------------------------------------------
(* The socket reads data_ at any time between the start of the write and   *)
(* its end.                                                                *)
Transmitted(w) ==
  IF w.start = buffer THEN {buffer} ELSE {w.start, buffer, Torn}

Transmit ==
  /\ writes # << >> /\ link = "up"
  /\ \E bytes \in Transmitted(Head(writes)) : wire' = Append(wire, bytes)
  /\ writes' = Tail(writes)
  /\ completed' = completed + 1
  /\ UNCHANGED <<link, queue, formulated, pc, msg, buffer, historyVars>>

(* Without a client the handler gets an error and only shows a message.    *)
WriteFails ==
  /\ writes # << >> /\ link # "up"
  /\ writes' = Tail(writes)
  /\ UNCHANGED <<link, queue, formulated, pc, msg, buffer, completed, wire, historyVars>>

Accept ==
  /\ link = "waiting"
  /\ link' = "up"
  /\ UNCHANGED <<queue, formulated, pc, msg, buffer, writes, completed, wire, historyVars>>

ClientLeaves ==
  /\ link = "up"
  /\ link' = "left"
  /\ UNCHANGED <<queue, formulated, pc, msg, buffer, writes, completed, wire, historyVars>>

(* cancel_sessions() at the end of the simulation, on the simulator thread.*)
Close ==
  /\ pc["sim"] = "rest" /\ link # "closed"
  /\ link' = "closed"
  /\ UNCHANGED <<queue, formulated, pc, msg, buffer, writes, completed, wire, historyVars>>

-----------------------------------------------------------------------------
Init ==
  /\ link = "waiting"
  /\ queue = << >> /\ formulated = 0
  /\ pc = [t \in Threads |-> "rest"]
  /\ msg = [t \in Threads |-> Blank]
  /\ buffer = Blank /\ writes = << >> /\ completed = 0
  /\ wire = << >>
  /\ dispatched = {} /\ hurried = FALSE

Continue(t) == Count(t) \/ Look(t) \/ Take(t) \/ Copy(t) \/ StartWrite(t)

Socket == Transmit \/ WriteFails

Peer == Accept \/ ClientLeaves \/ Close

Next ==
  \/ Formulate \/ HandleWrite
  \/ \E t \in Threads : Continue(t)
  \/ Socket \/ Peer

(* Both threads run, and the socket completes the writes it was given.     *)
Fairness ==
  /\ \A t \in Threads : WF_vars(Continue(t))
  /\ WF_vars(HandleWrite)
  /\ WF_vars(Socket)

Spec == Init /\ [][Next]_vars /\ Fairness

-----------------------------------------------------------------------------
(***************************************************************************)
(* Properties.                                                             *)
(***************************************************************************)

Messages == Blank .. formulated

(* Types, with the places each thread can be in.                           *)
TypeOK ==
  /\ link \in {"waiting", "up", "left", "closed"}
  /\ formulated \in Nat /\ queue \in Seq(1 .. formulated)
  /\ pc \in [Threads -> {"rest", "count", "look", "take", "copy", "send"}]
  /\ msg \in [Threads -> Messages]
  /\ buffer \in Messages
  /\ writes \in Seq([meant : Messages, start : Messages])
  /\ completed \in Nat
  /\ wire \in Seq(Messages \cup {Torn})
  /\ dispatched \subseteq 1 .. formulated /\ hurried \in BOOLEAN

(* "Only 1 message stored ... at a time": a delivery that has returned     *)
(* leaves no message behind, so none waits for a completion to fetch it.   *)
OneStored ==
  /\ Len(queue) <= 1
  /\ pc["sim"] = "rest" => queue = << >>

(* No message is handed to two writes, however the two threads race for   *)
(* it between the looks and the removal of Speaker.cpp:37: one that is in  *)
(* the queue is there once, one in the hands of a thread is in no other's, *)
(* and neither has been handed to a write before.                          *)
Apart == \A i \in DOMAIN queue : \A j \in DOMAIN queue : queue[i] = queue[j] => i = j

InOneHand ==
  /\ \A t \in Threads : msg[t] # Blank => pc[t] \in {"copy", "send"}
  /\ \A t \in Threads : \A i \in DOMAIN queue : msg[t] # queue[i]
  /\ \A t, u \in Threads : msg[t] = msg[u] /\ msg[t] # Blank => t = u

NeverAgain ==
  /\ \A i \in DOMAIN queue : queue[i] \notin dispatched
  /\ \A t \in Threads : msg[t] \notin dispatched

NoDoubleDispatch == Apart /\ InOneHand /\ NeverAgain

(* What a delivery that waits in consume_back() waits for is no longer to  *)
(* be had: the io thread took it between the look and the removal.  The    *)
(* simulator hangs, but the client loses nothing by it: the message is in  *)
(* the hands of the io thread or was handed to a write.                    *)
WaitsForTaken ==
  pc["sim"] = "take" /\ queue = << >> => formulated \in dispatched \cup {msg["io"]}

(* "Retrieves the current message and deletes it": a delivery returns to   *)
(* the simulator.                                                          *)
DeliveryReturns == pc["sim"] # "rest" ~> pc["sim"] = "rest"

(* Only a message that is formulated while the io thread is still at an    *)
(* earlier one can hang the simulator; any other delivery returns, also    *)
(* after hurried ones.                                                     *)
UnhurriedReturns == pc["sim"] # "rest" /\ ~hurried ~> pc["sim"] = "rest"

(* The abstract channel.                                                   *)
Meant == [i \in 1 .. Len(writes) |-> writes[i].meant]
Held  == IF pc["sim"] \in {"copy", "send"} THEN << msg["sim"] >> ELSE << >>
Line  == INSTANCE StatusLine
           WITH pending <- Meant \o Held \o queue, made <- formulated, told <- wire

(* A message formulated while the channel is at rest goes as the abstract  *)
(* channel has it, whatever was delivered too fast before it: no message   *)
(* of a hurried delivery is left in the queue, in a hand or in data_ to    *)
(* come between.  Until a delivery is hurried, every step is the line's.   *)
LineWhenUnhurried == [][hurried' \/ [Line!Next]_(Line!vars)]_vars
=============================================================================
