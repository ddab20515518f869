---------------------------- MODULE ClientWorkers ----------------------------
(***************************************************************************)
(* The interpreter's form (InterpreterForm.cs) with the two connections of *)
(* its SocketClient.  Threads: the UI thread, the parser worker, the       *)
(* sender worker, the worker of a save, and the callback of the status     *)
(* connection.  The workers and the callback reach the UI thread through   *)
(* messages it dispatches in order, the user by clicks.                    *)
(*                                                                         *)
(* A line of the file is its index.  Reading it gives a command, some      *)
(* other text, or an exception; the three threads that read lines do it    *)
(* through the same members of the one Parser, without a lock.  Connecting *)
(* is one step that succeeds or fails.  Every attempt to connect has a     *)
(* number, so that what is left of an older connection can be told from    *)
(* the current one.                                                        *)
(***************************************************************************)
EXTENDS Integers, Sequences, SequencesExt

CONSTANTS
  Lines,       (* number of lines in the file                               *)
  Commands,    (* lines that parse to a command, unless they throw          *)
  Broken,      (* lines whose parsing may throw, as the file has it         *)
  Length,      (* bytes of what is sent for a line                          *)
  MaxAttempts, (* bound: attempts to connect                                *)
  MaxBeside,   (* bound: lines a save and a block have to read, together    *)
  MaxClicks    (* bound: clicks                                             *)

File == 0 .. Lines - 1
Attempts == 1 .. MaxAttempts
Senders == {"ui", "sender"}
Parsers == {"parser", "saver"}
Readers == Parsers \cup {"ui"}

(* What reading a line gives: its text, under the number of the line that  *)
(* is current when it is made.  "{}" is no text.                           *)
Text == [line : File, number : File]
Empty == [line |-> -1, number |-> -1]

ASSUME ClientAssumption ==
  /\ Lines \in Nat \ {0}
  /\ Commands \subseteq File /\ Broken \subseteq File
  /\ Length \in [File -> Nat \ {0}]
  /\ MaxAttempts \in Nat \ {0} /\ MaxBeside \in Nat /\ MaxClicks \in Nat

VARIABLES
  broken,     (* lines of the file opened whose parsing throws            *)
  connected,  (* socket_client.isConnected                                  *)
  attempt,    (* number of the last attempt to connect                      *)
  enabled,    (* the sending buttons                                        *)
  peer,       (* has the plugin still its end of the connections?           *)
  unanswered, (* sent on the echo connection, not echoed yet                *)
  echoes,     (* echoed, not received                                       *)
  executing,  (* numbers of the lines the plugin has yet to report          *)
  statuses,   (* those reported on the status connection, not received      *)
  recv,       (* the status callback of each attempt                        *)
  readLine,   (* read_line                                                  *)
  currentLine, (* parser.current_line                                       *)
  parsed,     (* parser.ParsedGCode                                         *)
  command,    (* parser.command                                             *)
  understand, (* parser.understand                                          *)
  doing,      (* what each thread is at                                     *)
  job,        (* what the UI thread reads a line for                        *)
  todo,       (* lines a thread has still to read, or is reading            *)
  next,       (* index of the sender worker in parsed                       *)
  sending,    (* what a thread in SendBlocking has sent                     *)
  on,         (* and on the connection of which attempt                     *)
  posted,     (* messages to the UI thread                                  *)
  clicks,     (* clicks so far                                              *)
  block, sent, (* history: lines of the block started last, and those the   *)
              (* sender worker has put on the wire since                    *)
  crossed,    (* history: a second thread was started on the parser or the  *)
              (* echo connection while the first was still at work          *)
  peeked      (* history: while a line of the block was being read, the UI  *)
              (* thread read another.  Once crossed, only that is kept      *)

network == <<connected, attempt, enabled, peer, unanswered, echoes, executing, statuses>>
textVars == <<command, understand>>
formVars == <<readLine, currentLine, parsed, textVars>>
readVars == <<job, todo>>
sendVars == <<next, sending, on>>
history == <<block, sent, crossed, peeked>>
vars == <<broken, network, recv, formVars, doing, readVars, sendVars, posted, clicks, history>>

Interval(first, last) == [i \in 1 .. last - first + 1 |-> first + i - 1]
IsCommand(line) == line \in Commands
Busy == \E w \in {"parser", "sender", "saver"} : doing[w] \notin {"idle", "failed"}
Post(message) == posted' = Append(posted, message)
Becomes(thread, place) == doing' = [doing EXCEPT ![thread] = place]

(* What the history becomes.                                               *)
Note(crosses, lines, texts, amid) ==
  /\ crossed' = crosses
  /\ block' = IF crosses THEN {} ELSE lines
  /\ sent' = IF crosses THEN << >> ELSE texts
  /\ peeked' = (~crosses /\ amid)

-----------------------------------------------------------------------------
(* Reading a line, Parser.ParseSingleLine(): what it begins with, and what *)
(* it comes to.                                                            *)
BeginsLine(line) ==
  currentLine' = line /\ command' = Empty /\ understand' = Empty

Understands(line) ==
  LET text == [line |-> line, number |-> currentLine]
  IN  /\ understand' = text
      /\ command' = IF IsCommand(line) THEN text ELSE command

(* The UI thread begins a line, perhaps amid one of a worker's.            *)
UiReads(line, purpose) ==
  /\ BeginsLine(line)
  /\ job' = purpose /\ todo' = [todo EXCEPT !["ui"] = << line >>]

InLine(w) == doing[w] \in {"reading", "read"}
AmidALine == \E w \in Parsers : InLine(w)

(* The lines a worker has still to read.                                   *)
ToRead(w) ==
  IF w = "saver" /\ doing[w] = "starting" THEN Lines - readLine ELSE Len(todo[w])

-----------------------------------------------------------------------------
(* Connections.                                                            *)

(* What is left of the sockets after CloseClient.  Their pending callback  *)
(* is still called.                                                        *)
NothingInTransit ==
  /\ unanswered' = << >> /\ echoes' = << >> /\ executing' = << >> /\ statuses' = << >>
Orphaned == [a \in Attempts |-> IF recv[a] = "armed" THEN "closed" ELSE recv[a]]

(* disconnectToolStripMenuItem_Click().  On a connection the plugin has    *)
(* left, CloseClient() may throw: it then shows why, and the form stays as *)
(* it was; what it has left open of the sockets is as good as closed.      *)
Disconnected ==
  /\ connected' = FALSE /\ peer' = FALSE /\ NothingInTransit /\ recv' = Orphaned
  /\ \/ enabled' = FALSE /\ readLine' = 0
     \/ connected /\ ~peer /\ UNCHANGED <<enabled, readLine>>
  /\ UNCHANGED <<attempt, currentLine, parsed, textVars>>

(* SendBlocking() up to the wait for the echo.                             *)
Send(thread, text) ==
  IF connected
  THEN /\ unanswered' = IF peer THEN Append(unanswered, text) ELSE unanswered
       /\ Becomes(thread, "waiting")
       /\ sending' = [sending EXCEPT ![thread] = text]
       /\ on' = [on EXCEPT ![thread] = attempt]
  ELSE /\ Becomes(thread, "box")
       /\ UNCHANGED <<unanswered, sending, on>>

\* Mutant: only the parser worker is asked whether it is busy.
StartAsyncBesideSender(first, last) ==
  IF doing["parser"] = "idle"
  THEN /\ Becomes("parser", "starting")
       /\ todo' = [todo EXCEPT !["parser"] = Interval(first, last)]
       /\ Note(crossed \/ doing["saver"] \notin {"idle", "failed"}, first .. last, << >>, FALSE)
  ELSE UNCHANGED <<doing, todo, history>>

StartAsync(first, last) ==
  IF doing["parser"] = "idle" /\ doing["sender"] = "idle"
  THEN /\ last - first + 1 + ToRead("saver") <= MaxBeside
       /\ Becomes("parser", "starting")
       /\ todo' = [todo EXCEPT !["parser"] = Interval(first, last)]
       /\ Note(crossed \/ doing["saver"] \notin {"idle", "failed"}, first .. last, << >>, FALSE)
  ELSE UNCHANGED <<doing, todo, history>>

-----------------------------------------------------------------------------
(* Clicks.  A message box of the UI thread or the save dialog keeps them   *)
(* off, the box of another thread does not.                                *)
Click ==
  /\ doing["ui"] = "rest" /\ job = "none" /\ clicks < MaxClicks
  /\ clicks' = clicks + 1 /\ UNCHANGED broken

Connect ==
  /\ Click /\ attempt < MaxAttempts
  /\ attempt' = attempt + 1
  /\ connected' = TRUE /\ enabled' = TRUE /\ peer' = TRUE
  /\ NothingInTransit
  /\ recv' = [Orphaned EXCEPT ![attempt + 1] = "armed"]
  /\ UNCHANGED <<formVars, doing, readVars, sendVars, posted, history>>

(* The failure is shown by the callback of the attempt.                    *)
ConnectFails ==
  /\ Click /\ attempt < MaxAttempts
  /\ attempt' = attempt + 1
  /\ connected' = FALSE /\ peer' = FALSE /\ NothingInTransit
  /\ recv' = [Orphaned EXCEPT ![attempt + 1] = "box"]
  /\ UNCHANGED <<enabled, formVars, doing, readVars, sendVars, posted, history>>

Disconnect ==
  /\ Click /\ Disconnected
  /\ UNCHANGED <<doing, readVars, sendVars, posted, history>>

(* The selection of a line: it becomes the current one and is peeked at.   *)
Select(line) ==
  /\ Click /\ UiReads(line, "peek")
  /\ Note(crossed, block, sent, peeked \/ AmidALine)
  /\ UNCHANGED <<network, recv, readLine, parsed, doing, sendVars, posted>>

\* Mutant: one line too far.
NextLinePastEnd ==
  /\ Click /\ enabled
  /\ Note(crossed \/ Busy, block, sent, peeked)
  /\ LET following == (IF currentLine > readLine THEN currentLine ELSE readLine) + 1
     IN  IF following <= Lines THEN UiReads(following, "next")
         ELSE UNCHANGED <<currentLine, textVars, readVars>>
  /\ UNCHANGED <<network, recv, readLine, parsed, doing, sendVars, posted>>

NextLine ==
  /\ Click /\ enabled
  /\ Note(crossed \/ Busy, block, sent, peeked)
  /\ LET following == (IF currentLine > readLine THEN currentLine ELSE readLine) + 1
     IN  IF following < Lines THEN UiReads(following, "next")
         ELSE UNCHANGED <<currentLine, textVars, readVars>>
  /\ UNCHANGED <<network, recv, readLine, parsed, doing, sendVars, posted>>

SingleLine ==
  /\ Click /\ enabled
  /\ Note(crossed \/ Busy, block, sent, peeked)
  /\ UiReads(currentLine, "single")
  /\ UNCHANGED <<network, recv, readLine, parsed, doing, sendVars, posted>>

FromLastLine ==
  /\ Click /\ enabled /\ StartAsync(readLine, currentLine)
  /\ UNCHANGED <<network, recv, formVars, job, sendVars, posted>>

AllLines ==
  /\ Click /\ enabled /\ StartAsync(readLine, Lines - 1)
  /\ UNCHANGED <<network, recv, formVars, job, sendVars, posted>>

(* A save parses the file while its dialog is open.  (A save begun while   *)
(* the worker of a cancelled one still parses is left out.)                *)
Save ==
  /\ Click /\ doing["saver"] \in {"idle", "failed"}
  /\ Lines - readLine + ToRead("parser") <= MaxBeside
  /\ Note(crossed \/ Busy, block, sent, peeked)
  /\ doing' = [doing EXCEPT !["ui"] = "dialog", !["saver"] = "starting"]
  /\ UNCHANGED <<network, recv, formVars, readVars, sendVars, posted>>

CloseDialog ==
  /\ doing["ui"] = "dialog" /\ job = "none"
  /\ \E place \in {"saving", "rest"} : Becomes("ui", place)
  /\ UNCHANGED <<network, recv, formVars, readVars, sendVars, posted, clicks, broken, history>>

Saved ==
  /\ doing["ui"] = "saving" /\ doing["saver"] = "idle" /\ Becomes("ui", "rest")
  /\ UNCHANGED <<network, recv, formVars, readVars, sendVars, posted, clicks, broken, history>>

-----------------------------------------------------------------------------
(* The line the UI thread reads.                                           *)
UiUnderstands ==
  /\ todo["ui"] # << >> /\ Head(todo["ui"]) \notin broken
  /\ Understands(Head(todo["ui"]))
  /\ todo' = [todo EXCEPT !["ui"] = << >>]
  /\ UNCHANGED <<network, readLine, currentLine, parsed, doing, sendVars, clicks, broken, history>>

Peek ==
  /\ job = "peek" /\ UiUnderstands /\ job' = "none"
  /\ UNCHANGED <<recv, posted>>

ReadToSend ==
  /\ job \in {"next", "single"} /\ UiUnderstands
  /\ UNCHANGED <<job, recv, posted>>

(* The next line is sent if it is a command, a single line whatever it is  *)
(* understood as.                                                          *)
SendLine ==
  /\ job \in {"next", "single"} /\ todo["ui"] = << >> /\ job' = "none"
  /\ LET text == IF job = "next" THEN command ELSE understand
     IN  IF text # Empty THEN Send("ui", text) ELSE UNCHANGED <<unanswered, doing, sending, on>>
  /\ UNCHANGED <<connected, attempt, enabled, peer, echoes, executing, statuses, recv>>
  /\ UNCHANGED <<formVars, todo, next, posted, clicks, broken, history>>

(* An exception is shown to the user.                                      *)
UiThrows ==
  /\ job # "highlight" /\ todo["ui"] # << >> /\ Head(todo["ui"]) \in broken
  /\ job' = "none" /\ todo' = [todo EXCEPT !["ui"] = << >>]
  /\ UNCHANGED <<network, recv, formVars, doing, sendVars, posted, clicks, broken, history>>

-----------------------------------------------------------------------------
(* Parsing: Parser.ParseBlock() in the parser worker or for a save.        *)
Ends(w) ==
  IF w = "parser"
  THEN Becomes(w, "done") /\ Post([kind |-> "parserDone"])
  ELSE Becomes(w, "idle") /\ UNCHANGED posted

\* Mutant: the commands of the block before are kept.
BeginParseKeeping(w) ==
  /\ doing[w] = "starting" /\ Becomes(w, "parsing")
  /\ todo' = IF w = "saver" THEN [todo EXCEPT ![w] = Interval(readLine, Lines - 1)] ELSE todo
  /\ UNCHANGED <<network, recv, formVars, job, sendVars, posted, clicks, broken, history>>

BeginParse(w) ==
  /\ doing[w] = "starting" /\ Becomes(w, "parsing")
  /\ parsed' = << >>
  /\ todo' = IF w = "saver" THEN [todo EXCEPT ![w] = Interval(readLine, Lines - 1)] ELSE todo
  /\ UNCHANGED <<network, recv, readLine, currentLine, textVars, job, sendVars, posted>>
  /\ UNCHANGED <<clicks, broken, history>>

BeginLine(w) ==
  /\ doing[w] = "parsing" /\ todo[w] # << >> /\ Becomes(w, "reading")
  /\ BeginsLine(Head(todo[w]))
  /\ Note(crossed, block, sent, peeked \/ todo["ui"] # << >>)
  /\ UNCHANGED <<network, recv, readLine, parsed, readVars, sendVars, posted, clicks, broken>>

ParseLine(w) ==
  /\ doing[w] = "reading" /\ Becomes(w, "read")
  /\ todo[w] # << >> /\ Head(todo[w]) \notin broken
  /\ Understands(Head(todo[w]))
  /\ UNCHANGED <<network, recv, readLine, currentLine, parsed, readVars, sendVars, posted>>
  /\ UNCHANGED <<clicks, broken, history>>

(* What the command is by now is added, if it is one.  (A command cleared  *)
(* after that test is added as "{}", which SendDataBlock passes over.)     *)
AddCommand(w) ==
  /\ doing[w] = "read" /\ todo[w] # << >> /\ Becomes(w, "parsing")
  /\ parsed' = IF command # Empty THEN Append(parsed, command) ELSE parsed
  /\ todo' = [todo EXCEPT ![w] = Tail(@)]
  /\ UNCHANGED <<network, recv, readLine, currentLine, textVars, job, sendVars, posted>>
  /\ UNCHANGED <<clicks, broken, history>>

(* The worker that throws is completed; the event a save waits for is not  *)
(* set.                                                                    *)
ParseThrows(w) ==
  /\ doing[w] = "reading" /\ todo[w] # << >> /\ Head(todo[w]) \in broken
  /\ todo' = [todo EXCEPT ![w] = << >>]
  /\ IF w = "saver" THEN Becomes(w, "failed") /\ UNCHANGED posted ELSE Ends(w)
  /\ UNCHANGED <<network, recv, formVars, job, sendVars, clicks, broken, history>>

EndParse(w) ==
  /\ doing[w] = "parsing" /\ todo[w] = << >> /\ Ends(w)
  /\ UNCHANGED <<network, recv, formVars, readVars, sendVars, clicks, broken, history>>

-----------------------------------------------------------------------------
(* Sending: SendDataBlock() in the sender worker, SendBlocking() in both.  *)
SenderSends ==
  /\ doing["sender"] = "ready" /\ next <= Len(parsed)
  /\ Send("sender", parsed[next])
  /\ Note(crossed, block, IF connected THEN Append(sent, parsed[next]) ELSE sent, peeked)
  /\ UNCHANGED <<connected, attempt, enabled, peer, echoes, executing, statuses, recv>>
  /\ UNCHANGED <<formVars, readVars, next, posted, clicks, broken>>

SenderEnds ==
  /\ doing["sender"] = "ready" /\ next > Len(parsed)
  /\ Becomes("sender", "done") /\ Post([kind |-> "senderDone"])
  /\ UNCHANGED <<network, recv, formVars, readVars, sendVars, clicks, broken, history>>

(* SendBlocking() returns.                                                 *)
Return(thread, success) ==
  CASE thread = "ui" -> Becomes("ui", "rest") /\ UNCHANGED <<next, posted>>
    [] thread = "sender" /\ success ->
         Becomes("sender", "ready") /\ next' = next + 1 /\ UNCHANGED posted
    [] OTHER ->
         Becomes("sender", "done") /\ Post([kind |-> "senderDone"]) /\ UNCHANGED next

Waits(thread) == doing[thread] = "waiting" /\ connected /\ on[thread] = attempt
Bytes(texts) == FoldSeq(LAMBDA text, n : Length[text.line] + n, 0, texts)

(* TCP may hand over several echoes at once; only their bytes are counted. *)
ReceiveEcho(thread) ==
  /\ Waits(thread)
  /\ \E n \in 1 .. Len(echoes) :
       /\ Return(thread, Bytes(SubSeq(echoes, 1, n)) = Length[sending[thread].line])
       /\ echoes' = SubSeq(echoes, n + 1, Len(echoes))
  /\ UNCHANGED <<connected, attempt, enabled, peer, unanswered, executing, statuses, recv>>
  /\ UNCHANGED <<formVars, readVars, sending, on, clicks, broken, history>>

(* The plugin has closed: nothing is received, or an exception.            *)
ReceiveNothing(thread) ==
  /\ Waits(thread) /\ ~peer /\ echoes = << >>
  /\ \/ Return(thread, FALSE)
     \/ Becomes(thread, "box") /\ UNCHANGED <<next, posted>>
  /\ UNCHANGED <<network, recv, formVars, readVars, sending, on, clicks, broken, history>>

\* Mutant: without ReceiveTimeout.
TimeoutOff(thread) == FALSE /\ UNCHANGED vars

(* Two seconds without an echo.                                            *)
Timeout(thread) ==
  /\ Waits(thread) /\ peer /\ echoes = << >>
  /\ Becomes(thread, "box")
  /\ UNCHANGED <<network, recv, formVars, readVars, sendVars, posted, clicks, broken, history>>

(* The connection was closed meanwhile: again nothing, or an exception.    *)
ConnectionGone(thread) ==
  /\ doing[thread] = "waiting" /\ ~(connected /\ on[thread] = attempt)
  /\ \/ Return(thread, FALSE)
     \/ Becomes(thread, "box") /\ UNCHANGED <<next, posted>>
  /\ UNCHANGED <<network, recv, formVars, readVars, sending, on, clicks, broken, history>>

\* Mutant: a communication failure is only shown.
DismissOnly(thread) ==
  /\ doing[thread] = "box" /\ (thread = "ui" => job = "none") /\ Return(thread, FALSE)
  /\ UNCHANGED <<network, recv, formVars, readVars, sending, on, clicks, broken, history>>

(* HandleCommunicationFailure() behind its message box.                    *)
Dismiss(thread) ==
  /\ doing[thread] = "box" /\ (thread = "ui" => job = "none")
  /\ IF thread = "ui"
     THEN Becomes("ui", "rest") /\ Disconnected /\ UNCHANGED posted
     ELSE /\ Becomes("sender", "done")
          /\ posted' = posted \o <<[kind |-> "disconnect"], [kind |-> "senderDone"]>>
          /\ UNCHANGED <<network, recv, formVars>>
  /\ UNCHANGED <<readVars, sendVars, clicks, broken, history>>

-----------------------------------------------------------------------------
(* The plugin, as a peer: it answers in order, reports what it executes,   *)
(* and may close.                                                          *)
Echo ==
  /\ peer /\ unanswered # << >>
  /\ unanswered' = Tail(unanswered)
  /\ echoes' = Append(echoes, Head(unanswered))
  /\ executing' = IF IsCommand(Head(unanswered).line)
                  THEN Append(executing, Head(unanswered).number) ELSE executing
  /\ UNCHANGED <<connected, attempt, enabled, peer, statuses, recv, formVars, doing>>
  /\ UNCHANGED <<readVars, sendVars, posted, clicks, broken, history>>

Execute ==
  /\ peer /\ executing # << >>
  /\ executing' = Tail(executing) /\ statuses' = Append(statuses, Head(executing))
  /\ UNCHANGED <<connected, attempt, enabled, peer, unanswered, echoes, recv, formVars>>
  /\ UNCHANGED <<doing, readVars, sendVars, posted, clicks, broken, history>>

PeerCloses ==
  /\ connected /\ peer /\ peer' = FALSE
  /\ unanswered' = << >> /\ executing' = << >>
  /\ UNCHANGED <<connected, attempt, enabled, echoes, statuses, recv, formVars, doing>>
  /\ UNCHANGED <<readVars, sendVars, posted, clicks, broken, history>>

(* ReceiveCallback(): of the statuses received together only the first is  *)
(* read; it waits for the UI thread to take it.                            *)
ReceiveStatus(a) ==
  /\ recv[a] = "armed" /\ a = attempt
  /\ \E n \in 1 .. Len(statuses) :
       statuses' = SubSeq(statuses, n + 1, Len(statuses))
  /\ Post([kind |-> "line", line |-> Head(statuses), attempt |-> a])
  /\ recv' = [recv EXCEPT ![a] = "invoking"]
  /\ UNCHANGED <<connected, attempt, enabled, peer, unanswered, echoes, executing>>
  /\ UNCHANGED <<formVars, doing, readVars, sendVars, clicks, broken, history>>

(* The callback of a closed socket does nothing unless another connection  *)
(* has been made meanwhile.                                                *)
ReceiveClosed(a) ==
  /\ recv[a] = "closed"
  /\ recv' = [recv EXCEPT ![a] = IF connected THEN "box" ELSE "off"]
  /\ UNCHANGED <<network, formVars, doing, readVars, sendVars, posted, clicks, broken, history>>

DismissReceive(a) ==
  /\ recv[a] = "box"
  /\ recv' = [recv EXCEPT ![a] = "off"]
  /\ Post([kind |-> "disconnect"])
  /\ UNCHANGED <<network, formVars, doing, readVars, sendVars, clicks, broken, history>>

-----------------------------------------------------------------------------
(* The UI thread dispatches, also under a message box or a dialog.         *)
Dispatches(kind) ==
  /\ doing["ui"] \in {"rest", "box", "dialog"} /\ job = "none"
  /\ posted # << >> /\ Head(posted).kind = kind

Done(kind) == posted # << >> /\ Head(posted).kind = kind /\ posted' = Tail(posted)

Dispatch(kind) ==
  /\ Dispatches(kind) /\ Done(kind)
  /\ UNCHANGED <<readVars, sending, on, clicks, broken, history>>

ParserCompleted ==
  /\ Dispatch("parserDone")
  /\ doing' = [doing EXCEPT !["parser"] = "idle", !["sender"] = "ready"]
  /\ next' = 1
  /\ UNCHANGED <<network, recv, formVars>>

SenderCompleted ==
  /\ Dispatch("senderDone")
  /\ Becomes("sender", "idle") /\ next' = 1
  /\ UNCHANGED <<network, recv, formVars>>

FailureHandled ==
  /\ Dispatch("disconnect") /\ Disconnected
  /\ UNCHANGED <<doing, next>>

(* HighlightLine() ends, and ReceiveCallback() goes on.                    *)
CallbackGoesOn ==
  LET a == Head(posted).attempt
  IN  recv' = [recv EXCEPT ![a] = IF connected /\ a = attempt THEN "armed" ELSE "box"]

(* HighlightLine() selects the line if the option is on, which the user    *)
(* sets at will; a line that is selected already is not peeked at again.   *)
HighlightLine ==
  /\ Dispatch("line")
  /\ readLine' = Head(posted).line /\ CallbackGoesOn
  /\ UNCHANGED <<network, currentLine, parsed, textVars, doing, next>>

HighlightSelects ==
  /\ Dispatches("line")
  /\ readLine' = Head(posted).line
  /\ UiReads(Head(posted).line, "highlight")
  /\ Note(crossed, block, sent, peeked \/ AmidALine)
  /\ UNCHANGED <<network, recv, parsed, doing, sendVars, posted, clicks, broken>>

Highlighted ==
  /\ job = "highlight" /\ UiUnderstands /\ job' = "none"
  /\ Done("line") /\ CallbackGoesOn

(* The exception is the callback's, which takes it for a failure.          *)
HighlightThrows ==
  /\ job = "highlight" /\ todo["ui"] # << >> /\ Head(todo["ui"]) \in broken
  /\ job' = "none" /\ todo' = [todo EXCEPT !["ui"] = << >>]
  /\ recv' = [recv EXCEPT ![Head(posted).attempt] = "box"] /\ Done("line")
  /\ UNCHANGED <<network, formVars, doing, sendVars, clicks, broken, history>>

-----------------------------------------------------------------------------
Init ==
  /\ broken \in SUBSET Broken
  /\ connected = FALSE /\ attempt = 0 /\ enabled = FALSE /\ peer = FALSE
  /\ unanswered = << >> /\ echoes = << >> /\ executing = << >> /\ statuses = << >>
  /\ recv = [a \in Attempts |-> "off"]
  /\ readLine = 0 /\ currentLine = 0 /\ parsed = << >>
  /\ command = Empty /\ understand = Empty
  /\ doing = [ui |-> "rest", parser |-> "idle", sender |-> "idle", saver |-> "idle"]
  /\ job = "none" /\ todo = [w \in Readers |-> << >>]
  /\ next = 1 /\ sending = [t \in Senders |-> Empty] /\ on = [t \in Senders |-> 0]
  /\ posted = << >> /\ clicks = 0
  /\ block = {} /\ sent = << >> /\ crossed = FALSE /\ peeked = FALSE

User ==
  \/ Connect \/ ConnectFails \/ Disconnect
  \/ \E line \in File : Select(line)
  \/ NextLine \/ SingleLine \/ FromLastLine \/ AllLines \/ Save

Parsing(w) ==
  \/ BeginParse(w) \/ BeginLine(w) \/ ParseLine(w) \/ AddCommand(w)
  \/ ParseThrows(w) \/ EndParse(w)

UiReading ==
  \/ Peek \/ ReadToSend \/ SendLine \/ UiThrows
  \/ Highlighted \/ HighlightThrows

Waiting(thread) ==
  \/ ReceiveEcho(thread) \/ ReceiveNothing(thread)
  \/ Timeout(thread) \/ ConnectionGone(thread)

Plugin == Echo \/ Execute \/ PeerCloses

Callback(a) == ReceiveStatus(a) \/ ReceiveClosed(a)

Dispatched ==
  \/ ParserCompleted \/ SenderCompleted \/ FailureHandled
  \/ HighlightLine \/ HighlightSelects

(* The form does not stand still while a thread of it can go on, a timeout *)
(* can elapse, or a message box or a dialog can be closed.                 *)
FormGoesOn ==
  \/ CloseDialog \/ Saved \/ UiReading \/ Dispatched
  \/ \E w \in Parsers : Parsing(w)
  \/ SenderSends \/ SenderEnds
  \/ \E thread \in Senders : Waiting(thread) \/ Dismiss(thread)
  \/ \E a \in Attempts : Callback(a) \/ DismissReceive(a)

Next == User \/ Plugin \/ FormGoesOn

Fairness == WF_vars(FormGoesOn)

Spec == Init /\ [][Next]_vars /\ Fairness

-----------------------------------------------------------------------------
(***************************************************************************)
(* Properties.                                                             *)
(***************************************************************************)

(* Types; the current line stays in the file.                              *)
TypeOK ==
  /\ connected \in BOOLEAN /\ enabled \in BOOLEAN /\ peer \in BOOLEAN
  /\ attempt \in 0 .. MaxAttempts
  /\ {unanswered, echoes, parsed} \subseteq Seq(Text)
  /\ {executing, statuses} \subseteq Seq(File)
  /\ recv \in [Attempts -> {"off", "armed", "invoking", "closed", "box"}]
  /\ readLine \in File /\ currentLine \in File
  /\ {command, understand} \subseteq Text \cup {Empty}
  /\ job \in {"none", "peek", "next", "single", "highlight"}
  /\ doing["ui"] \in {"rest", "waiting", "box", "dialog", "saving"}
  /\ doing["sender"] \in {"idle", "ready", "waiting", "box", "done"}
  /\ doing["parser"] \in {"idle", "starting", "parsing", "reading", "read", "done"}
  /\ doing["saver"] \in {"idle", "starting", "parsing", "reading", "read", "failed"}
  /\ next \in Nat \ {0} /\ sending \in [Senders -> Text \cup {Empty}]

(* The parser worker and the sender worker take turns, so that no block is *)
(* parsed into the list another is being sent from and the sender is never *)
(* started twice, whatever is clicked.                                     *)
OneBlockAtATime == doing["parser"] = "idle" \/ doing["sender"] = "idle"

(* As long as no save and no single line crosses it and the UI thread      *)
(* reads no line amid one of the block's, a block reaches the wire line by *)
(* line, in order, once and under its own numbers, up to its end or its    *)
(* first failure, over however many connections: what has been sent before *)
(* a command are the block's commands before it, all of them and no other. *)
Lists(texts) ==
  \A i \in DOMAIN texts :
    /\ texts[i].line \in block \cap Commands /\ texts[i].number = texts[i].line
    /\ {line \in block \cap Commands : line < texts[i].line}
         = {texts[j].line : j \in 1 .. i - 1}
BlockInOrder == ~crossed /\ ~peeked => Lists(sent)

(* As long as no save and no single line crosses a block, a command that   *)
(* waits for its echo is alone on the connection: no echo of a command     *)
(* given up earlier can pass for its.                                      *)
EchoIsOwn ==
  ~crossed => \A thread \in Senders : Waits(thread) /\ peer =>
                echoes \o unanswered = <<sending[thread]>>

(* A block that was started comes to an end, unless the UI thread is held  *)
(* by a save that failed.                                                  *)
Stuck == doing["ui"] = "saving" /\ doing["saver"] = "failed"
BlockEnds ==
  doing["parser"] # "idle" \/ doing["sender"] # "idle"
    ~> Stuck \/ (doing["parser"] = "idle" /\ doing["sender"] = "idle")
=============================================================================
