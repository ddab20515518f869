-------------------------- MODULE ClientWorkersProofs --------------------------
(***************************************************************************)
(* Proofs about ClientWorkers, for any file, any number of clicks and any  *)
(* number of connections: types, that the two workers take turns, that a   *)
(* block nothing crosses is sent in order, and that an echo belongs to the *)
(* command that waits for it.                                              *)
(***************************************************************************)
EXTENDS ClientWorkers, SequenceTheorems, TLAPS

-----------------------------------------------------------------------------
(***************************************************************************)
(* The inductive invariants.                                               *)
(***************************************************************************)

Workers == {"ui", "parser", "sender", "saver"}
Places == {"rest", "waiting", "box", "dialog", "saving", "idle", "ready", "done",
           "starting", "parsing", "reading", "read", "failed"}
Message == [kind : {"parserDone", "senderDone", "disconnect"}]
             \cup [kind : {"line"}, line : File, attempt : Attempts]

(* TypeOK says where each thread can be; its steps also depend on what is  *)
(* still to be parsed, on the messages of the UI thread, and on the        *)
(* attempt a send was made on.                                             *)
TypeInv ==
  /\ TypeOK
  /\ doing \in [Workers -> Places]
  /\ todo \in [Readers -> Seq(File)]
  /\ posted \in Seq(Message)
  /\ on \in [Senders -> 0 .. attempt]
  /\ block \subseteq File /\ sent \in Seq(Text)

(* The completion of a worker is posted once, when the worker is done, and *)
(* it is done until the completion is dispatched.                          *)
Completion(worker, kind) ==
  /\ \A i \in DOMAIN posted : posted[i].kind = kind => doing[worker] = "done"
  /\ \A i, j \in DOMAIN posted : posted[i].kind = kind /\ posted[j].kind = kind => i = j

TurnInv ==
  /\ OneBlockAtATime
  /\ Completion("parser", "parserDone") /\ Completion("sender", "senderDone")

(* The UI thread is free while it reads a line to send.  What "not         *)
(* crossed" keeps apart: a save and a block, a single line and a block.    *)
ToSend == job \in {"next", "single"}
Alone ==
  /\ ToSend => doing["ui"] = "rest"
  /\ ~crossed =>
       /\ doing["parser"] # "idle" \/ doing["sender"] # "idle" => doing["saver"] \in {"idle", "failed"}
       /\ ToSend \/ doing["ui"] \in {"waiting", "box"} =>
            doing["parser"] = "idle" /\ doing["sender"] = "idle"

(* The commands parsed and the lines to parse are together the block, in   *)
(* order, and what has been sent is the beginning of what is parsed.       *)
Remaining(lines) ==
  \A i \in DOMAIN lines : lines[i] \in block /\ lines[i] = lines[1] + i - 1

(* What the parser holds of the line it is reading is its own: the UI      *)
(* thread has no line to read beside it.                                   *)
TextOf(line) == IF IsCommand(line) THEN [line |-> line, number |-> line] ELSE Empty
OwnText ==
  /\ InLine("parser") =>
       todo["ui"] = << >> /\ todo["parser"] # << >> /\ currentLine = todo["parser"][1]
  /\ doing["parser"] = "reading" => command = Empty
  /\ doing["parser"] = "read" => command = TextOf(todo["parser"][1])

LinesOf(texts) == {texts[j].line : j \in DOMAIN texts}
InBlock == {"parsing", "reading", "read"}

OrderInv ==
  ~crossed /\ ~peeked =>
    /\ Lists(sent)
    /\ doing["parser"] # "idle" => sent = << >>
    /\ doing["parser"] \in InBlock \cup {"starting"} => Remaining(todo["parser"])
    /\ doing["parser"] = "starting" /\ todo["parser"] # << >> =>
         {line \in block : line < todo["parser"][1]} = {}
    /\ doing["parser"] \in InBlock /\ todo["parser"] # << >> =>
         {line \in block \cap Commands : line < todo["parser"][1]} = LinesOf(parsed)
    /\ doing["parser"] \in InBlock \cup {"done"} \/ doing["sender"] # "idle" => Lists(parsed)
    /\ doing["sender"] # "idle" =>
         /\ Len(sent) <= Len(parsed) /\ \A i \in DOMAIN sent : sent[i] = parsed[i]
    /\ doing["sender"] = "ready" => next = Len(sent) + 1
    /\ doing["sender"] = "waiting" => next = Len(sent)
    /\ OwnText

(* A connection carries nothing but what somebody waits for, unless a      *)
(* failure on it is being shown or its disconnection is on the way to the  *)
(* UI thread, ahead of the completion of the sender worker.                *)
Disconnecting ==
  \E i \in DOMAIN posted :
    /\ posted[i].kind = "disconnect"
    /\ \A j \in DOMAIN posted : posted[j].kind = "senderDone" => i < j

Clear == echoes = << >> /\ unanswered = << >>

EchoInv ==
  ~crossed =>
    /\ \A t \in Senders : Waits(t) /\ peer =>
         \/ echoes = << sending[t] >> /\ unanswered = << >>
         \/ echoes = << >> /\ unanswered = << sending[t] >>
    /\ connected /\ peer /\ ~Clear =>
         \/ \E t \in Senders : Waits(t)
         \/ doing["ui"] = "box" \/ doing["sender"] = "box"
         \/ doing["sender"] = "done" /\ Disconnecting

-----------------------------------------------------------------------------
(***************************************************************************)
(* Types.                                                                  *)
(***************************************************************************)

(* What the types say, in the form the steps below use.                    *)
LEMMA TypeFacts ==
  ASSUME TypeInv
  PROVE  /\ unanswered \in Seq(Text) /\ echoes \in Seq(Text) /\ executing \in Seq(File)
         /\ statuses \in Seq(File) /\ parsed \in Seq(Text) /\ sent \in Seq(Text)
         /\ 0 \in File /\ File \subseteq Int /\ Lines \in Nat
  BY ClientAssumption DEF TypeInv, TypeOK, File

(* A send starts a wait or ends at a message box, and moves no other thread.*)
LEMMA SendEffect ==
  ASSUME TypeInv, NEW t \in Senders, NEW text \in Text, Send(t, text)
  PROVE  /\ doing' \in [Workers -> Places] /\ doing'[t] \in {"waiting", "box"}
         /\ \A w \in Workers \ {t} : doing'[w] = doing[w]
         /\ sending' \in [Senders -> Text \cup {Empty}] /\ on' \in [Senders -> 0 .. attempt]
         /\ unanswered' \in Seq(Text)
<1>1. doing \in [Workers -> Places] /\ sending \in [Senders -> Text \cup {Empty}] /\ on \in [Senders -> 0 .. attempt]
      /\ attempt \in Nat /\ unanswered \in Seq(Text) /\ t \in Workers
  BY TypeFacts DEF TypeInv, TypeOK, Senders, Workers
<1>2. Append(unanswered, text) \in Seq(Text)
  BY <1>1, AppendProperties
<1>3. CASE connected
  <2>1. doing' = [doing EXCEPT ![t] = "waiting"]
    BY <1>3 DEF Send, Becomes
  <2>2. sending' = [sending EXCEPT ![t] = text] /\ on' = [on EXCEPT ![t] = attempt]
    BY <1>3 DEF Send
  <2>3. unanswered' = Append(unanswered, text) \/ unanswered' = unanswered
    BY <1>3 DEF Send
  <2>4. attempt \in 0 .. attempt
    BY <1>1
  <2> QED  BY <1>1, <1>2, <2>1, <2>2, <2>3, <2>4 DEF Places
<1>4. CASE ~connected
  BY <1>1, <1>4 DEF Send, Becomes, Places
<1> QED  BY <1>3, <1>4

(* The lines of an interval of the file.                                   *)
LEMMA IntervalLines ==
  ASSUME NEW first \in File, NEW last \in File
  PROVE  /\ Interval(first, last) \in Seq(File)
         /\ first .. last \subseteq File
         /\ \A i \in DOMAIN Interval(first, last) :
               /\ Interval(first, last)[i] \in first .. last
               /\ Interval(first, last)[i] = first + i - 1
  BY ClientAssumption DEF Interval, File

(* What becomes of the history: all of it, as long as nothing has crossed. *)
LEMMA NoteEffect ==
  ASSUME NEW crosses, NEW lines, NEW texts, NEW amid, Note(crosses, lines, texts, amid)
  PROVE  /\ crossed' = crosses
         /\ ~crossed' => block' = lines /\ sent' = texts /\ (peeked' <=> amid)
         /\ lines \subseteq File /\ texts \in Seq(Text) =>
              block' \subseteq File /\ sent' \in Seq(Text)
<1>1. /\ crossed' = crosses /\ block' = IF crosses THEN {} ELSE lines
      /\ sent' = (IF crosses THEN << >> ELSE texts) /\ peeked' = (~crosses /\ amid)
  BY DEF Note
<1>2. << >> \in Seq(Text)
  BY EmptySeq
<1>3. CASE crosses
  BY <1>1, <1>2, <1>3
<1>4. CASE ~crosses
  BY <1>1, <1>4
<1> QED  BY <1>3, <1>4

(* What the parser worker is started with.                                 *)
LEMMA StartEffect ==
  ASSUME TypeInv, NEW first \in File, NEW last \in File, StartAsync(first, last)
  PROVE  /\ doing' \in [Workers -> Places] /\ todo' \in [Readers -> Seq(File)]
         /\ block' \subseteq File /\ sent' \in Seq(Text)
         /\ \A w \in Workers \ {"parser"} : doing'[w] = doing[w]
         /\ doing'["parser"] \in {doing["parser"], "starting"}
<1>1. doing \in [Workers -> Places] /\ todo \in [Readers -> Seq(File)]
      /\ block \subseteq File /\ sent \in Seq(Text)
  BY DEF TypeInv
<1>2. Interval(first, last) \in Seq(File) /\ first .. last \subseteq File /\ << >> \in Seq(Text)
  BY IntervalLines, EmptySeq
<1>3. CASE doing["parser"] = "idle" /\ doing["sender"] = "idle"
  <2>1. block' \subseteq File /\ sent' \in Seq(Text)
    BY <1>2, <1>3, NoteEffect DEF StartAsync
  <2> QED
    BY <1>1, <1>2, <1>3, <2>1 DEF StartAsync, Becomes, Workers, Places, Parsers, Readers
<1>4. CASE ~(doing["parser"] = "idle" /\ doing["sender"] = "idle")
  BY <1>1, <1>4 DEF StartAsync, history
<1> QED  BY <1>3, <1>4

(* The program starts typed.                                               *)
LEMMA TypeInitial == Init => TypeInv
<1> SUFFICES ASSUME Init PROVE TypeInv
  OBVIOUS
<1>1. doing = [ui |-> "rest", parser |-> "idle", sender |-> "idle", saver |-> "idle"]
  BY DEF Init
<1>2. /\ doing["ui"] = "rest" /\ doing["parser"] = "idle"
      /\ doing["sender"] = "idle" /\ doing["saver"] = "idle"
  BY <1>1
<1>3. doing \in [Workers -> Places]
  BY <1>1 DEF Workers, Places
<1>4. 0 \in File /\ MaxAttempts \in Nat /\ << >> \in Seq(File) /\ << >> \in Seq(Text) /\ << >> \in Seq(Message)
  BY ClientAssumption, EmptySeq DEF File
<1>5. TypeOK
  <2>1. {unanswered, echoes, parsed} \subseteq Seq(Text) /\ {executing, statuses} \subseteq Seq(File)
    BY <1>4 DEF Init
  <2>2. recv \in [Attempts -> {"off", "armed", "invoking", "closed", "box"}]
    BY DEF Init
  <2>3. sending \in [Senders -> Text \cup {Empty}] /\ next \in Nat \ {0}
    BY <1>4 DEF Init
  <2>4. connected \in BOOLEAN /\ enabled \in BOOLEAN /\ peer \in BOOLEAN
    BY DEF Init
  <2>5. attempt \in 0 .. MaxAttempts /\ readLine \in File /\ currentLine \in File
        /\ {command, understand} \subseteq Text \cup {Empty}
        /\ job \in {"none", "peek", "next", "single", "highlight"}
    BY <1>4 DEF Init
  <2> QED  BY <1>2, <2>1, <2>2, <2>3, <2>4, <2>5, Zenon DEF TypeOK
<1> QED  BY <1>3, <1>4, <1>5 DEF Init, TypeInv, Readers

(* The types by the part of the state they are about.                      *)
NetworkTyped ==
  /\ connected \in BOOLEAN /\ enabled \in BOOLEAN /\ peer \in BOOLEAN
  /\ attempt \in 0 .. MaxAttempts
  /\ unanswered \in Seq(Text) /\ echoes \in Seq(Text)
  /\ executing \in Seq(File) /\ statuses \in Seq(File)
RecvTyped == recv \in [Attempts -> {"off", "armed", "invoking", "closed", "box"}]
FormTyped ==
  /\ readLine \in File /\ currentLine \in File /\ parsed \in Seq(Text)
  /\ command \in Text \cup {Empty} /\ understand \in Text \cup {Empty}
DoingTyped ==
  /\ doing \in [Workers -> Places]
  /\ doing["ui"] \in {"rest", "waiting", "box", "dialog", "saving"}
  /\ doing["sender"] \in {"idle", "ready", "waiting", "box", "done"}
  /\ doing["parser"] \in {"idle", "starting", "parsing", "reading", "read", "done"}
  /\ doing["saver"] \in {"idle", "starting", "parsing", "reading", "read", "failed"}
SendTyped ==
  next \in Nat \ {0} /\ sending \in [Senders -> Text \cup {Empty}] /\ on \in [Senders -> 0 .. attempt]
RestTyped ==
  /\ job \in {"none", "peek", "next", "single", "highlight"}
  /\ todo \in [Readers -> Seq(File)] /\ posted \in Seq(Message)
  /\ block \subseteq File /\ sent \in Seq(Text)
AllTyped ==
  NetworkTyped /\ RecvTyped /\ FormTyped /\ DoingTyped /\ SendTyped /\ RestTyped

(* The types are those of the parts.                                       *)
LEMMA TypeSplit == TypeInv <=> AllTyped
  BY DEF TypeInv, TypeOK, AllTyped, NetworkTyped, RecvTyped, FormTyped, DoingTyped,
         SendTyped, RestTyped

(* Closing the connections keeps the types.                                *)
LEMMA CloseTyped ==
  ASSUME AllTyped, Disconnected
  PROVE  NetworkTyped' /\ RecvTyped' /\ FormTyped' /\ attempt' = attempt
<1>1. 0 \in File /\ << >> \in Seq(File) /\ << >> \in Seq(Text)
  BY ClientAssumption, EmptySeq DEF File
<1>2. NetworkTyped'
  BY <1>1 DEF AllTyped, NetworkTyped, Disconnected, NothingInTransit
<1>3. RecvTyped'
  BY DEF AllTyped, RecvTyped, Disconnected, Orphaned
<1>4. FormTyped'
  BY <1>1 DEF AllTyped, FormTyped, Disconnected, textVars
<1> QED  BY <1>2, <1>3, <1>4 DEF Disconnected

(* The UI thread begins a line, and what a line comes to, are typed.       *)
LEMMA ReadTyped ==
  ASSUME FormTyped, RestTyped, NEW line \in File,
         NEW purpose \in {"peek", "next", "single", "highlight"}, UiReads(line, purpose),
         readLine' \in File, UNCHANGED <<parsed, posted>>,
         block' \subseteq File, sent' \in Seq(Text)
  PROVE  FormTyped' /\ RestTyped'
<1>1. << line >> \in Seq(File)
  OBVIOUS
<1>2. currentLine' \in File /\ command' = Empty /\ understand' = Empty
  BY DEF UiReads, BeginsLine
<1>3. FormTyped'
  BY <1>2 DEF FormTyped
<1>4. job' = purpose /\ todo' = [todo EXCEPT !["ui"] = << line >>]
  BY DEF UiReads
<1>5. RestTyped'
  BY <1>1, <1>4 DEF RestTyped, Readers
<1> QED  BY <1>3, <1>5

LEMMA UnderstandTyped ==
  ASSUME FormTyped, NEW line \in File, Understands(line)
  PROVE  command' \in Text \cup {Empty} /\ understand' \in Text \cup {Empty}
  BY DEF FormTyped, Understands, Text

(* What is posted is typed.                                                *)
LEMMA PostTyped ==
  ASSUME posted \in Seq(Message), NEW m \in Message, Post(m)
  PROVE  posted' \in Seq(Message)
  BY AppendProperties DEF Post

(* What the user does keeps the types.                                     *)
LEMMA ClickTyped ==
  ASSUME AllTyped, User
  PROVE  AllTyped'
<1> USE DEF AllTyped
<1>0. /\ 0 \in File /\ << >> \in Seq(File) /\ << >> \in Seq(Text)
      /\ Lines - 1 \in File /\ File \subseteq Int
  BY ClientAssumption, EmptySeq DEF File
<1>t. TypeInv
  BY TypeSplit
<1>r. ASSUME NEW line \in File, NEW purpose \in {"peek", "next", "single"},
             UiReads(line, purpose),
             UNCHANGED <<network, recv, readLine, parsed, doing, sendVars, posted>>,
             block' \subseteq File, sent' \in Seq(Text)
      PROVE  AllTyped'
  <2>1. FormTyped' /\ RestTyped'
    BY <1>r, ReadTyped DEF FormTyped
  <2> QED
    BY <1>r, <2>1 DEF NetworkTyped, RecvTyped, DoingTyped, SendTyped, network, sendVars
<1>n. ASSUME NEW crosses, NEW amid, Note(crosses, block, sent, amid)
      PROVE  block' \subseteq File /\ sent' \in Seq(Text)
  BY <1>n, NoteEffect DEF RestTyped
<1>p. ASSUME NEW first \in File, NEW last \in File, StartAsync(first, last),
             UNCHANGED posted, UNCHANGED job
      PROVE  DoingTyped' /\ RestTyped'
  <2>1. /\ doing' \in [Workers -> Places] /\ todo' \in [Readers -> Seq(File)]
        /\ block' \subseteq File /\ sent' \in Seq(Text)
        /\ \A w \in Workers \ {"parser"} : doing'[w] = doing[w]
        /\ doing'["parser"] \in {doing["parser"], "starting"}
    BY <1>t, <1>p, StartEffect
  <2>2. DoingTyped'
    BY <2>1 DEF DoingTyped, Workers
  <2> QED  BY <1>p, <2>1, <2>2 DEF RestTyped
<1>1. CASE Connect \/ ConnectFails
  <2>1. attempt < MaxAttempts /\ attempt' = attempt + 1 /\ attempt + 1 \in Attempts
        /\ attempt' \in 0 .. MaxAttempts /\ attempt \in Nat
    BY <1>1, ClientAssumption DEF Connect, ConnectFails, NetworkTyped, Attempts
  <2>2. NetworkTyped'
    BY <1>0, <1>1, <2>1 DEF Connect, ConnectFails, NetworkTyped, NothingInTransit
  <2>3. RecvTyped'
    BY <1>1, <2>1 DEF Connect, ConnectFails, RecvTyped, Orphaned
  <2>4. SendTyped'
    BY <1>1, <2>1 DEF Connect, ConnectFails, SendTyped, sendVars
  <2> QED
    BY <1>1, <2>2, <2>3, <2>4
    DEF Connect, ConnectFails, FormTyped, DoingTyped, RestTyped, formVars, textVars,
        readVars, history
<1>2. CASE Disconnect
  BY <1>2, CloseTyped
  DEF Disconnect, DoingTyped, SendTyped, RestTyped, readVars, sendVars, history
<1>3. ASSUME NEW line \in File, Select(line) PROVE AllTyped'
  <2>1. block' \subseteq File /\ sent' \in Seq(Text)
    BY <1>3, <1>n DEF Select
  <2> QED  BY <1>3, <1>r, <2>1 DEF Select
<1>4. CASE NextLine
  <2> DEFINE following == (IF currentLine > readLine THEN currentLine ELSE readLine) + 1
  <2>1. following < Lines => following \in File
    BY ClientAssumption DEF FormTyped, File
  <2>2. /\ UNCHANGED <<network, recv, readLine, parsed, doing, sendVars, posted>>
        /\ block' \subseteq File /\ sent' \in Seq(Text)
    BY <1>4, <1>n DEF NextLine
  <2>3. \/ following < Lines /\ UiReads(following, "next")
        \/ UNCHANGED <<currentLine, textVars, readVars>>
    BY <1>4 DEF NextLine
  <2> HIDE DEF following
  <2>4. CASE following < Lines /\ UiReads(following, "next")
    BY <1>r, <2>1, <2>2, <2>4
  <2>5. CASE UNCHANGED <<currentLine, textVars, readVars>>
    BY <2>2, <2>5
    DEF NetworkTyped, RecvTyped, FormTyped, DoingTyped, SendTyped, RestTyped,
        network, textVars, readVars, sendVars
  <2> QED  BY <2>3, <2>4, <2>5
<1>5. CASE SingleLine
  <2>1. block' \subseteq File /\ sent' \in Seq(Text)
    BY <1>5, <1>n DEF SingleLine
  <2> QED  BY <1>5, <1>r, <2>1 DEF SingleLine, FormTyped
<1>6. CASE FromLastLine \/ AllLines
  <2>1. /\ \E last \in File : StartAsync(readLine, last)
        /\ UNCHANGED posted /\ UNCHANGED job
    BY <1>0, <1>6 DEF FromLastLine, AllLines, FormTyped
  <2>2. DoingTyped' /\ RestTyped'
    BY <1>p, <2>1 DEF FormTyped
  <2> QED
    BY <1>6, <2>2
    DEF FromLastLine, AllLines, NetworkTyped, RecvTyped, FormTyped, SendTyped,
        network, formVars, textVars, sendVars
<1>7. CASE Save
  <2>1. DoingTyped'
    BY <1>7 DEF Save, DoingTyped, Workers, Places
  <2>2. block' \subseteq File /\ sent' \in Seq(Text)
    BY <1>7, <1>n DEF Save
  <2> QED
    BY <1>7, <2>1, <2>2
    DEF Save, NetworkTyped, RecvTyped, FormTyped, SendTyped, RestTyped,
        network, formVars, textVars, readVars, sendVars
<1> QED  BY <1>1, <1>2, <1>3, <1>4, <1>5, <1>6, <1>7 DEF User

(* Parsing keeps the types.                                                *)
LEMMA ParsingTyped ==
  ASSUME AllTyped, NEW w \in Parsers, Parsing(w)
  PROVE  AllTyped'
<1> USE DEF AllTyped
<1>0. /\ 0 \in File /\ << >> \in Seq(File) /\ << >> \in Seq(Text) /\ Lines - 1 \in File
      /\ w \in {"parser", "saver"} /\ w \in Readers /\ [kind |-> "parserDone"] \in Message
  BY ClientAssumption, EmptySeq DEF File, Parsers, Readers, Message
<1>b. ASSUME NEW place \in {"parsing", "reading", "read"}, Becomes(w, place)
      PROVE  DoingTyped'
  BY <1>0, <1>b DEF DoingTyped, Becomes, Workers, Places
<1>h. todo[w] # << >> => Head(todo[w]) \in File /\ Tail(todo[w]) \in Seq(File)
  BY <1>0, HeadTailProperties DEF RestTyped
<1>1. CASE BeginParse(w)
  <2>1. DoingTyped'
    BY <1>1, <1>b DEF BeginParse
  <2>2. todo' \in [Readers -> Seq(File)]
    <3>1. Interval(readLine, Lines - 1) \in Seq(File)
      BY <1>0, IntervalLines DEF FormTyped
    <3> QED  BY <1>1, <3>1 DEF BeginParse, RestTyped
  <2> QED
    BY <1>0, <1>1, <2>1, <2>2
    DEF BeginParse, NetworkTyped, RecvTyped, FormTyped, SendTyped, RestTyped,
        network, textVars, sendVars, history
<1>2. CASE BeginLine(w)
  <2>1. DoingTyped'
    BY <1>2, <1>b DEF BeginLine
  <2>2. FormTyped'
    BY <1>2, <1>h DEF BeginLine, BeginsLine, FormTyped
  <2>3. block' \subseteq File /\ sent' \in Seq(Text)
    BY <1>2, NoteEffect DEF BeginLine, RestTyped
  <2> QED
    BY <1>2, <2>1, <2>2, <2>3
    DEF BeginLine, NetworkTyped, RecvTyped, SendTyped, RestTyped, network, readVars, sendVars
<1>3. CASE ParseLine(w)
  <2>1. DoingTyped'
    BY <1>3, <1>b DEF ParseLine
  <2>2. command' \in Text \cup {Empty} /\ understand' \in Text \cup {Empty}
    BY <1>3, <1>h, UnderstandTyped DEF ParseLine
  <2>3. FormTyped'
    BY <1>3, <2>2 DEF ParseLine, FormTyped
  <2> QED
    BY <1>3, <2>1, <2>3
    DEF ParseLine, NetworkTyped, RecvTyped, SendTyped, RestTyped,
        network, readVars, sendVars, history
<1>4. CASE AddCommand(w)
  <2>1. DoingTyped'
    BY <1>4, <1>b DEF AddCommand
  <2>2. parsed' \in Seq(Text)
    <3>1. command # Empty => Append(parsed, command) \in Seq(Text)
      BY AppendProperties DEF FormTyped
    <3> QED  BY <1>4, <3>1 DEF AddCommand, FormTyped
  <2>3. todo' \in [Readers -> Seq(File)]
    BY <1>4, <1>h DEF AddCommand, RestTyped
  <2> QED
    BY <1>4, <2>1, <2>2, <2>3
    DEF AddCommand, NetworkTyped, RecvTyped, FormTyped, SendTyped, RestTyped,
        network, textVars, sendVars, history
<1>5. ASSUME Ends(w) PROVE DoingTyped' /\ posted' \in Seq(Message)
  <2>1. CASE w = "parser"
    BY <1>0, <1>5, <2>1, PostTyped
    DEF Ends, Becomes, DoingTyped, RestTyped, Workers, Places
  <2>2. CASE w = "saver"
    BY <1>5, <2>2 DEF Ends, Becomes, DoingTyped, RestTyped, Workers, Places
  <2> QED  BY <1>0, <2>1, <2>2
<1>6. CASE ParseThrows(w)
  <2>1. DoingTyped' /\ posted' \in Seq(Message)
    <3>1. CASE w = "saver"
      BY <1>6, <3>1 DEF ParseThrows, Becomes, DoingTyped, RestTyped, Workers, Places
    <3>2. CASE w # "saver"
      BY <1>5, <1>6, <3>2 DEF ParseThrows
    <3> QED  BY <3>1, <3>2
  <2>2. RestTyped'
    BY <1>0, <1>6, <2>1 DEF ParseThrows, RestTyped, history
  <2> QED
    BY <1>6, <2>1, <2>2
    DEF ParseThrows, NetworkTyped, RecvTyped, FormTyped, SendTyped, network, formVars,
        textVars, sendVars
<1>7. CASE EndParse(w)
  <2>1. DoingTyped' /\ posted' \in Seq(Message)
    BY <1>5, <1>7 DEF EndParse
  <2> QED
    BY <1>7, <2>1
    DEF EndParse, NetworkTyped, RecvTyped, FormTyped, SendTyped, RestTyped,
        network, formVars, textVars, readVars, sendVars, history
<1> QED  BY <1>1, <1>2, <1>3, <1>4, <1>6, <1>7 DEF Parsing

(* How a send returns.                                                     *)
LEMMA ReturnEffect ==
  ASSUME NEW t \in Senders, NEW success, Return(t, success)
  PROVE  \/ /\ t = "ui" /\ doing' = [doing EXCEPT !["ui"] = "rest"]
            /\ UNCHANGED <<next, posted>>
         \/ /\ t = "sender" /\ doing' = [doing EXCEPT !["sender"] = "ready"]
            /\ next' = next + 1 /\ UNCHANGED posted
         \/ /\ t = "sender" /\ doing' = [doing EXCEPT !["sender"] = "done"]
            /\ posted' = Append(posted, [kind |-> "senderDone"]) /\ UNCHANGED next
<1>1. CASE t = "ui"
  BY <1>1 DEF Return, Becomes
<1>2. CASE t = "sender" /\ success
  BY <1>2 DEF Return, Becomes
<1>3. CASE t = "sender" /\ ~success
  BY <1>3 DEF Return, Becomes, Post
<1> QED  BY <1>1, <1>2, <1>3 DEF Senders

(* Sending, and what becomes of a send, keep the types.                    *)
LEMMA SendingTyped ==
  ASSUME AllTyped,
         SenderSends \/ SenderEnds \/ \E t \in Senders : Waiting(t) \/ Dismiss(t)
  PROVE  AllTyped'
<1> USE DEF AllTyped
<1>t. TypeInv
  BY TypeSplit
<1>0. [kind |-> "senderDone"] \in Message /\ [kind |-> "disconnect"] \in Message
  BY DEF Message
<1>1. CASE SenderSends
  <2>1. parsed[next] \in Text
    BY <1>1, ElementOfSeq DEF SenderSends, FormTyped, SendTyped
  <2>2. /\ doing' \in [Workers -> Places] /\ doing'["sender"] \in {"waiting", "box"}
        /\ \A w \in Workers \ {"sender"} : doing'[w] = doing[w]
        /\ sending' \in [Senders -> Text \cup {Empty}] /\ on' \in [Senders -> 0 .. attempt]
        /\ unanswered' \in Seq(Text)
    BY <1>t, <1>1, <2>1, SendEffect DEF SenderSends, Senders
  <2>3. DoingTyped'
    BY <2>2 DEF DoingTyped, Workers
  <2>4. block' \subseteq File /\ sent' \in Seq(Text)
    <3>1. (IF connected THEN Append(sent, parsed[next]) ELSE sent) \in Seq(Text)
      BY <2>1, AppendProperties DEF RestTyped
    <3> QED  BY <1>1, <3>1, NoteEffect DEF SenderSends, RestTyped
  <2> QED
    BY <1>1, <2>2, <2>3, <2>4
    DEF SenderSends, NetworkTyped, RecvTyped, FormTyped, SendTyped, RestTyped, formVars, textVars, readVars
<1>2. CASE SenderEnds
  <2>1. DoingTyped'
    BY <1>2 DEF SenderEnds, DoingTyped, Becomes, Workers, Places
  <2>2. posted' \in Seq(Message)
    BY <1>0, <1>2, PostTyped DEF SenderEnds, RestTyped
  <2> QED
    BY <1>2, <2>1, <2>2
    DEF SenderEnds, NetworkTyped, RecvTyped, FormTyped, SendTyped, RestTyped,
        network, formVars, textVars, readVars, sendVars, history
<1>3. ASSUME NEW t \in Senders, NEW success, Return(t, success)
      PROVE  DoingTyped' /\ next' \in Nat \ {0} /\ posted' \in Seq(Message)
  <2>1. Append(posted, [kind |-> "senderDone"]) \in Seq(Message)
    BY <1>0, AppendProperties DEF RestTyped
  <2>2. next \in Nat \ {0} /\ next + 1 \in Nat \ {0}
    BY DEF SendTyped
  <2>3. DoingTyped'
    BY <1>3, ReturnEffect DEF DoingTyped, Workers, Places
  <2> QED  BY <1>3, <2>1, <2>2, <2>3, ReturnEffect DEF RestTyped
<1>4. ASSUME NEW t \in Senders, Becomes(t, "box") PROVE DoingTyped'
  BY <1>4 DEF Becomes, DoingTyped, Senders, Workers, Places
<1>5. ASSUME NEW t \in Senders, ReceiveEcho(t) PROVE AllTyped'
  <2>1. DoingTyped' /\ next' \in Nat \ {0} /\ posted' \in Seq(Message)
    BY <1>3, <1>5 DEF ReceiveEcho
  <2>2. echoes' \in Seq(Text)
    <3>1. PICK n \in 1 .. Len(echoes) : echoes' = SubSeq(echoes, n + 1, Len(echoes))
      BY <1>5 DEF ReceiveEcho
    <3>2. Len(echoes) \in Nat /\ \A i \in n + 1 .. Len(echoes) : echoes[i] \in Text
      BY <3>1, LenProperties, ElementOfSeq DEF NetworkTyped
    <3> QED  BY <3>1, <3>2, SubSeqProperties
  <2> QED
    BY <1>5, <2>1, <2>2
    DEF ReceiveEcho, NetworkTyped, RecvTyped, FormTyped, SendTyped, RestTyped, formVars, textVars, readVars, history
<1>6. ASSUME NEW t \in Senders, ReceiveNothing(t) PROVE AllTyped'
  <2>1. DoingTyped' /\ next' \in Nat \ {0} /\ posted' \in Seq(Message)
    BY <1>3, <1>4, <1>6 DEF ReceiveNothing, SendTyped, RestTyped
  <2> QED
    BY <1>6, <2>1
    DEF ReceiveNothing, NetworkTyped, RecvTyped, FormTyped, SendTyped, RestTyped,
        network, formVars, textVars, readVars, history
<1>7. ASSUME NEW t \in Senders, Timeout(t) PROVE AllTyped'
  BY <1>4, <1>7
  DEF Timeout, NetworkTyped, RecvTyped, FormTyped, SendTyped, RestTyped,
      network, formVars, textVars, readVars, sendVars, history
<1>9. ASSUME NEW t \in Senders, ConnectionGone(t) PROVE AllTyped'
  <2>1. DoingTyped' /\ next' \in Nat \ {0} /\ posted' \in Seq(Message)
    BY <1>3, <1>4, <1>9 DEF ConnectionGone, SendTyped, RestTyped
  <2> QED
    BY <1>9, <2>1
    DEF ConnectionGone, NetworkTyped, RecvTyped, FormTyped, SendTyped, RestTyped,
        network, formVars, textVars, readVars, history
<1>8. ASSUME NEW t \in Senders, Dismiss(t) PROVE AllTyped'
  <2>1. CASE t = "ui"
    <3>1. DoingTyped'
      BY <1>8, <2>1 DEF Dismiss, Becomes, DoingTyped, Workers, Places
    <3>2. NetworkTyped' /\ RecvTyped' /\ FormTyped' /\ attempt' = attempt
      BY <1>8, <2>1, CloseTyped DEF Dismiss
    <3> QED  BY <1>8, <2>1, <3>1, <3>2 DEF Dismiss, SendTyped, RestTyped, readVars, sendVars, history
  <2>2. CASE t # "ui"
    <3>1. DoingTyped'
      BY <1>8, <2>2 DEF Dismiss, Becomes, DoingTyped, Workers, Places
    <3>2. posted' \in Seq(Message)
      <4>1. << [kind |-> "disconnect"], [kind |-> "senderDone"] >> \in Seq(Message)
        BY <1>0
      <4> QED  BY <1>8, <2>2, <4>1, ConcatProperties DEF Dismiss, RestTyped
    <3> QED
      BY <1>8, <2>2, <3>1, <3>2
      DEF Dismiss, NetworkTyped, RecvTyped, FormTyped, SendTyped, RestTyped,
          network, formVars, textVars, readVars, sendVars, history
  <2> QED  BY <2>1, <2>2
<1> QED  BY <1>1, <1>2, <1>5, <1>6, <1>7, <1>8, <1>9 DEF Waiting

(* So do the plugin and the status callback.                               *)
LEMMA PeerTyped ==
  ASSUME AllTyped, Plugin \/ \E a \in Attempts : Callback(a) \/ DismissReceive(a)
  PROVE  AllTyped'
<1> USE DEF AllTyped
<1>0. << >> \in Seq(File) /\ << >> \in Seq(Text)
  BY EmptySeq
<1>1. CASE Echo
  <2>1. Head(unanswered) \in Text /\ Tail(unanswered) \in Seq(Text)
    BY <1>1, HeadTailProperties DEF Echo, NetworkTyped
  <2>2. /\ Append(echoes, Head(unanswered)) \in Seq(Text)
        /\ Append(executing, Head(unanswered).number) \in Seq(File)
    <3>1. Head(unanswered).number \in File
      BY <2>1 DEF Text
    <3> QED  BY <2>1, <3>1, AppendProperties DEF NetworkTyped
  <2>3. NetworkTyped'
    BY <1>1, <2>1, <2>2 DEF Echo, NetworkTyped
  <2> QED
    BY <1>1, <2>3
    DEF Echo, RecvTyped, FormTyped, DoingTyped, SendTyped, RestTyped, formVars, textVars, readVars, sendVars, history
<1>2. CASE Execute
  <2>1. Head(executing) \in File /\ Tail(executing) \in Seq(File)
    BY <1>2, HeadTailProperties DEF Execute, NetworkTyped
  <2>2. Append(statuses, Head(executing)) \in Seq(File)
    BY <2>1, AppendProperties DEF NetworkTyped
  <2>3. NetworkTyped'
    BY <1>2, <2>1, <2>2 DEF Execute, NetworkTyped
  <2> QED
    BY <1>2, <2>3
    DEF Execute, RecvTyped, FormTyped, DoingTyped, SendTyped, RestTyped, formVars, textVars, readVars, sendVars, history
<1>3. CASE PeerCloses
  <2>1. /\ peer' = FALSE /\ unanswered' = << >> /\ executing' = << >>
        /\ UNCHANGED <<connected, attempt, enabled, echoes, statuses, recv, formVars, doing>>
        /\ UNCHANGED <<readVars, sendVars, posted, history>>
    BY <1>3 DEF PeerCloses
  <2>2. NetworkTyped'
    BY <1>0, <2>1 DEF NetworkTyped
  <2> QED
    BY <2>1, <2>2
    DEF RecvTyped, FormTyped, DoingTyped, SendTyped, RestTyped,
        formVars, textVars, readVars, sendVars, history
<1>4. ASSUME NEW a \in Attempts, ReceiveStatus(a) PROVE AllTyped'
  <2>1. PICK n \in 1 .. Len(statuses) : statuses' = SubSeq(statuses, n + 1, Len(statuses))
    BY <1>4 DEF ReceiveStatus
  <2>2. /\ Len(statuses) \in Nat /\ \A i \in n + 1 .. Len(statuses) : statuses[i] \in File
        /\ Head(statuses) \in File
    BY <2>1, LenProperties, ElementOfSeq, HeadTailProperties, EmptySeq DEF NetworkTyped
  <2>3. statuses' \in Seq(File)
    BY <2>1, <2>2, SubSeqProperties
  <2>4. [kind |-> "line", line |-> Head(statuses), attempt |-> a] \in Message
    BY <2>2 DEF Message
  <2>5. posted' \in Seq(Message)
    BY <1>4, <2>4, PostTyped DEF ReceiveStatus, RestTyped
  <2>6. NetworkTyped' /\ RecvTyped'
    BY <1>4, <2>3 DEF ReceiveStatus, NetworkTyped, RecvTyped
  <2> QED
    BY <1>4, <2>5, <2>6
    DEF ReceiveStatus, FormTyped, DoingTyped, SendTyped, RestTyped, formVars, textVars, readVars, sendVars, history
<1>5. ASSUME NEW a \in Attempts, ReceiveClosed(a) PROVE AllTyped'
  BY <1>5
  DEF ReceiveClosed, NetworkTyped, RecvTyped, FormTyped, DoingTyped, SendTyped, RestTyped,
      network, formVars, textVars, readVars, sendVars, history
<1>6. ASSUME NEW a \in Attempts, DismissReceive(a) PROVE AllTyped'
  <2>1. posted' \in Seq(Message)
    <3>1. [kind |-> "disconnect"] \in Message
      BY DEF Message
    <3> QED  BY <1>6, <3>1, PostTyped DEF DismissReceive, RestTyped
  <2> QED
    BY <1>6, <2>1
    DEF DismissReceive, NetworkTyped, RecvTyped, FormTyped, DoingTyped, SendTyped, RestTyped,
        network, formVars, textVars, readVars, sendVars, history
<1> QED  BY <1>1, <1>2, <1>3, <1>4, <1>5, <1>6 DEF Plugin, Callback

(* And the UI thread, dispatching and at its dialog.                       *)
LEMMA UiTyped ==
  ASSUME AllTyped, Dispatched \/ CloseDialog \/ Saved
  PROVE  AllTyped'
<1> USE DEF AllTyped
<1>d. ASSUME NEW kind, Done(kind)
      PROVE  posted' \in Seq(Message) /\ Head(posted) \in Message
  BY <1>d, HeadTailProperties DEF Done, RestTyped
<1>1. ASSUME NEW kind, Dispatch(kind)
      PROVE  RestTyped' /\ Head(posted) \in Message /\ UNCHANGED <<sending, on>>
  BY <1>1, <1>d DEF Dispatch, RestTyped, readVars, history
<1>2. CASE ParserCompleted
  <2>1. RestTyped' /\ UNCHANGED <<sending, on>>
    BY <1>1, <1>2 DEF ParserCompleted
  <2>2. DoingTyped'
    BY <1>2 DEF ParserCompleted, DoingTyped, Workers, Places
  <2> QED
    BY <1>2, <2>1, <2>2
    DEF ParserCompleted, NetworkTyped, RecvTyped, FormTyped, SendTyped, network, formVars, textVars
<1>3. CASE SenderCompleted
  <2>1. RestTyped' /\ UNCHANGED <<sending, on>>
    BY <1>1, <1>3 DEF SenderCompleted
  <2>2. DoingTyped'
    BY <1>3 DEF SenderCompleted, Becomes, DoingTyped, Workers, Places
  <2> QED
    BY <1>3, <2>1, <2>2
    DEF SenderCompleted, NetworkTyped, RecvTyped, FormTyped, SendTyped, network, formVars, textVars
<1>4. CASE FailureHandled
  <2>1. RestTyped' /\ UNCHANGED <<sending, on>>
    BY <1>1, <1>4 DEF FailureHandled
  <2> QED  BY <1>4, <2>1, CloseTyped DEF FailureHandled, DoingTyped, SendTyped
<1>l. ASSUME Head(posted).kind = "line", Head(posted) \in Message
      PROVE  Head(posted).line \in File
  BY <1>l DEF Message
<1>5. CASE HighlightLine
  <2>1. RestTyped' /\ Head(posted) \in Message /\ UNCHANGED <<sending, on>>
    BY <1>1, <1>5 DEF HighlightLine
  <2>2. Head(posted).line \in File
    BY <1>5, <1>l, <2>1 DEF HighlightLine, Dispatch, Dispatches
  <2>3. RecvTyped'
    BY <1>5 DEF HighlightLine, CallbackGoesOn, RecvTyped
  <2> QED
    BY <1>5, <2>1, <2>2, <2>3
    DEF HighlightLine, NetworkTyped, FormTyped, DoingTyped, SendTyped, network, textVars
<1>6. CASE HighlightSelects
  <2>1. Head(posted).line \in File
    <3>1. posted # << >> /\ Head(posted).kind = "line" /\ Head(posted) \in Message
      BY <1>6, HeadTailProperties DEF HighlightSelects, Dispatches, RestTyped
    <3> QED  BY <1>l, <3>1
  <2>2. block' \subseteq File /\ sent' \in Seq(Text)
    BY <1>6, NoteEffect DEF HighlightSelects, RestTyped
  <2>3. FormTyped' /\ RestTyped'
    BY <1>6, <2>1, <2>2, ReadTyped DEF HighlightSelects
  <2> QED
    BY <1>6, <2>3
    DEF HighlightSelects, NetworkTyped, RecvTyped, DoingTyped, SendTyped, network, sendVars
<1>7. CASE CloseDialog \/ Saved
  <2>1. DoingTyped'
    BY <1>7 DEF CloseDialog, Saved, Becomes, DoingTyped, Workers, Places
  <2> QED
    BY <1>7, <2>1
    DEF CloseDialog, Saved, NetworkTyped, RecvTyped, FormTyped, SendTyped, RestTyped,
        network, formVars, textVars, readVars, sendVars, history
<1> QED  BY <1>2, <1>3, <1>4, <1>5, <1>6, <1>7 DEF Dispatched

(* So does the UI thread on its line.                                      *)
LEMMA UiReadingTyped ==
  ASSUME AllTyped, UiReading
  PROVE  AllTyped'
<1> USE DEF AllTyped
<1>t. TypeInv
  BY TypeSplit
<1>0. "ui" \in Readers /\ << >> \in Seq(File)
  BY EmptySeq DEF Readers
<1>d. ASSUME Done("line") PROVE posted' \in Seq(Message)
  BY <1>d, HeadTailProperties DEF Done, RestTyped
<1>u. ASSUME UiUnderstands, job' \in {"none", job}, posted' \in Seq(Message)
      PROVE  NetworkTyped' /\ FormTyped' /\ DoingTyped' /\ SendTyped' /\ RestTyped'
  <2>1. Head(todo["ui"]) \in File
    BY <1>0, <1>u, HeadTailProperties DEF UiUnderstands, RestTyped
  <2>2. command' \in Text \cup {Empty} /\ understand' \in Text \cup {Empty}
    BY <1>u, <2>1, UnderstandTyped DEF UiUnderstands
  <2>3. FormTyped'
    BY <1>u, <2>2 DEF UiUnderstands, FormTyped
  <2>4. todo' \in [Readers -> Seq(File)]
    BY <1>0, <1>u DEF UiUnderstands, RestTyped
  <2>5. RestTyped'
    BY <1>u, <2>4 DEF UiUnderstands, RestTyped, history
  <2> QED
    BY <1>u, <2>3, <2>5
    DEF UiUnderstands, NetworkTyped, DoingTyped, SendTyped, network, sendVars
<1>1. CASE Peek \/ ReadToSend
  <2>1. UiUnderstands /\ job' \in {"none", job} /\ UNCHANGED <<recv, posted>>
    BY <1>1 DEF Peek, ReadToSend
  <2>2. NetworkTyped' /\ FormTyped' /\ DoingTyped' /\ SendTyped' /\ RestTyped'
    BY <1>u, <2>1 DEF RestTyped
  <2> QED  BY <2>1, <2>2 DEF RecvTyped
<1>2. CASE Highlighted
  <2>1. UiUnderstands /\ job' = "none" /\ Done("line") /\ CallbackGoesOn
    BY <1>2 DEF Highlighted
  <2>2. NetworkTyped' /\ FormTyped' /\ DoingTyped' /\ SendTyped' /\ RestTyped'
    BY <1>d, <1>u, <2>1
  <2> QED  BY <2>1, <2>2 DEF RecvTyped, CallbackGoesOn
<1>3. CASE SendLine
  <2> DEFINE text == IF job = "next" THEN command ELSE understand
  <2>1. (text # Empty /\ Send("ui", text)) \/ UNCHANGED <<unanswered, doing, sending, on>>
    BY <1>3 DEF SendLine
  <2>2. text # Empty => text \in Text
    BY DEF FormTyped
  <2>3. /\ job' = "none" /\ UNCHANGED <<connected, attempt, enabled, peer, echoes, executing>>
        /\ UNCHANGED <<statuses, recv, formVars, todo, next, posted, history>>
    BY <1>3 DEF SendLine
  <2> HIDE DEF text
  <2>4. CASE text # Empty /\ Send("ui", text)
    <3>1. /\ doing' \in [Workers -> Places] /\ doing'["ui"] \in {"waiting", "box"}
          /\ \A w \in Workers \ {"ui"} : doing'[w] = doing[w]
          /\ sending' \in [Senders -> Text \cup {Empty}] /\ on' \in [Senders -> 0 .. attempt]
          /\ unanswered' \in Seq(Text)
      BY <1>t, <2>2, <2>4, SendEffect DEF Senders
    <3>2. DoingTyped'
      BY <3>1 DEF DoingTyped, Workers
    <3> QED
      BY <2>3, <3>1, <3>2
      DEF NetworkTyped, RecvTyped, FormTyped, SendTyped, RestTyped, formVars, textVars, history
  <2>5. CASE UNCHANGED <<unanswered, doing, sending, on>>
    BY <2>3, <2>5
    DEF NetworkTyped, RecvTyped, FormTyped, DoingTyped, SendTyped, RestTyped,
        formVars, textVars, history
  <2> QED  BY <2>1, <2>4, <2>5
<1>4. CASE UiThrows
  BY <1>0, <1>4
  DEF UiThrows, NetworkTyped, RecvTyped, FormTyped, DoingTyped, SendTyped, RestTyped,
      network, formVars, textVars, sendVars, history
<1>5. CASE HighlightThrows
  <2>1. posted' \in Seq(Message) /\ RecvTyped'
    BY <1>5, <1>d DEF HighlightThrows, RecvTyped
  <2> QED
    BY <1>0, <1>5, <2>1
    DEF HighlightThrows, NetworkTyped, FormTyped, DoingTyped, SendTyped, RestTyped,
        network, formVars, textVars, sendVars, history
<1> QED  BY <1>1, <1>2, <1>3, <1>4, <1>5 DEF UiReading

(* Every step keeps the types.                                             *)
LEMMA TypeStep == TypeInv /\ [Next]_vars => TypeInv'
<1> SUFFICES ASSUME TypeInv, [Next]_vars PROVE TypeInv'
  OBVIOUS
<1>0. AllTyped
  BY TypeSplit
<1>1. AllTyped'
  <2>1. CASE UNCHANGED vars
    BY <1>0, <2>1
    DEF AllTyped, NetworkTyped, RecvTyped, FormTyped, DoingTyped, SendTyped, RestTyped,
        vars, network, formVars, textVars, readVars, sendVars, history
  <2>2. CASE \E w \in Parsers : Parsing(w)
    BY <1>0, <2>2, ParsingTyped
  <2>3. CASE SenderSends \/ SenderEnds \/ \E t \in Senders : Waiting(t) \/ Dismiss(t)
    BY <1>0, <2>3, SendingTyped
  <2>4. CASE Plugin \/ \E a \in Attempts : Callback(a) \/ DismissReceive(a)
    BY <1>0, <2>4, PeerTyped
  <2>5. CASE User
    BY <1>0, <2>5, ClickTyped
  <2>6. CASE Dispatched \/ CloseDialog \/ Saved
    BY <1>0, <2>6, UiTyped
  <2>7. CASE UiReading
    BY <1>0, <2>7, UiReadingTyped
  <2> QED  BY <2>1, <2>2, <2>3, <2>4, <2>5, <2>6, <2>7 DEF Next, FormGoesOn
<1> QED
  BY <1>1
  DEF TypeInv, TypeOK, AllTyped, NetworkTyped, RecvTyped, FormTyped, DoingTyped,
      SendTyped, RestTyped

(* The types of TypeOK hold in every reachable state; in particular the    *)
(* line that is current, shown or sent is one of the file.                 *)
THEOREM ClientTypes == Spec => []TypeOK
<1>1. TypeInv => TypeOK
  BY DEF TypeInv
<1> QED  BY <1>1, TypeInitial, TypeStep, PTL DEF Spec

-----------------------------------------------------------------------------
(***************************************************************************)
(* Turns.                                                                  *)
(***************************************************************************)

(* What the types say of the messages posted.                              *)
LEMMA PostedFacts ==
  ASSUME TypeInv
  PROVE  /\ posted \in Seq(Message) /\ Len(posted) \in Nat /\ DOMAIN posted = 1 .. Len(posted)
         /\ doing \in [Workers -> Places] /\ doing["saver"] # "done"
<1>1. posted \in Seq(Message)
  BY DEF TypeInv
<1> QED  BY <1>1, LenProperties DEF TypeInv, TypeOK

(* A dispatch leaves the messages behind the first, in their places.       *)
LEMMA DispatchEffect ==
  ASSUME TypeInv, NEW kind, Done(kind)
  PROVE  /\ 1 \in DOMAIN posted /\ posted[1] = Head(posted) /\ posted[1].kind = kind
         /\ posted' = Tail(posted)
         /\ DOMAIN posted' \subseteq Nat \ {0}
         /\ \A i \in DOMAIN posted' : i + 1 \in DOMAIN posted /\ posted'[i] = posted[i + 1]
<1>1. posted # << >> /\ posted' = Tail(posted) /\ Head(posted).kind = kind
  BY DEF Done
<1>2. /\ Tail(posted) \in Seq(Message) /\ Len(Tail(posted)) = Len(posted) - 1
      /\ Len(posted) \in Nat \ {0} /\ DOMAIN posted = 1 .. Len(posted)
      /\ \A i \in 1 .. Len(Tail(posted)) : Tail(posted)[i] = posted[i + 1]
  BY <1>1, PostedFacts, HeadTailProperties, EmptySeq
<1>3. DOMAIN Tail(posted) = 1 .. Len(Tail(posted))
  BY <1>2, LenProperties
<1> QED  BY <1>1, <1>2, <1>3

(* Completions stay true to their workers when nothing is posted, when     *)
(* something else is, when a worker is done, and when one is dispatched.   *)
LEMMA CompletionKept ==
  ASSUME NEW worker, NEW kind, Completion(worker, kind), UNCHANGED posted,
         doing[worker] = "done" => doing'[worker] = "done"
  PROVE  Completion(worker, kind)'
  BY DEF Completion

(* A completion is kept by whoever neither posts nor dispatches it.        *)
LEMMA CompletionBeside ==
  ASSUME TypeInv, NEW worker, NEW kind, Completion(worker, kind),
         NEW m, posted' = Append(posted, m), m.kind # kind,
         doing[worker] = "done" => doing'[worker] = "done"
  PROVE  Completion(worker, kind)'
<1>1. /\ DOMAIN posted' = 1 .. Len(posted) + 1 /\ posted'[Len(posted) + 1] = m
      /\ \A i \in DOMAIN posted : posted'[i] = posted[i]
      /\ DOMAIN posted = 1 .. Len(posted) /\ Len(posted) \in Nat
  BY PostedFacts
<1> QED  BY <1>1 DEF Completion

(* A worker posts its completion as it ends, and none was posted before.   *)
LEMMA CompletionPosted ==
  ASSUME TypeInv, NEW worker, NEW kind, Completion(worker, kind),
         NEW m, posted' = Append(posted, m),
         doing[worker] # "done", doing'[worker] = "done"
  PROVE  Completion(worker, kind)'
<1>1. /\ DOMAIN posted' = 1 .. Len(posted) + 1 /\ posted'[Len(posted) + 1] = m
      /\ \A i \in DOMAIN posted : posted'[i] = posted[i]
      /\ DOMAIN posted = 1 .. Len(posted) /\ Len(posted) \in Nat
  BY PostedFacts
<1> QED  BY <1>1 DEF Completion

(* Dispatching the completion takes the only one away.                     *)
LEMMA CompletionDispatched ==
  ASSUME TypeInv, NEW worker, NEW kind, Completion(worker, kind), NEW k, Done(k),
         doing[worker] = "done" => k = kind \/ doing'[worker] = "done"
  PROVE  Completion(worker, kind)'
<1>1. /\ DOMAIN posted' \subseteq Nat \ {0} /\ 1 \in DOMAIN posted /\ posted[1].kind = k
      /\ \A i \in DOMAIN posted' : i + 1 \in DOMAIN posted /\ posted'[i] = posted[i + 1]
  BY DispatchEffect
<1>2. ASSUME NEW i \in DOMAIN posted', posted'[i].kind = kind PROVE doing'[worker] = "done"
  <2>1. i + 1 \in DOMAIN posted /\ posted[i + 1].kind = kind /\ i + 1 # 1
    BY <1>1, <1>2
  <2>2. k # kind
    BY <1>1, <2>1 DEF Completion
  <2> QED  BY <2>1, <2>2 DEF Completion
<1>3. ASSUME NEW i \in DOMAIN posted', NEW j \in DOMAIN posted',
             posted'[i].kind = kind, posted'[j].kind = kind
      PROVE  i = j
  BY <1>1, <1>3 DEF Completion
<1> QED  BY <1>2, <1>3 DEF Completion

(* A step that moves no worker and posts nothing keeps the turns.          *)
LEMMA TurnQuiet ==
  ASSUME TurnInv, UNCHANGED posted,
         doing'["parser"] = doing["parser"], doing'["sender"] = doing["sender"]
  PROVE  TurnInv'
  BY CompletionKept DEF TurnInv, OneBlockAtATime

(* Every step keeps the turns of the workers.                              *)
LEMMA TurnStep == TypeInv /\ TurnInv /\ [Next]_vars => TurnInv'
<1> SUFFICES ASSUME TypeInv, TurnInv, [Next]_vars PROVE TurnInv'
  OBVIOUS
<1> USE DEF Becomes, Workers
<1>0. doing \in [Workers -> Places]
  BY PostedFacts
<1>1. CASE User
  <2>1. CASE Connect \/ ConnectFails \/ Disconnect \/ \E line \in File : Select(line)
    BY <2>1, TurnQuiet DEF Connect, ConnectFails, Disconnect, Select
  <2>2. CASE NextLine \/ SingleLine
    BY <2>2, TurnQuiet DEF NextLine, SingleLine
  <2>4. CASE FromLastLine \/ AllLines
    <3>1. UNCHANGED posted /\ \E first, last : StartAsync(first, last)
      BY <2>4 DEF FromLastLine, AllLines
    <3>2. CASE UNCHANGED doing
      BY <3>1, <3>2, TurnQuiet
    <3>3. CASE /\ doing["parser"] = "idle" /\ doing["sender"] = "idle"
              /\ doing' = [doing EXCEPT !["parser"] = "starting"]
      <4>1. OneBlockAtATime'
        BY <1>0, <3>3 DEF OneBlockAtATime
      <4> QED  BY <3>1, <3>3, <4>1, CompletionKept DEF TurnInv
    <3> QED  BY <3>1, <3>2, <3>3 DEF StartAsync
  <2>5. CASE Save
    <3>1. doing'["parser"] = doing["parser"] /\ doing'["sender"] = doing["sender"]
      BY <1>0, <2>5 DEF Save
    <3> QED  BY <2>5, <3>1, TurnQuiet DEF Save
  <2> QED  BY <1>1, <2>1, <2>2, <2>4, <2>5 DEF User
<1>2. CASE CloseDialog \/ Saved
  <2>1. doing'["parser"] = doing["parser"] /\ doing'["sender"] = doing["sender"]
    BY <1>0, <1>2 DEF CloseDialog, Saved
  <2> QED  BY <1>2, <2>1, TurnQuiet DEF CloseDialog, Saved
<1>3. CASE Plugin
  BY <1>3, TurnQuiet DEF Plugin, Echo, Execute, PeerCloses
<1>4. CASE ParserCompleted
  <2>1. Done("parserDone") /\ doing' = [doing EXCEPT !["parser"] = "idle", !["sender"] = "ready"]
    BY <1>4 DEF ParserCompleted, Dispatch
  <2>2. doing["parser"] = "done"
    BY <2>1, DispatchEffect DEF TurnInv, Completion
  <2>3. doing["sender"] = "idle"
    BY <2>2 DEF TurnInv, OneBlockAtATime
  <2>4. OneBlockAtATime'
    BY <1>0, <2>1 DEF OneBlockAtATime, Workers
  <2> QED  BY <2>1, <2>3, <2>4, CompletionDispatched DEF TurnInv
<1>5. CASE SenderCompleted
  <2>1. Done("senderDone") /\ doing' = [doing EXCEPT !["sender"] = "idle"]
    BY <1>5 DEF SenderCompleted, Dispatch
  <2>2. OneBlockAtATime'
    BY <1>0, <2>1 DEF OneBlockAtATime, Workers
  <2>3. doing'["parser"] = doing["parser"]
    BY <1>0, <2>1
  <2> QED  BY <2>1, <2>2, <2>3, CompletionDispatched DEF TurnInv
<1>6. CASE FailureHandled \/ HighlightLine \/ Highlighted \/ HighlightThrows
  <2>1. UNCHANGED doing /\ \E k : Done(k) /\ k \in {"disconnect", "line"}
    BY <1>6
    DEF FailureHandled, HighlightLine, Highlighted, HighlightThrows, UiUnderstands, Dispatch
  <2> QED  BY <2>1, CompletionDispatched DEF TurnInv, OneBlockAtATime
<1>s. CASE HighlightSelects \/ Peek \/ ReadToSend \/ UiThrows
  BY <1>s, TurnQuiet DEF HighlightSelects, Peek, ReadToSend, UiThrows, UiUnderstands
<1>n. CASE SendLine
  <2>1. UNCHANGED posted
    BY <1>n DEF SendLine
  <2>2. UNCHANGED doing \/ \E text : Send("ui", text)
    BY <1>n DEF SendLine
  <2>3. doing'["parser"] = doing["parser"] /\ doing'["sender"] = doing["sender"]
    BY <1>0, <2>2 DEF Send
  <2> QED  BY <2>1, <2>3, TurnQuiet
<1>7. ASSUME NEW w \in Parsers, Ends(w), doing[w] \in {"parsing", "reading"} PROVE TurnInv'
  <2>1. CASE w = "parser"
    <3>1. doing'["parser"] = "done" /\ doing'["sender"] = doing["sender"] /\ doing["sender"] = "idle"
      BY <1>0, <1>7, <2>1 DEF Ends, TurnInv, OneBlockAtATime, Workers
    <3>2. posted' = Append(posted, [kind |-> "parserDone"])
      BY <1>7, <2>1 DEF Ends, Post
    <3> QED
      BY <1>7, <2>1, <3>1, <3>2, CompletionPosted, CompletionBeside DEF TurnInv, OneBlockAtATime
  <2>2. CASE w = "saver"
    <3>1. doing'["parser"] = doing["parser"] /\ doing'["sender"] = doing["sender"]
      BY <1>0, <1>7, <2>2 DEF Ends
    <3> QED  BY <1>7, <2>2, <3>1, TurnQuiet DEF Ends
  <2> QED  BY <2>1, <2>2 DEF Parsers
<1>8. ASSUME NEW w \in Parsers, Parsing(w) PROVE TurnInv'
  <2>1. CASE BeginParse(w) \/ BeginLine(w) \/ ParseLine(w) \/ AddCommand(w)
    <3>1. /\ UNCHANGED posted /\ doing[w] \in {"starting", "parsing", "reading", "read"}
          /\ \E place \in InBlock : doing' = [doing EXCEPT ![w] = place]
      BY <2>1 DEF BeginParse, BeginLine, ParseLine, AddCommand, InBlock
    <3>2. /\ doing["parser"] # "idle" \/ doing["parser"] = doing'["parser"]
          /\ doing'["sender"] = doing["sender"]
          /\ doing["parser"] = "done" => doing'["parser"] = "done"
      BY <1>0, <3>1 DEF Parsers, Workers
    <3> QED  BY <3>1, <3>2, CompletionKept DEF TurnInv, OneBlockAtATime
  <2>3. CASE ParseThrows(w)
    <3>1. CASE w = "saver"
      <4>1. doing'["parser"] = doing["parser"] /\ doing'["sender"] = doing["sender"]
        BY <1>0, <2>3, <3>1 DEF ParseThrows
      <4> QED  BY <2>3, <3>1, <4>1, TurnQuiet DEF ParseThrows
    <3>2. CASE w # "saver"
      BY <1>7, <2>3, <3>2 DEF ParseThrows
    <3> QED  BY <3>1, <3>2
  <2>4. CASE EndParse(w)
    BY <1>7, <2>4 DEF EndParse
  <2> QED  BY <1>8, <2>1, <2>3, <2>4 DEF Parsing
<1>9. ASSUME doing["sender"] \notin {"idle", "done"}, NEW place, place # "done",
             doing' = [doing EXCEPT !["sender"] = place], UNCHANGED posted
      PROVE  TurnInv'
  <2>1. doing'["parser"] = doing["parser"]
    BY <1>0, <1>9
  <2> QED  BY <1>9, <2>1, CompletionKept DEF TurnInv, OneBlockAtATime
<1>10. ASSUME doing["sender"] \notin {"idle", "done"},
              doing' = [doing EXCEPT !["sender"] = "done"],
              posted' = Append(posted, [kind |-> "senderDone"])
       PROVE  TurnInv'
  <2>1. doing'["parser"] = doing["parser"] /\ doing'["sender"] = "done"
    BY <1>0, <1>10 DEF Workers
  <2> QED
    BY <1>10, <2>1, CompletionPosted, CompletionBeside DEF TurnInv, OneBlockAtATime
<1>11. CASE SenderSends
  <2>1. doing["sender"] = "ready" /\ UNCHANGED posted /\ Send("sender", parsed[next])
    BY <1>11 DEF SenderSends
  <2>2. \E place \in {"waiting", "box"} : doing' = [doing EXCEPT !["sender"] = place]
    BY <2>1 DEF Send
  <2> QED  BY <1>9, <2>1, <2>2
<1>12. CASE SenderEnds
  BY <1>10, <1>12 DEF SenderEnds, Post
<1>13. ASSUME NEW t \in Senders, NEW success, Return(t, success), doing[t] \in {"waiting", "box"}
       PROVE  TurnInv'
  <2>1. CASE t = "ui"
    <3>1. doing'["parser"] = doing["parser"] /\ doing'["sender"] = doing["sender"]
      BY <1>0, <1>13, <2>1 DEF Return
    <3> QED  BY <1>13, <2>1, <3>1, TurnQuiet DEF Return
  <2>2. CASE t = "sender"
    BY <1>9, <1>10, <1>13, <2>2, ReturnEffect
  <2> QED  BY <2>1, <2>2 DEF Senders
<1>14. ASSUME NEW t \in Senders, Becomes(t, "box"), UNCHANGED posted, doing[t] = "waiting"
       PROVE  TurnInv'
  <2>1. CASE t = "ui"
    <3>1. doing'["parser"] = doing["parser"] /\ doing'["sender"] = doing["sender"]
      BY <1>0, <1>14, <2>1
    <3> QED  BY <1>14, <3>1, TurnQuiet
  <2>2. CASE t = "sender"
    BY <1>9, <1>14, <2>2
  <2> QED  BY <2>1, <2>2 DEF Senders
<1>15. ASSUME NEW t \in Senders, Waiting(t) PROVE TurnInv'
  <2>1. CASE ReceiveEcho(t)
    BY <1>13, <2>1 DEF ReceiveEcho, Waits
  <2>2. CASE ReceiveNothing(t) \/ ConnectionGone(t)
    BY <1>13, <1>14, <2>2 DEF ReceiveNothing, ConnectionGone, Waits
  <2>3. CASE Timeout(t)
    BY <1>14, <2>3 DEF Timeout, Waits
  <2> QED  BY <1>15, <2>1, <2>2, <2>3 DEF Waiting
<1>16. ASSUME NEW t \in Senders, Dismiss(t) PROVE TurnInv'
  <2>1. CASE t = "ui"
    <3>1. doing'["parser"] = doing["parser"] /\ doing'["sender"] = doing["sender"]
      BY <1>0, <1>16, <2>1 DEF Dismiss
    <3> QED  BY <1>16, <2>1, <3>1, TurnQuiet DEF Dismiss
  <2>2. CASE t # "ui"
    <3>1. /\ doing["sender"] = "box" /\ doing'["sender"] = "done"
          /\ doing'["parser"] = doing["parser"] /\ doing["parser"] = "idle"
      BY <1>0, <1>16, <2>2 DEF Dismiss, Senders, Workers, TurnInv, OneBlockAtATime
    <3>2. /\ posted' = posted \o << [kind |-> "disconnect"], [kind |-> "senderDone"] >>
          /\ Len(posted) \in Nat /\ DOMAIN posted = 1 .. Len(posted) /\ posted \in Seq(Message)
      BY <1>16, <2>2, PostedFacts DEF Dismiss
    <3>3. /\ DOMAIN posted' = 1 .. Len(posted) + 2
          /\ \A i \in DOMAIN posted : posted'[i] = posted[i]
          /\ posted'[Len(posted) + 1] = [kind |-> "disconnect"]
          /\ posted'[Len(posted) + 2] = [kind |-> "senderDone"]
      BY <3>2
    <3>4. \A i \in DOMAIN posted' :
            \/ i \in DOMAIN posted /\ posted'[i].kind = posted[i].kind
            \/ posted'[i].kind = "disconnect"
            \/ i = Len(posted) + 2 /\ posted'[i].kind = "senderDone"
      BY <3>2, <3>3
    <3>5. \A i \in DOMAIN posted : posted[i].kind \notin {"parserDone", "senderDone"}
      BY <3>1 DEF TurnInv, Completion
    <3> QED  BY <3>1, <3>4, <3>5 DEF TurnInv, OneBlockAtATime, Completion
  <2> QED  BY <2>1, <2>2
<1>17. ASSUME NEW a \in Attempts, Callback(a) \/ DismissReceive(a) PROVE TurnInv'
  <2>1. CASE ReceiveStatus(a)
    <3>1. UNCHANGED doing
           /\ posted' = Append(posted, [kind |-> "line", line |-> Head(statuses), attempt |-> a])
      BY <2>1 DEF ReceiveStatus, Post
    <3> QED  BY <3>1, CompletionBeside DEF TurnInv, OneBlockAtATime
  <2>2. CASE ReceiveClosed(a)
    BY <2>2, TurnQuiet DEF ReceiveClosed
  <2>3. CASE DismissReceive(a)
    <3>1. UNCHANGED doing /\ posted' = Append(posted, [kind |-> "disconnect"])
      BY <2>3 DEF DismissReceive, Post
    <3> QED  BY <3>1, CompletionBeside DEF TurnInv, OneBlockAtATime
  <2> QED  BY <1>17, <2>1, <2>2, <2>3 DEF Callback
<1>18. CASE UNCHANGED vars
  BY <1>18, TurnQuiet DEF vars
<1> QED
  BY <1>1, <1>2, <1>3, <1>4, <1>5, <1>6, <1>s, <1>n, <1>8, <1>11, <1>12, <1>15, <1>16, <1>17,
     <1>18
  DEF Next, FormGoesOn, Dispatched, UiReading

(* Nobody works at first.                                                  *)
LEMMA TurnInit == Init => TurnInv
  BY DEF Init, TurnInv, OneBlockAtATime, Completion

(* The parser worker and the sender worker are never both at work, for any *)
(* order of clicks, completions and connections.                           *)
THEOREM WorkersTakeTurns == Spec => []OneBlockAtATime
<1>1. TurnInv => OneBlockAtATime
  BY DEF TurnInv
<1> QED  BY <1>1, TypeInitial, TypeStep, TurnInit, TurnStep, PTL DEF Spec

-----------------------------------------------------------------------------
(***************************************************************************)
(* What "not crossed" keeps apart.                                         *)
(***************************************************************************)

AtWork == doing["parser"] # "idle" \/ doing["sender"] # "idle"
Saving == doing["saver"] \notin {"idle", "failed"}
Single == ToSend \/ doing["ui"] \in {"waiting", "box"}

(* A step that starts no work, no save and no single line keeps them apart.*)
NothingStarts ==
  /\ UNCHANGED crossed
  /\ AtWork' => AtWork
  /\ Saving' => Saving
  /\ Single' => Single
  /\ ToSend' => ToSend /\ doing'["ui"] = doing["ui"]

(* Where nothing starts, what was apart stays apart.                       *)
LEMMA AloneKept == Alone /\ NothingStarts => Alone'
  BY DEF Alone, NothingStarts, AtWork, Saving, Single

(* Only clicks start something.                                            *)
LEMMA OnlyClicksStart ==
  ASSUME TypeInv, TurnInv, Alone, [Next]_vars, ~User
  PROVE  NothingStarts
<1> USE DEF Becomes, Workers, AtWork, Saving, Single, ToSend
<1>0. doing \in [Workers -> Places]
  BY PostedFacts
<1>q. ASSUME UNCHANGED <<doing, crossed>>, job' \in {job, "none", "highlight"}
      PROVE  NothingStarts
  BY <1>q DEF NothingStarts
<1>a. ASSUME NEW w \in Workers, NEW place, doing' = [doing EXCEPT ![w] = place],
             UNCHANGED <<crossed, job>>, doing[w] \notin {"idle", "failed"},
             w = "ui" => doing[w] # "rest",
             (w = "ui" /\ place \in {"waiting", "box"}) => doing[w] \in {"waiting", "box"}
      PROVE  NothingStarts
  BY <1>0, <1>a DEF NothingStarts, Alone
<1>1. CASE CloseDialog \/ Saved
  <2>1. /\ \E place \in {"saving", "rest"} : doing' = [doing EXCEPT !["ui"] = place]
        /\ UNCHANGED <<crossed, job>> /\ doing["ui"] \in {"dialog", "saving"}
    BY <1>1 DEF CloseDialog, Saved, readVars, history
  <2> QED  BY <1>a, <2>1
<1>2. CASE Plugin
  BY <1>2, <1>q DEF Plugin, Echo, Execute, PeerCloses, readVars, history
<1>3. CASE ParserCompleted
  <2>1. /\ Done("parserDone") /\ UNCHANGED <<crossed, job>>
        /\ doing' = [doing EXCEPT !["parser"] = "idle", !["sender"] = "ready"]
    BY <1>3 DEF ParserCompleted, Dispatch, readVars, history
  <2>2. doing["parser"] = "done"
    BY <2>1, DispatchEffect DEF TurnInv, Completion
  <2> QED  BY <1>0, <2>1, <2>2 DEF NothingStarts
<1>4. CASE SenderCompleted
  <2>1. /\ UNCHANGED <<crossed, job>> /\ doing' = [doing EXCEPT !["sender"] = "idle"]
    BY <1>4 DEF SenderCompleted, Dispatch, readVars, history
  <2> QED  BY <1>0, <2>1 DEF NothingStarts
<1>5. CASE FailureHandled \/ HighlightLine \/ HighlightSelects
  BY <1>5, <1>q
  DEF FailureHandled, HighlightLine, HighlightSelects, Note, UiReads, Dispatch, readVars, history
<1>r. CASE UiReading
  <2>1. CASE SendLine
    <3>1. /\ ToSend /\ job' = "none" /\ UNCHANGED crossed
          /\ \A w \in Workers \ {"ui"} : doing'[w] = doing[w]
      BY <1>0, <2>1 DEF SendLine, Send, history
    <3> QED  BY <3>1 DEF NothingStarts
  <2>2. CASE ~SendLine
    BY <1>r, <2>2, <1>q
    DEF UiReading, Peek, ReadToSend, UiThrows, Highlighted, HighlightThrows, UiUnderstands, history
  <2> QED  BY <2>1, <2>2
<1>6. ASSUME NEW w \in Parsers, Parsing(w) PROVE NothingStarts
  <2>1. w \in Workers \ {"ui"} /\ doing[w] \in InBlock \cup {"starting"}
    BY <1>6
    DEF Parsing, BeginParse, BeginLine, ParseLine, AddCommand, ParseThrows, EndParse,
        Parsers, InBlock
  <2>2. UNCHANGED <<crossed, job>>
    BY <1>6
    DEF Parsing, BeginParse, BeginLine, ParseLine, AddCommand, ParseThrows, EndParse,
        Note, readVars, history
  <2>3. \E place : doing' = [doing EXCEPT ![w] = place]
    BY <1>6
    DEF Parsing, BeginParse, BeginLine, ParseLine, AddCommand, ParseThrows, EndParse, Ends
  <2> QED  BY <1>a, <2>1, <2>2, <2>3 DEF InBlock
<1>7. CASE SenderSends \/ SenderEnds
  <2>1. doing["sender"] = "ready" /\ UNCHANGED <<crossed, job>>
        /\ \E place : doing' = [doing EXCEPT !["sender"] = place]
    BY <1>7 DEF SenderSends, SenderEnds, Send, Note, readVars, history
  <2> QED  BY <1>a, <2>1
<1>8. ASSUME NEW t \in Senders, Waiting(t) \/ Dismiss(t) PROVE NothingStarts
  <2>1. doing[t] \in {"waiting", "box"} /\ UNCHANGED <<crossed, job>> /\ t \in Workers
    BY <1>8
    DEF Waiting, ReceiveEcho, ReceiveNothing, Timeout, ConnectionGone, Waits, Dismiss,
        Senders, readVars, history
  <2>2. (\E success : Return(t, success)) \/ doing' = [doing EXCEPT ![t] = "box"] \/ Dismiss(t)
    BY <1>8 DEF Waiting, ReceiveEcho, ReceiveNothing, Timeout, ConnectionGone
  <2>3. \E place : doing' = [doing EXCEPT ![t] = place]
    BY <2>2, ReturnEffect DEF Dismiss, Senders
  <2> QED  BY <1>a, <2>1, <2>3
<1>9. ASSUME NEW a \in Attempts, Callback(a) \/ DismissReceive(a) PROVE NothingStarts
  BY <1>9, <1>q DEF Callback, ReceiveStatus, ReceiveClosed, DismissReceive, readVars, history
<1>10. CASE UNCHANGED vars
  BY <1>10, <1>q DEF vars, readVars, history
<1> QED
  BY <1>1, <1>2, <1>3, <1>4, <1>5, <1>r, <1>6, <1>7, <1>8, <1>9, <1>10
  DEF Next, FormGoesOn, Dispatched

wireVars == <<connected, attempt, peer, echoes, unanswered, sending, on>>

(* A click for a line only starts to read it.                              *)
LEMMA ClickLine ==
  ASSUME NextLine \/ SingleLine
  PROVE  /\ UNCHANGED <<parsed, next, posted, doing>> /\ UNCHANGED wireVars
         /\ doing["ui"] = "rest" /\ Note(crossed \/ Busy, block, sent, peeked)
         /\ UNCHANGED <<currentLine, textVars, readVars>> \/ \E line, purpose : UiReads(line, purpose)
<1>1. CASE NextLine
  <2>1. UNCHANGED <<currentLine, textVars, readVars>> \/ \E line, purpose : UiReads(line, purpose)
    BY <1>1 DEF NextLine
  <2> QED  BY <1>1, <2>1 DEF NextLine, Click, network, sendVars, wireVars
<1>2. CASE SingleLine
  BY <1>2 DEF SingleLine, Click, network, sendVars, wireVars
<1> QED  BY <1>1, <1>2

(* Every step keeps apart what is not crossed.                             *)
LEMMA AloneStep == TypeInv /\ TurnInv /\ Alone /\ [Next]_vars => Alone'
<1> SUFFICES ASSUME TypeInv, TurnInv, Alone, [Next]_vars PROVE Alone'
  OBVIOUS
<1>0. doing \in [Workers -> Places]
  BY PostedFacts
<1>1. CASE ~User
  BY <1>1, OnlyClicksStart, AloneKept
<1>2. CASE User
  <2>1. CASE Connect \/ ConnectFails \/ Disconnect \/ \E line \in File : Select(line)
    <3>1. UNCHANGED <<doing, crossed>> /\ job' \in {job, "peek"}
      BY <2>1 DEF Connect, ConnectFails, Disconnect, Select, Note, UiReads, readVars, history
    <3> QED  BY <3>1, AloneKept DEF NothingStarts, AtWork, Saving, Single, ToSend
  <2>2. CASE NextLine \/ SingleLine
    <3>1. Busy \/ (doing["parser"] = "idle" /\ doing["sender"] = "idle" /\ ~Saving)
      BY DEF Busy, Saving, TypeInv, TypeOK
    <3>2. crossed' = (crossed \/ Busy) /\ UNCHANGED doing /\ doing["ui"] = "rest"
      BY <2>2, ClickLine, NoteEffect
    <3> QED  BY <3>1, <3>2 DEF Alone, Workers, Saving
  <2>3. CASE FromLastLine \/ AllLines
    <3>1. /\ doing["ui"] = "rest" /\ job = "none" /\ UNCHANGED job
          /\ \E first, last : StartAsync(first, last)
      BY <2>3 DEF FromLastLine, AllLines, Click
    <3> QED  BY <1>0, <3>1 DEF StartAsync, Note, Alone, ToSend, Becomes, Workers, history
  <2>4. CASE Save
    <3>1. /\ crossed' = (crossed \/ Busy) /\ job' = "none"
          /\ doing' = [doing EXCEPT !["ui"] = "dialog", !["saver"] = "starting"]
      BY <2>4 DEF Save, Note, Click, readVars
    <3>2. Busy \/ (doing["parser"] = "idle" /\ doing["sender"] = "idle")
      BY DEF Busy, TypeInv, TypeOK
    <3> QED  BY <1>0, <3>1, <3>2 DEF Alone, ToSend, Workers
  <2> QED  BY <1>2, <2>1, <2>2, <2>3, <2>4 DEF User
<1> QED  BY <1>1, <1>2

-----------------------------------------------------------------------------
(***************************************************************************)
(* Order.                                                                  *)
(***************************************************************************)

(* A beginning of a list of the block's commands is one too.               *)
LEMMA BeginningLists ==
  ASSUME NEW p \in Seq(Text), NEW q \in Seq(Text), Lists(p),
         Len(q) <= Len(p), \A i \in DOMAIN q : q[i] = p[i]
  PROVE  Lists(q)
<1>1. DOMAIN p = 1 .. Len(p) /\ DOMAIN q = 1 .. Len(q) /\ Len(p) \in Nat /\ Len(q) \in Nat
  BY LenProperties
<1>2. ASSUME NEW i \in DOMAIN q
      PROVE  i \in DOMAIN p /\ {q[j].line : j \in 1 .. i - 1} = {p[j].line : j \in 1 .. i - 1}
  <2>1. i \in DOMAIN p /\ 1 .. i - 1 \subseteq DOMAIN q
    BY <1>1
  <2> QED  BY <2>1
<1> QED  BY <1>2 DEF Lists

(* The next command of the block may be appended.                          *)
LEMMA NextLists ==
  ASSUME NEW q \in Seq(Text), Lists(q), NEW t \in Text,
         t.line \in block \cap Commands, t.number = t.line,
         {line \in block \cap Commands : line < t.line} = LinesOf(q)
  PROVE  Lists(Append(q, t)) /\ LinesOf(Append(q, t)) = LinesOf(q) \cup {t.line}
<1> DEFINE r == Append(q, t)
<1>1. /\ DOMAIN q = 1 .. Len(q) /\ Len(q) \in Nat
      /\ DOMAIN r = 1 .. Len(q) + 1 /\ r[Len(q) + 1] = t
      /\ \A i \in DOMAIN q : r[i] = q[i]
  OBVIOUS
<1> HIDE DEF r
<1>2. ASSUME NEW i \in DOMAIN r
      PROVE  /\ r[i].line \in block \cap Commands /\ r[i].number = r[i].line
             /\ {line \in block \cap Commands : line < r[i].line} = {r[j].line : j \in 1 .. i - 1}
  <2>1. 1 .. i - 1 \subseteq DOMAIN q /\ {r[j].line : j \in 1 .. i - 1} = {q[j].line : j \in 1 .. i - 1}
    BY <1>1
  <2>2. CASE i \in DOMAIN q
    BY <1>1, <2>1, <2>2 DEF Lists
  <2>3. CASE i = Len(q) + 1
    BY <1>1, <2>1, <2>3 DEF LinesOf
  <2> QED  BY <1>1, <2>2, <2>3
<1>3. Lists(r)
  BY <1>2 DEF Lists
<1>4. DOMAIN r = DOMAIN q \cup {Len(q) + 1}
  BY <1>1
<1>5. LinesOf(r) = LinesOf(q) \cup {t.line}
  BY <1>1, <1>4 DEF LinesOf
<1> QED  BY <1>3, <1>5 DEF r

(* After a line of the block is parsed, the commands up to the next line   *)
(* are those parsed, with that line if it is one.                          *)
LEMMA UpToNext ==
  ASSUME block \subseteq File, NEW lines \in Seq(File), lines # << >>, Remaining(lines),
         Tail(lines) # << >>
  PROVE  {line \in block \cap Commands : line < Tail(lines)[1]}
           = {line \in block \cap Commands : line < lines[1]}
               \cup (IF IsCommand(lines[1]) THEN {lines[1]} ELSE {})
<1>1. /\ Len(lines) \in Nat /\ DOMAIN lines = 1 .. Len(lines)
      /\ 1 \in DOMAIN lines /\ 2 \in DOMAIN lines /\ Tail(lines)[1] = lines[2]
  <2>1. /\ Tail(lines) \in Seq(File) /\ Len(Tail(lines)) = Len(lines) - 1
        /\ \A i \in 1 .. Len(Tail(lines)) : Tail(lines)[i] = lines[i + 1]
    BY HeadTailProperties
  <2>2. Len(Tail(lines)) \in Nat \ {0}
    BY <2>1, EmptySeq
  <2> QED  BY <2>1, <2>2, LenProperties
<1>2. block \subseteq Int
  BY ClientAssumption DEF File
<1>3. lines[1] \in Int /\ lines[1] \in block /\ lines[2] = lines[1] + 2 - 1
  BY <1>1, <1>2 DEF Remaining
<1>4. \A line \in block : line < lines[2] <=> line < lines[1] \/ line = lines[1]
  BY <1>2, <1>3
<1>5. CASE lines[1] \in Commands
  BY <1>1, <1>3, <1>4, <1>5 DEF IsCommand
<1>6. CASE lines[1] \notin Commands
  BY <1>1, <1>3, <1>4, <1>6 DEF IsCommand
<1> QED  BY <1>5, <1>6

(* The lines left after the first are still the next ones of the block.    *)
LEMMA TailRemaining ==
  ASSUME block \subseteq File, NEW lines \in Seq(File), lines # << >>, Remaining(lines)
  PROVE  Remaining(Tail(lines)) /\ Head(lines) = lines[1] /\ lines[1] \in block
<1>1. /\ Tail(lines) \in Seq(File) /\ Len(Tail(lines)) = Len(lines) - 1
      /\ \A i \in 1 .. Len(Tail(lines)) : Tail(lines)[i] = lines[i + 1]
      /\ Len(lines) \in Nat \ {0} /\ DOMAIN lines = 1 .. Len(lines)
  BY HeadTailProperties, EmptySeq, LenProperties
<1>2. DOMAIN Tail(lines) = 1 .. Len(Tail(lines)) /\ block \subseteq Int
  BY <1>1, LenProperties, ClientAssumption DEF File
<1>3. ASSUME NEW i \in DOMAIN Tail(lines)
      PROVE  Tail(lines)[i] \in block /\ Tail(lines)[i] = Tail(lines)[1] + i - 1
  <2>1. /\ i + 1 \in DOMAIN lines /\ 2 \in DOMAIN lines /\ 1 \in DOMAIN lines
        /\ Tail(lines)[i] = lines[i + 1] /\ Tail(lines)[1] = lines[2]
    BY <1>1, <1>2
  <2>2. /\ lines[i + 1] \in block /\ lines[i + 1] = lines[1] + (i + 1) - 1
        /\ lines[2] = lines[1] + 2 - 1 /\ lines[1] \in block
    BY <2>1 DEF Remaining
  <2>3. lines[1] \in Int
    BY <1>2, <2>2
  <2>4. i \in 1 .. Len(Tail(lines)) /\ Len(Tail(lines)) \in Int
    BY <1>1, <1>2
  <2> QED  BY <2>1, <2>2, <2>3, <2>4
<1> QED  BY <1>1, <1>3 DEF Remaining

(* Steps of nobody who parses or sends the block, and who leave the line   *)
(* it is parsing alone.                                                    *)
LEMMA OrderQuiet ==
  ASSUME OrderInv, crossed => crossed', crossed' \/ (peeked => peeked'),
         crossed' \/ UNCHANGED <<block, sent>>,
         UNCHANGED <<parsed, next>>, todo'["parser"] = todo["parser"],
         doing'["parser"] = doing["parser"], doing'["sender"] = doing["sender"],
         \/ crossed' \/ peeked' \/ ~InLine("parser")
         \/ UNCHANGED <<command, currentLine>> /\ todo'["ui"] = todo["ui"]
  PROVE  OrderInv'
<1> SUFFICES ASSUME ~crossed', ~peeked' PROVE OrderInv'
  BY DEF OrderInv
<1>1. ~crossed /\ ~peeked /\ UNCHANGED <<block, sent>>
  OBVIOUS
<1>2. OwnText'
  <2>1. InLine("parser")' => UNCHANGED <<command, currentLine>> /\ todo'["ui"] = todo["ui"]
    BY DEF InLine
  <2>2. OwnText
    BY <1>1 DEF OrderInv
  <2> QED  BY <2>1, <2>2 DEF OwnText, InLine
<1>3. Lists(sent)' <=> Lists(sent)
  BY <1>1 DEF Lists
<1>4. Lists(parsed)' <=> Lists(parsed)
  BY <1>1 DEF Lists
<1>5. Remaining(todo["parser"])' <=> Remaining(todo["parser"])
  BY <1>1 DEF Remaining
<1> QED  BY <1>1, <1>2, <1>3, <1>4, <1>5 DEF OrderInv

(* A line the UI thread begins is none that the block's could miss.        *)
LEMMA OrderReads ==
  ASSUME TypeInv, OrderInv, UNCHANGED <<parsed, next, doing>>,
         NEW line, NEW purpose, UiReads(line, purpose),
         \/ Note(crossed, block, sent, peeked \/ AmidALine)
         \/ Note(crossed \/ Busy, block, sent, peeked)
  PROVE  OrderInv'
<1>1. todo'["parser"] = todo["parser"]
  BY DEF UiReads, TypeInv, Readers, Parsers
<1>2. CASE Note(crossed, block, sent, peeked \/ AmidALine)
  <2>1. /\ crossed' = crossed
        /\ ~crossed' => UNCHANGED <<block, sent>> /\ (peeked' <=> peeked \/ AmidALine)
    BY <1>2, NoteEffect
  <2>2. AmidALine \/ ~InLine("parser")
    BY DEF AmidALine, Parsers
  <2> QED  BY <1>1, <2>1, <2>2, OrderQuiet
<1>3. CASE Note(crossed \/ Busy, block, sent, peeked)
  <2>1. /\ crossed' = (crossed \/ Busy)
        /\ ~crossed' => UNCHANGED <<block, sent>> /\ (peeked' <=> peeked)
    BY <1>3, NoteEffect
  <2>2. Busy \/ ~InLine("parser")
    BY DEF Busy, InLine
  <2> QED  BY <1>1, <2>1, <2>2, OrderQuiet
<1> QED  BY <1>2, <1>3

(* A block begins.                                                         *)
LEMMA OrderStart ==
  ASSUME TypeInv, OrderInv, NEW first \in File, NEW last \in File, StartAsync(first, last),
         UNCHANGED <<parsed, next, command, currentLine>>
  PROVE  OrderInv'
<1>1. CASE UNCHANGED <<doing, todo, block, sent, crossed, peeked>>
  BY <1>1, OrderQuiet
<1>2. CASE doing["parser"] = "idle" /\ doing["sender"] = "idle"
  <2> SUFFICES ASSUME ~crossed' PROVE OrderInv'
    BY DEF OrderInv
  <2>1. /\ doing' = [doing EXCEPT !["parser"] = "starting"]
        /\ todo' = [todo EXCEPT !["parser"] = Interval(first, last)]
        /\ block' = first .. last /\ sent' = << >>
    BY <1>2, NoteEffect DEF StartAsync, Becomes
  <2>2. /\ doing'["parser"] = "starting" /\ doing'["sender"] = "idle"
        /\ todo'["parser"] = Interval(first, last)
    BY <1>2, <2>1 DEF TypeInv, Workers, Parsers, Readers
  <2>3. Interval(first, last) # << >> => 1 \in DOMAIN Interval(first, last)
    BY IntervalLines, EmptySeq, LenProperties
  <2>4. \A i \in DOMAIN Interval(first, last) :
          /\ Interval(first, last)[i] \in block'
          /\ Interval(first, last)[i] = first + i - 1
    BY <2>1, IntervalLines
  <2>5. /\ File \subseteq Int
        /\ Interval(first, last) # << >> => Interval(first, last)[1] = first
    BY <2>3, <2>4, ClientAssumption DEF File
  <2>6. Remaining(Interval(first, last))'
    <3>1. \A i \in DOMAIN Interval(first, last) : Interval(first, last) # << >>
      OBVIOUS
    <3> QED  BY <2>4, <2>5, <3>1 DEF Remaining
  <2>7. Interval(first, last) # << >> =>
          {line \in block' : line < Interval(first, last)[1]} = {}
    BY <2>1, <2>5
  <2>8. Lists(sent)'
    BY <2>1 DEF Lists
  <2>9. OwnText'
    BY <2>2 DEF OwnText, InLine
  <2> QED  BY <2>1, <2>2, <2>6, <2>7, <2>8, <2>9 DEF OrderInv, Remaining, InBlock
<1> QED  BY <1>1, <1>2 DEF StartAsync, history

(* The parser worker on the block; a save parses only when no block is.    *)
LEMMA OrderParsing ==
  ASSUME TypeInv, Alone, OrderInv, NEW w \in Parsers, Parsing(w), OneBlockAtATime
  PROVE  OrderInv'
<1> USE DEF Becomes, Workers
<1>0. /\ doing \in [Workers -> Places] /\ todo \in [Readers -> Seq(File)]
      /\ parsed \in Seq(Text) /\ block \subseteq File /\ File \subseteq Int
  BY TypeFacts DEF TypeInv
<1> SUFFICES ASSUME ~crossed' PROVE OrderInv'
  BY DEF OrderInv
<1>1. UNCHANGED <<block, sent, crossed, next>> /\ (peeked => peeked')
  <2>1. CASE BeginLine(w)
    BY <2>1, NoteEffect DEF BeginLine, sendVars
  <2>2. CASE ~BeginLine(w)
    BY <2>2 DEF Parsing, BeginParse, ParseLine, AddCommand, ParseThrows, EndParse,
                sendVars, history
  <2> QED  BY <2>1, <2>2
<1>2. w \in {"parser", "saver"} /\ doing[w] \in InBlock \cup {"starting"}
  BY DEF Parsing, BeginParse, BeginLine, ParseLine, AddCommand, ParseThrows, EndParse,
         Parsers, InBlock
<1>3. CASE w = "saver"
  <2>1. doing'["parser"] = doing["parser"] /\ doing'["sender"] = doing["sender"]
    BY <1>0, <1>3
    DEF Parsing, BeginParse, BeginLine, ParseLine, AddCommand, ParseThrows, EndParse, Ends
  <2>2. ~crossed => doing["parser"] = "idle" /\ doing["sender"] = "idle"
    BY <1>2, <1>3 DEF Alone, InBlock
  <2> QED  BY <1>1, <2>1, <2>2 DEF OrderInv, Lists, OwnText, InLine, InBlock
<1> SUFFICES ASSUME w = "parser", ~crossed, ~peeked' PROVE OrderInv'
  BY <1>1, <1>2, <1>3 DEF OrderInv
<1> DEFINE lines == todo["parser"]
<1>4. /\ doing["sender"] = "idle" /\ doing'["sender"] = "idle" /\ ~peeked
      /\ sent' = << >> /\ Lists(sent)' /\ Remaining(lines) /\ lines \in Seq(File) /\ OwnText
  <2>1. doing["parser"] # "idle" /\ doing["sender"] = "idle" /\ sent = << >> /\ ~peeked
    BY <1>1, <1>2 DEF OneBlockAtATime, OrderInv, InBlock
  <2>2. doing'["sender"] = doing["sender"]
    BY <1>0
    DEF Parsing, BeginParse, BeginLine, ParseLine, AddCommand, ParseThrows, EndParse, Ends
  <2>3. Remaining(lines) /\ OwnText
    BY <1>2, <2>1 DEF OrderInv
  <2>4. lines \in Seq(File)
    BY <1>0 DEF Readers, Parsers
  <2> QED  BY <1>1, <2>1, <2>2, <2>3, <2>4 DEF Lists
<1>5. CASE BeginParse(w)
  <2>1. /\ doing["parser"] = "starting" /\ doing'["parser"] = "parsing"
        /\ parsed' = << >> /\ todo' = todo
    BY <1>0, <1>5 DEF BeginParse
  <2>2. Lists(parsed)' /\ LinesOf(parsed)' = {}
    BY <2>1 DEF Lists, LinesOf
  <2>3. lines # << >> => {line \in block \cap Commands : line < lines[1]} = {}
    BY <1>4, <2>1 DEF OrderInv
  <2>4. Remaining(todo["parser"])'
    BY <1>1, <1>4, <2>1 DEF Remaining
  <2>5. OwnText'
    BY <2>1 DEF OwnText, InLine
  <2> QED  BY <1>1, <1>4, <2>1, <2>2, <2>3, <2>4, <2>5 DEF OrderInv, InBlock
<1>6. CASE BeginLine(w) \/ ParseLine(w)
  <2>1. /\ doing["parser"] \in InBlock /\ doing'["parser"] \in InBlock
        /\ UNCHANGED <<todo, parsed>> /\ lines # << >>
    BY <1>0, <1>6 DEF BeginLine, ParseLine, InBlock, readVars
  <2>2. /\ Lists(parsed)
        /\ {line \in block \cap Commands : line < lines[1]} = LinesOf(parsed)
    BY <1>4, <2>1 DEF OrderInv
  <2>3. Lists(parsed)' /\ LinesOf(parsed)' = LinesOf(parsed) /\ Remaining(todo["parser"])'
    BY <1>1, <1>4, <2>1, <2>2 DEF Lists, LinesOf, Remaining
  <2>4. Head(lines) = lines[1]
    BY <1>4, <2>1
  <2>5. OwnText'
    <3>1. CASE BeginLine(w)
      <4>1. /\ doing'["parser"] = "reading" /\ todo["ui"] = << >>
            /\ currentLine' = lines[1] /\ command' = Empty
        BY <1>0, <2>4, <3>1, NoteEffect DEF BeginLine, BeginsLine
      <4> QED  BY <2>1, <4>1 DEF OwnText, InLine
    <3>2. CASE ParseLine(w)
      <4>1. /\ doing["parser"] = "reading" /\ doing'["parser"] = "read"
            /\ UNCHANGED currentLine /\ Understands(lines[1])
        BY <1>0, <2>4, <3>2 DEF ParseLine
      <4>2. currentLine = lines[1] /\ command = Empty /\ todo["ui"] = << >>
        BY <1>4, <4>1 DEF OwnText, InLine
      <4>3. command' = TextOf(lines[1])
        BY <4>1, <4>2 DEF Understands, TextOf
      <4> QED  BY <2>1, <4>1, <4>2, <4>3 DEF OwnText, InLine
    <3> QED  BY <1>6, <3>1, <3>2
  <2> QED  BY <1>1, <1>4, <2>1, <2>2, <2>3, <2>5 DEF OrderInv, InBlock
<1>7. CASE AddCommand(w)
  <2>1. /\ doing["parser"] = "read" /\ doing'["parser"] = "parsing" /\ lines # << >>
        /\ todo'["parser"] = Tail(lines)
        /\ parsed' = IF command # Empty THEN Append(parsed, command) ELSE parsed
    BY <1>0, <1>7 DEF AddCommand, Readers, Parsers
  <2>2. /\ Lists(parsed) /\ command = TextOf(lines[1])
        /\ {line \in block \cap Commands : line < lines[1]} = LinesOf(parsed)
    BY <1>4, <2>1 DEF OrderInv, OwnText, InBlock
  <2> HIDE DEF lines
  <2>3. Remaining(Tail(lines)) /\ lines[1] \in block
    BY <1>0, <1>4, <2>1, TailRemaining
  <2>4. /\ Lists(parsed')
        /\ LinesOf(parsed') = LinesOf(parsed) \cup (IF IsCommand(lines[1]) THEN {lines[1]} ELSE {})
    <3>1. CASE IsCommand(lines[1])
      <4>1. /\ command = [line |-> lines[1], number |-> lines[1]]
            /\ lines[1] \in File /\ lines[1] \in Commands
        BY <1>0, <2>2, <2>3, <3>1 DEF TextOf, IsCommand
      <4>2. command \in Text /\ command.line = lines[1] /\ command.number = command.line
        BY <4>1 DEF Text
      <4>3. command # Empty
        BY <4>1, ClientAssumption DEF Empty, File
      <4> QED  BY <1>0, <2>1, <2>2, <2>3, <3>1, <4>1, <4>2, <4>3, NextLists
    <3>2. CASE ~IsCommand(lines[1])
      BY <2>1, <2>2, <3>2 DEF TextOf
    <3> QED  BY <3>1, <3>2
  <2>5. Tail(lines) # << >> =>
          {line \in block \cap Commands : line < Tail(lines)[1]} = LinesOf(parsed')
    BY <1>0, <1>4, <2>1, <2>2, <2>4, UpToNext
  <2>6. Lists(parsed)' /\ Remaining(todo["parser"])' /\ LinesOf(parsed)' = LinesOf(parsed')
    BY <1>1, <2>1, <2>3, <2>4 DEF Lists, LinesOf, Remaining
  <2>7. OwnText'
    BY <2>1 DEF OwnText, InLine
  <2> QED  BY <1>1, <1>4, <2>1, <2>5, <2>6, <2>7 DEF OrderInv, InBlock
<1>8. CASE ParseThrows(w) \/ EndParse(w)
  <2>1. doing["parser"] \in InBlock /\ doing'["parser"] = "done" /\ UNCHANGED parsed
    BY <1>0, <1>8 DEF ParseThrows, EndParse, Ends, formVars, InBlock
  <2>2. Lists(parsed)
    BY <1>4, <2>1 DEF OrderInv
  <2>3. Lists(parsed)' /\ OwnText'
    BY <1>1, <2>1, <2>2 DEF Lists, OwnText, InLine
  <2> QED  BY <1>1, <1>4, <2>1, <2>3 DEF OrderInv, InBlock
<1> QED  BY <1>5, <1>6, <1>7, <1>8 DEF Parsing

(* The sender worker takes the list from its beginning.                    *)
LEMMA OrderSending ==
  ASSUME TypeInv, OrderInv, OneBlockAtATime, SenderSends
  PROVE  OrderInv'
<1>n. /\ crossed' = crossed
      /\ ~crossed' => /\ UNCHANGED block /\ (peeked' <=> peeked)
                      /\ sent' = IF connected THEN Append(sent, parsed[next]) ELSE sent
  BY DEF SenderSends, Note
<1>q. ~crossed' => ~crossed /\ (peeked => peeked')
  BY <1>n
<1> SUFFICES ASSUME ~crossed, ~peeked PROVE OrderInv'
  BY <1>q DEF OrderInv
<1>0. /\ doing \in [Workers -> Places] /\ parsed \in Seq(Text) /\ sent \in Seq(Text)
      /\ Len(parsed) \in Nat /\ Len(sent) \in Nat
      /\ DOMAIN sent = 1 .. Len(sent) /\ DOMAIN parsed = 1 .. Len(parsed)
  BY TypeFacts, LenProperties DEF TypeInv
<1>1. /\ doing["sender"] = "ready" /\ next <= Len(parsed) /\ next = Len(sent) + 1
      /\ doing["parser"] = "idle" /\ Lists(parsed) /\ UNCHANGED <<block, crossed, parsed, next>>
      /\ Len(sent) <= Len(parsed) /\ \A i \in DOMAIN sent : sent[i] = parsed[i]
  BY <1>n DEF SenderSends, OrderInv, OneBlockAtATime, formVars
<1>2. doing'["parser"] = "idle"
  BY <1>0, <1>1 DEF SenderSends, Send, Becomes, Workers
<1>3. \/ doing'["sender"] = "waiting" /\ sent' = Append(sent, parsed[next])
      \/ doing'["sender"] = "box" /\ sent' = sent
  BY <1>0, <1>n DEF SenderSends, Send, Becomes, Workers
<1>4. Append(sent, parsed[next]) \in Seq(Text)
  BY <1>0, <1>1, ElementOfSeq, AppendProperties
<1>5. /\ Len(Append(sent, parsed[next])) = next
      /\ \A i \in DOMAIN Append(sent, parsed[next]) : Append(sent, parsed[next])[i] = parsed[i]
  BY <1>0, <1>1
<1>6. sent' \in Seq(Text) /\ Len(sent') <= Len(parsed) /\ \A i \in DOMAIN sent' : sent'[i] = parsed[i]
  BY <1>0, <1>1, <1>3, <1>4, <1>5
<1>7. Lists(sent')
  BY <1>0, <1>1, <1>6, BeginningLists
<1>8. OwnText'
  BY <1>2 DEF OwnText, InLine
<1> QED  BY <1>1, <1>2, <1>3, <1>5, <1>6, <1>7, <1>8 DEF OrderInv, Lists, InBlock

(* The sender worker goes on, or ends, with nothing more sent.             *)
LEMMA OrderReturn ==
  ASSUME TypeInv, OrderInv, OneBlockAtATime,
         UNCHANGED <<block, sent, crossed, peeked, parsed, todo>>,
         doing'["parser"] = doing["parser"], doing["sender"] # "idle",
         \/ doing'["sender"] \in {"box", "done", "idle"}
         \/ doing["sender"] = "waiting" /\ doing'["sender"] = "ready" /\ next' = next + 1
  PROVE  OrderInv'
<1>1. doing["parser"] = "idle" /\ doing'["parser"] = "idle"
  BY DEF OneBlockAtATime
<1> QED  BY <1>1 DEF OrderInv, Lists, OwnText, InLine, InBlock

(* Every step keeps the order of the block.                                *)
LEMMA OrderStep == TypeInv /\ TurnInv /\ Alone /\ OrderInv /\ [Next]_vars => OrderInv'
<1> SUFFICES ASSUME TypeInv, TurnInv, Alone, OrderInv, [Next]_vars PROVE OrderInv'
  OBVIOUS
<1> USE DEF Becomes, Workers
<1>0. doing \in [Workers -> Places] /\ OneBlockAtATime /\ readLine \in File /\ currentLine \in File
      /\ Lines - 1 \in File
  BY PostedFacts, ClientAssumption DEF TurnInv, TypeInv, TypeOK, File
<1>q. ASSUME UNCHANGED <<currentLine, parsed, command, todo, next, block, sent, crossed, peeked>>,
             doing'["parser"] = doing["parser"], doing'["sender"] = doing["sender"]
      PROVE  OrderInv'
  BY <1>q, OrderQuiet
<1>1. CASE User
  <2>1. CASE Connect \/ ConnectFails \/ Disconnect
    BY <1>q, <2>1
    DEF Connect, ConnectFails, Disconnect, Disconnected, history, formVars, textVars, readVars,
        sendVars
  <2>2. ASSUME NEW line \in File, Select(line) PROVE OrderInv'
    BY <2>2, OrderReads DEF Select, sendVars
  <2>3. CASE NextLine \/ SingleLine
    <3>1. UNCHANGED <<parsed, next, doing>> /\ Note(crossed \/ Busy, block, sent, peeked)
      BY <2>3, ClickLine
    <3>2. CASE \E line, purpose : UiReads(line, purpose)
      BY <3>1, <3>2, OrderReads
    <3>3. CASE UNCHANGED <<currentLine, textVars, readVars>>
      <4>1. /\ crossed => crossed'
            /\ crossed' \/ (UNCHANGED <<block, sent>> /\ (peeked => peeked'))
        BY <3>1 DEF Note
      <4> QED  BY <3>1, <3>3, <4>1, OrderQuiet DEF textVars, readVars
    <3> QED  BY <2>3, <3>2, <3>3, ClickLine
  <2>4. CASE FromLastLine \/ AllLines
    BY <1>0, <2>4, OrderStart DEF FromLastLine, AllLines, formVars, textVars, sendVars
  <2>5. CASE Save
    <3>1. doing'["parser"] = doing["parser"] /\ doing'["sender"] = doing["sender"]
      BY <1>0, <2>5 DEF Save
    <3>2. /\ UNCHANGED <<currentLine, parsed, command, todo, next>>
          /\ crossed => crossed'
          /\ crossed' \/ (UNCHANGED <<block, sent>> /\ (peeked => peeked'))
      <4>1. Note(crossed \/ Busy, block, sent, peeked)
        BY <2>5 DEF Save
      <4>2. /\ crossed => crossed'
            /\ crossed' \/ (UNCHANGED <<block, sent>> /\ (peeked => peeked'))
        BY <4>1 DEF Note
      <4> QED  BY <2>5, <4>2 DEF Save, formVars, textVars, readVars, sendVars
    <3> QED  BY <3>1, <3>2, OrderQuiet
  <2> QED  BY <1>1, <2>1, <2>2, <2>3, <2>4, <2>5 DEF User
<1>2. CASE CloseDialog \/ Saved
  <2>1. doing'["parser"] = doing["parser"] /\ doing'["sender"] = doing["sender"]
    BY <1>0, <1>2 DEF CloseDialog, Saved
  <2> QED
    BY <1>2, <1>q, <2>1 DEF CloseDialog, Saved, history, formVars, textVars, readVars, sendVars
<1>3. CASE Plugin
  BY <1>3, <1>q
  DEF Plugin, Echo, Execute, PeerCloses, history, formVars, textVars, readVars, sendVars
<1>4. CASE ParserCompleted
  <2>1. /\ Done("parserDone") /\ doing' = [doing EXCEPT !["parser"] = "idle", !["sender"] = "ready"]
        /\ next' = 1 /\ UNCHANGED <<parsed, block, sent, crossed, peeked>>
    BY <1>4 DEF ParserCompleted, Dispatch, formVars, history
  <2>2. doing["parser"] = "done"
    BY <2>1, DispatchEffect DEF TurnInv, Completion
  <2>3. doing'["parser"] = "idle" /\ doing'["sender"] = "ready"
    BY <1>0, <2>1
  <2>4. parsed \in Seq(Text) /\ Len(<< >>) = 0 /\ Len(parsed) \in Nat
    BY TypeFacts, LenProperties, EmptySeq
  <2> QED  BY <2>1, <2>2, <2>3, <2>4 DEF OrderInv, Lists, OwnText, InLine, InBlock
<1>5. CASE SenderCompleted
  <2>1. /\ Done("senderDone") /\ doing' = [doing EXCEPT !["sender"] = "idle"]
        /\ UNCHANGED <<parsed, block, sent, crossed, peeked, todo>>
    BY <1>5 DEF SenderCompleted, Dispatch, formVars, readVars, history
  <2>2. doing["sender"] = "done"
    BY <2>1, DispatchEffect DEF TurnInv, Completion
  <2>3. doing'["parser"] = doing["parser"] /\ doing'["sender"] = "idle"
    BY <1>0, <2>1
  <2> QED  BY <1>0, <2>1, <2>2, <2>3, OrderReturn
<1>6. CASE FailureHandled \/ HighlightLine
  BY <1>6, <1>q
  DEF FailureHandled, HighlightLine, Disconnected, Dispatch, textVars, readVars, history
<1>h. CASE HighlightSelects
  BY <1>h, OrderReads DEF HighlightSelects, sendVars
<1>r. CASE UiReading
  <2>1. CASE SendLine
    <3>1. doing'["parser"] = doing["parser"] /\ doing'["sender"] = doing["sender"]
      BY <1>0, <2>1 DEF SendLine, Send
    <3> QED  BY <1>q, <2>1, <3>1 DEF SendLine, formVars, textVars, history
  <2>2. CASE ~SendLine
    <3>1. /\ todo["ui"] # << >> /\ todo' = [todo EXCEPT !["ui"] = << >>]
          /\ UNCHANGED <<parsed, doing>> /\ UNCHANGED sendVars /\ UNCHANGED history
      BY <1>r, <2>2
      DEF UiReading, Peek, ReadToSend, UiThrows, Highlighted, HighlightThrows, UiUnderstands,
          formVars
    <3>2. crossed \/ peeked \/ ~InLine("parser")
      BY <3>1 DEF OrderInv, OwnText
    <3>3. todo'["parser"] = todo["parser"]
      BY <3>1 DEF TypeInv, Readers, Parsers
    <3> QED  BY <3>1, <3>2, <3>3, OrderQuiet DEF sendVars, history
  <2> QED  BY <2>1, <2>2
<1>7. ASSUME NEW w \in Parsers, Parsing(w) PROVE OrderInv'
  BY <1>0, <1>7, OrderParsing
<1>8. CASE SenderSends
  BY <1>0, <1>8, OrderSending
<1>9. CASE SenderEnds
  <2>1. doing'["parser"] = doing["parser"] /\ doing["sender"] = "ready" /\ doing'["sender"] = "done"
    BY <1>0, <1>9 DEF SenderEnds
  <2> QED  BY <1>0, <1>9, <2>1, OrderReturn DEF SenderEnds, formVars, readVars, sendVars, history
<1>10. ASSUME NEW t \in Senders, Waiting(t) \/ Dismiss(t) PROVE OrderInv'
  <2>1. /\ doing[t] \in {"waiting", "box"}
        /\ UNCHANGED <<block, sent, crossed, peeked, parsed, todo, currentLine, command>>
    BY <1>10
    DEF Waiting, ReceiveEcho, ReceiveNothing, Timeout, ConnectionGone, Waits, Dismiss,
        Disconnected, formVars, textVars, readVars, history
  <2>2. \/ doing[t] = "waiting" /\ \E success : Return(t, success)
        \/ doing' = [doing EXCEPT ![t] = "box"] /\ UNCHANGED next
        \/ t = "ui" /\ doing' = [doing EXCEPT ![t] = "rest"] /\ UNCHANGED next
        \/ t = "sender" /\ doing' = [doing EXCEPT ![t] = "done"] /\ UNCHANGED next
    BY <1>10
    DEF Waiting, ReceiveEcho, ReceiveNothing, Timeout, ConnectionGone, Waits, Dismiss,
        Senders, sendVars
  <2>3. CASE t = "ui"
    <3>1. /\ doing'["parser"] = doing["parser"] /\ doing'["sender"] = doing["sender"]
          /\ UNCHANGED next
      BY <1>0, <2>2, <2>3, ReturnEffect
    <3> QED  BY <1>q, <2>1, <3>1
  <2>4. CASE t = "sender"
    <3>1. /\ doing'["parser"] = doing["parser"]
          /\ \/ doing'["sender"] \in {"box", "done"} /\ UNCHANGED next
             \/ /\ doing["sender"] = "waiting" /\ doing'["sender"] = "ready"
                /\ next' = next + 1
      BY <1>0, <2>2, <2>4, ReturnEffect
    <3> QED  BY <1>0, <2>1, <2>4, <3>1, OrderReturn
  <2> QED  BY <2>3, <2>4 DEF Senders
<1>11. ASSUME NEW a \in Attempts, Callback(a) \/ DismissReceive(a) PROVE OrderInv'
  BY <1>11, <1>q
  DEF Callback, ReceiveStatus, ReceiveClosed, DismissReceive, formVars, textVars, readVars,
      sendVars, history
<1>12. CASE UNCHANGED vars
  BY <1>12, <1>q DEF vars, formVars, textVars, readVars, sendVars, history
<1> QED
  BY <1>1, <1>2, <1>3, <1>4, <1>5, <1>6, <1>h, <1>r, <1>7, <1>8, <1>9, <1>10, <1>11, <1>12
  DEF Next, FormGoesOn, Dispatched

(* At first there is no block.                                             *)
LEMMA OrderInit == Init => Alone /\ OrderInv
<1> SUFFICES ASSUME Init PROVE Alone /\ OrderInv
  OBVIOUS
<1>1. doing["ui"] = "rest" /\ doing["parser"] = "idle" /\ doing["sender"] = "idle" /\ job = "none"
  BY DEF Init
<1>2. Lists(sent)
  BY DEF Init, Lists
<1> QED  BY <1>1, <1>2 DEF Alone, ToSend, OrderInv, OwnText, InLine, InBlock

(* A block that no save and no single line crosses, and amid whose lines   *)
(* the UI thread reads none, is on the wire in its order, without gap or   *)
(* repetition and under its own numbers, for any file, any line that       *)
(* throws, any failures and any connections.                               *)
THEOREM BlockIsInOrder == Spec => []BlockInOrder
<1>1. OrderInv => BlockInOrder
  BY DEF OrderInv, BlockInOrder
<1> QED
  BY <1>1, TypeInitial, TypeStep, TurnInit, TurnStep, AloneStep, OrderInit, OrderStep, PTL
  DEF Spec

-----------------------------------------------------------------------------
(***************************************************************************)
(* Echoes.                                                                 *)
(***************************************************************************)

(* The disconnection on its way stays ahead of the completion.             *)
LEMMA DisconnectingBeside ==
  ASSUME TypeInv, Disconnecting, NEW m, posted' = Append(posted, m), m.kind # "senderDone"
  PROVE  Disconnecting'
<1>1. /\ DOMAIN posted' = 1 .. Len(posted) + 1 /\ posted'[Len(posted) + 1] = m
      /\ \A i \in DOMAIN posted : posted'[i] = posted[i]
      /\ DOMAIN posted = 1 .. Len(posted) /\ Len(posted) \in Nat
  BY PostedFacts
<1> QED  BY <1>1 DEF Disconnecting

(* A disconnection ahead of the completion is dispatched ahead of it.      *)
LEMMA DisconnectingDispatched ==
  ASSUME TypeInv, Disconnecting, NEW k, Done(k), k # "disconnect"
  PROVE  Disconnecting' /\ k # "senderDone"
<1>1. /\ DOMAIN posted' \subseteq Nat \ {0} /\ 1 \in DOMAIN posted /\ posted[1].kind = k
      /\ \A i \in DOMAIN posted' : i + 1 \in DOMAIN posted /\ posted'[i] = posted[i + 1]
      /\ DOMAIN posted = 1 .. Len(posted) /\ Len(posted) \in Nat /\ posted' = Tail(posted)
  BY DispatchEffect, PostedFacts
<1>2. PICK i \in DOMAIN posted :
        /\ posted[i].kind = "disconnect"
        /\ \A j \in DOMAIN posted : posted[j].kind = "senderDone" => i < j
  BY DEF Disconnecting
<1>3. i # 1 /\ i \in Nat /\ k # "senderDone"
  BY <1>1, <1>2
<1>4. DOMAIN posted' = 1 .. Len(posted) - 1
  <2>1. posted # << >> /\ posted \in Seq(Message)
    BY PostedFacts, EmptySeq DEF Done
  <2> QED  BY <1>1, <2>1, HeadTailProperties, LenProperties
<1>5. i - 1 \in DOMAIN posted' /\ posted'[i - 1] = posted[i]
  BY <1>1, <1>2, <1>3, <1>4
<1>6. \A j \in DOMAIN posted' : posted'[j].kind = "senderDone" => i - 1 < j
  BY <1>1, <1>2, <1>3
<1> QED  BY <1>2, <1>3, <1>5, <1>6 DEF Disconnecting

Concerned == {"waiting", "box", "done"}

(* Steps of others than the two threads that send.                         *)
LEMMA EchoQuiet ==
  ASSUME EchoInv, crossed => crossed', UNCHANGED wireVars,
         Disconnecting /\ doing["sender"] = "done" => Disconnecting',
         \A t \in Senders :
           doing'[t] = doing[t] \/ (doing[t] \notin Concerned /\ doing'[t] \notin Concerned)
  PROVE  EchoInv'
<1>1. \A t \in Senders : \A place \in Concerned : doing[t] = place <=> doing'[t] = place
  BY DEF Concerned
<1>2. \A t \in Senders : Waits(t)' <=> Waits(t)
  BY <1>1 DEF Waits, wireVars, Concerned
<1>3. /\ doing["ui"] = "box" => doing'["ui"] = "box"
      /\ doing["sender"] = "box" => doing'["sender"] = "box"
      /\ doing["sender"] = "done" => doing'["sender"] = "done"
  BY <1>1 DEF Senders, Concerned
<1> SUFFICES ASSUME ~crossed' PROVE EchoInv'
  BY DEF EchoInv
<1>4. ~crossed /\ UNCHANGED <<connected, peer, echoes, unanswered, sending>>
  BY DEF wireVars
<1>5. \A t \in Senders : Waits(t)' /\ peer' =>
        \/ echoes' = << sending'[t] >> /\ unanswered' = << >>
        \/ echoes' = << >> /\ unanswered' = << sending'[t] >>
  BY <1>2, <1>4 DEF EchoInv
<1>6. ASSUME connected', peer', ~Clear'
      PROVE  \/ \E t \in Senders : Waits(t)'
             \/ doing'["ui"] = "box" \/ doing'["sender"] = "box"
             \/ doing'["sender"] = "done" /\ Disconnecting'
  <2>1. connected /\ peer /\ ~Clear
    BY <1>4, <1>6 DEF Clear
  <2>2. \/ \E t \in Senders : Waits(t)
        \/ doing["ui"] = "box" \/ doing["sender"] = "box"
        \/ doing["sender"] = "done" /\ Disconnecting
    BY <1>4, <2>1 DEF EchoInv
  <2>3. CASE \E t \in Senders : Waits(t)
    BY <1>2, <2>3
  <2>4. CASE doing["ui"] = "box" \/ doing["sender"] = "box"
    BY <1>3, <2>4 DEF Concerned
  <2>5. CASE doing["sender"] = "done" /\ Disconnecting
    BY <1>3, <2>5 DEF Concerned
  <2> QED  BY <2>2, <2>3, <2>4, <2>5
<1> QED  BY <1>5, <1>6 DEF EchoInv

(* Without a connection, or without its peer, there is nothing to say.     *)
LEMMA EchoOff == ~connected \/ ~peer => EchoInv
  BY DEF EchoInv, Waits

(* While nobody sends or has a failure on the way, nothing is in transit.  *)
LEMMA NobodySends ==
  ASSUME EchoInv, ~crossed, connected, peer,
         doing["ui"] \notin {"waiting", "box"}, doing["sender"] \notin Concerned
  PROVE  Clear
  BY DEF EchoInv, Waits, Senders, Concerned

(* What is sent on a connection that is clear is all there is on it.       *)
LEMMA EchoSend ==
  ASSUME TypeInv, NEW t \in Senders, NEW text, Send(t, text),
         UNCHANGED <<connected, attempt, peer, echoes>>,
         connected /\ peer => Clear, \A u \in Senders \ {t} : doing[u] # "waiting"
  PROVE  EchoInv'
<1>1. CASE ~connected \/ ~peer
  <2>1. ~connected' \/ ~peer'
    BY <1>1
  <2> QED  BY <2>1 DEF EchoInv, Waits
<1>2. CASE connected /\ peer
  <2>1. /\ doing' = [doing EXCEPT ![t] = "waiting"]
        /\ sending' = [sending EXCEPT ![t] = text] /\ on' = [on EXCEPT ![t] = attempt]
        /\ unanswered' = Append(unanswered, text)
    BY <1>2 DEF Send, Becomes
  <2>2. /\ doing \in [Workers -> Places] /\ sending \in [Senders -> Text \cup {Empty}]
        /\ on \in [Senders -> 0 .. attempt] /\ t \in Workers /\ Senders \subseteq Workers
    BY DEF TypeInv, TypeOK, Senders, Workers
  <2>3. unanswered' = << text >> /\ echoes' = << >>
    BY <1>2, <2>1 DEF Clear
  <2>4. doing'[t] = "waiting" /\ sending'[t] = text /\ on'[t] = attempt'
    BY <2>1, <2>2
  <2>5. Waits(t)'
    BY <1>2, <2>4 DEF Waits
  <2>6. \A u \in Senders : Waits(u)' => u = t
    BY <2>1, <2>2 DEF Waits
  <2> QED  BY <2>3, <2>4, <2>5, <2>6 DEF EchoInv
<1> QED  BY <1>1, <1>2

(* What the user does keeps what an uncrossed connection carries.          *)
LEMMA EchoClick == TypeInv /\ EchoInv /\ User => EchoInv'
<1> SUFFICES ASSUME TypeInv, EchoInv, User PROVE EchoInv'
  OBVIOUS
<1> USE DEF Becomes, Workers
<1>0. doing \in [Workers -> Places]
  BY PostedFacts
<1>1. CASE Connect
  <2>1. attempt' = attempt + 1 /\ attempt \in Nat /\ on' = on /\ on \in [Senders -> 0 .. attempt]
    BY <1>1, ClientAssumption DEF Connect, sendVars, TypeInv, TypeOK
  <2>2. \A t \in Senders : ~Waits(t)'
    BY <2>1 DEF Waits
  <2> QED  BY <1>1, <2>2 DEF Connect, NothingInTransit, EchoInv, Clear
<1>2. CASE ConnectFails \/ Disconnect
  BY <1>2 DEF ConnectFails, Disconnect, Disconnected, EchoInv, Waits
<1>3. ASSUME NEW line \in File, Select(line) PROVE EchoInv'
  <2>1. UNCHANGED wireVars /\ UNCHANGED <<doing, posted>> /\ crossed' = crossed
    BY <1>3, NoteEffect DEF Select, network, sendVars, wireVars
  <2> QED  BY <2>1, EchoQuiet DEF Disconnecting
<1>4. CASE NextLine \/ SingleLine
  <2>1. /\ UNCHANGED wireVars /\ UNCHANGED <<doing, posted>>
        /\ Note(crossed \/ Busy, block, sent, peeked)
    BY <1>4, ClickLine
  <2>2. crossed' = (crossed \/ Busy)
    BY <2>1, NoteEffect
  <2> QED  BY <2>1, <2>2, EchoQuiet DEF Disconnecting
<1>5. CASE FromLastLine \/ AllLines
  <2>1. /\ UNCHANGED wireVars /\ UNCHANGED posted /\ (crossed => crossed')
        /\ \A t \in Senders : doing'[t] = doing[t]
    BY <1>0, <1>5
    DEF FromLastLine, AllLines, StartAsync, Note, network, sendVars, history, wireVars, Senders
  <2>2. Disconnecting => Disconnecting'
    BY <2>1 DEF Disconnecting
  <2> QED  BY <2>1, <2>2, EchoQuiet
<1>6. CASE Save
  <2>1. /\ UNCHANGED wireVars /\ UNCHANGED posted /\ (crossed => crossed')
        /\ doing["ui"] = "rest" /\ doing'["ui"] = "dialog" /\ doing'["sender"] = doing["sender"]
    BY <1>0, <1>6 DEF Save, Note, Click, network, sendVars, wireVars
  <2>2. Disconnecting => Disconnecting'
    BY <2>1 DEF Disconnecting
  <2>3. \A t \in Senders :
          doing'[t] = doing[t] \/ (doing[t] \notin Concerned /\ doing'[t] \notin Concerned)
    BY <2>1 DEF Senders, Concerned
  <2> QED  BY <2>1, <2>2, <2>3, EchoQuiet
<1> QED  BY <1>1, <1>2, <1>3, <1>4, <1>5, <1>6 DEF User

(* A send and what becomes of it, when nothing crosses the block.          *)
LEMMA EchoSending ==
  ASSUME TypeInv, TurnInv, Alone, EchoInv, ~crossed, NEW t \in Senders,
         Waiting(t) \/ Dismiss(t)
  PROVE  EchoInv'
<1> USE DEF Becomes, Workers
<1>0. /\ doing \in [Workers -> Places] /\ t \in {"ui", "sender"} /\ t \in Workers
      /\ echoes \in Seq(Text) /\ unanswered \in Seq(Text)
  BY PostedFacts, TypeFacts DEF Senders
<1>1. doing[t] \in {"waiting", "box"}
  BY DEF Waiting, ReceiveEcho, ReceiveNothing, Timeout, ConnectionGone, Waits, Dismiss
<1>2. \A u \in Senders \ {t} : doing[u] \notin Concerned
  BY <1>0, <1>1 DEF Alone, Senders, Concerned, TypeInv, TypeOK
<1>3. CASE ReceiveEcho(t)
  <2> SUFFICES ASSUME peer PROVE EchoInv'
    <3>1. peer' = peer
      BY <1>3 DEF ReceiveEcho
    <3> QED  BY <3>1 DEF EchoInv, Waits
  <2>1. PICK n \in 1 .. Len(echoes) : /\ \E success : Return(t, success)
                                     /\ echoes' = SubSeq(echoes, n + 1, Len(echoes))
    BY <1>3 DEF ReceiveEcho
  <2>2. echoes = << sending[t] >> /\ unanswered = << >>
    <3>1. echoes # << >>
      BY <1>0, <2>1, EmptySeq
    <3> QED  BY <1>3, <3>1 DEF ReceiveEcho, EchoInv
  <2>3. echoes' = << >> /\ unanswered' = << >>
    <3>1. Len(echoes) = 1 /\ n = 1
      BY <2>1, <2>2
    <3> QED  BY <1>3, <2>1, <2>2, <3>1, SubSeqEmpty DEF ReceiveEcho
  <2>4. doing'[t] # "waiting" /\ \A u \in Senders \ {t} : doing'[u] = doing[u]
    BY <1>0, <2>1, ReturnEffect DEF Senders
  <2>5. \A u \in Senders : ~Waits(u)'
    BY <1>2, <2>4 DEF Waits, Concerned
  <2> QED  BY <2>3, <2>5 DEF EchoInv, Clear
<1>4. CASE ReceiveNothing(t)
  <2>1. ~peer'
    BY <1>4 DEF ReceiveNothing, network
  <2> QED  BY <2>1 DEF EchoInv
<1>8. CASE ConnectionGone(t)
  <2>1. /\ UNCHANGED <<connected, attempt, peer, echoes, unanswered, on>> /\ ~Waits(t)
        /\ doing[t] = "waiting" /\ doing'[t] # "waiting"
        /\ \A u \in Senders \ {t} : doing'[u] = doing[u]
    BY <1>0, <1>8, ReturnEffect DEF ConnectionGone, Waits, network, Senders
  <2>2. \A u \in Senders : ~Waits(u) /\ ~Waits(u)'
    BY <1>2, <2>1 DEF Waits, Concerned
  <2>3. doing["ui"] # "box" /\ doing["sender"] \notin {"box", "done"}
    BY <1>0, <1>2, <2>1 DEF Senders, Concerned
  <2>4. connected /\ peer => Clear
    BY <2>2, <2>3 DEF EchoInv
  <2> QED  BY <2>1, <2>2, <2>4 DEF EchoInv, Clear
<1>5. CASE Timeout(t)
  <2>1. doing' = [doing EXCEPT ![t] = "box"]
    BY <1>5 DEF Timeout
  <2>2. doing'["ui"] = "box" \/ doing'["sender"] = "box"
    BY <1>0, <2>1
  <2>3. \A u \in Senders : ~Waits(u)'
    BY <1>0, <1>2, <2>1 DEF Waits, Concerned, Senders
  <2> QED  BY <2>2, <2>3 DEF EchoInv
<1>6. CASE Dismiss(t) /\ t = "ui"
  BY <1>6, EchoOff DEF Dismiss, Disconnected, EchoInv, Waits
<1>7. CASE Dismiss(t) /\ t = "sender"
  <2>1. /\ doing["sender"] = "box" /\ doing' = [doing EXCEPT !["sender"] = "done"]
        /\ posted' = posted \o << [kind |-> "disconnect"], [kind |-> "senderDone"] >>
    BY <1>7 DEF Dismiss
  <2>2. \A i \in DOMAIN posted : posted[i].kind # "senderDone"
    BY <2>1 DEF TurnInv, Completion
  <2>3. /\ Len(posted) \in Nat /\ DOMAIN posted = 1 .. Len(posted)
        /\ DOMAIN posted' = 1 .. Len(posted) + 2
        /\ \A i \in DOMAIN posted : posted'[i] = posted[i]
        /\ posted'[Len(posted) + 1] = [kind |-> "disconnect"]
        /\ posted'[Len(posted) + 2] = [kind |-> "senderDone"]
    BY <2>1, PostedFacts
  <2>4. \A j \in DOMAIN posted' : posted'[j].kind = "senderDone" => Len(posted) + 1 < j
    BY <2>2, <2>3
  <2>5. Disconnecting'
    <3>1. Len(posted) + 1 \in DOMAIN posted' /\ posted'[Len(posted) + 1].kind = "disconnect"
      BY <2>3
    <3> QED  BY <2>4, <3>1 DEF Disconnecting
  <2>6. doing'["sender"] = "done" /\ doing'["ui"] = doing["ui"] /\ doing["ui"] \notin Concerned
    BY <1>0, <1>2, <1>7, <2>1 DEF Senders
  <2>7. \A u \in Senders : ~Waits(u)'
    BY <2>6 DEF Waits, Concerned, Senders
  <2> QED  BY <2>5, <2>6, <2>7 DEF EchoInv
<1> QED  BY <1>0, <1>3, <1>4, <1>5, <1>6, <1>7, <1>8 DEF Waiting

(* The plugin: an echo takes the place of what it answers.                 *)
LEMMA EchoPlugin == TypeInv /\ EchoInv /\ Plugin => EchoInv'
<1> SUFFICES ASSUME TypeInv, EchoInv, Plugin PROVE EchoInv'
  OBVIOUS
<1>1. CASE Echo
  <2>1. /\ peer /\ unanswered # << >> /\ unanswered' = Tail(unanswered)
        /\ echoes' = Append(echoes, Head(unanswered))
        /\ UNCHANGED <<doing, posted, crossed, connected, attempt, peer, sending, on>>
    BY <1>1 DEF Echo, sendVars, history
  <2>2. \A t \in Senders : Waits(t)' <=> Waits(t)
    BY <2>1 DEF Waits
  <2>3. ASSUME NEW t \in Senders, Waits(t), ~crossed
        PROVE  echoes' = << sending'[t] >> /\ unanswered' = << >>
    <3>1. echoes = << >> /\ unanswered = << sending[t] >>
      BY <2>1, <2>3 DEF EchoInv
    <3> QED  BY <2>1, <3>1
  <2>4. ASSUME ~crossed, connected
        PROVE  \/ \E t \in Senders : Waits(t)
               \/ doing["ui"] = "box" \/ doing["sender"] = "box"
               \/ doing["sender"] = "done" /\ Disconnecting
    BY <2>1, <2>4 DEF EchoInv, Clear
  <2>5. Disconnecting' <=> Disconnecting
    BY <2>1 DEF Disconnecting
  <2> QED  BY <2>1, <2>2, <2>3, <2>4, <2>5 DEF EchoInv
<1>2. CASE Execute
  BY <1>2, EchoQuiet DEF Execute, sendVars, history, wireVars, Disconnecting
<1>3. CASE PeerCloses
  BY <1>3 DEF PeerCloses, EchoInv
<1> QED  BY <1>1, <1>2, <1>3 DEF Plugin

(* Every step keeps what an uncrossed connection carries.                  *)
LEMMA EchoStep == TypeInv /\ TurnInv /\ Alone /\ EchoInv /\ [Next]_vars => EchoInv'
<1> SUFFICES ASSUME TypeInv, TurnInv, Alone, EchoInv, [Next]_vars PROVE EchoInv'
  OBVIOUS
<1> USE DEF Becomes, Workers
<1>0. doing \in [Workers -> Places] /\ OneBlockAtATime
  BY PostedFacts DEF TurnInv
<1>s. Disconnecting /\ UNCHANGED posted => Disconnecting'
  BY DEF Disconnecting
<1>1. CASE User
  BY <1>1, EchoClick
<1>2. CASE CloseDialog \/ Saved
  <2>1. /\ UNCHANGED <<posted, crossed>> /\ UNCHANGED wireVars
        /\ doing["ui"] \in {"dialog", "saving"} /\ doing'["ui"] \in {"saving", "rest"}
        /\ doing'["sender"] = doing["sender"]
    BY <1>0, <1>2 DEF CloseDialog, Saved, network, sendVars, history, wireVars
  <2>2. \A t \in Senders :
          doing'[t] = doing[t] \/ (doing[t] \notin Concerned /\ doing'[t] \notin Concerned)
    BY <2>1 DEF Senders, Concerned
  <2> QED  BY <1>s, <2>1, <2>2, EchoQuiet
<1>3. CASE Plugin
  BY <1>3, EchoPlugin
<1>4. CASE ParserCompleted
  <2>1. /\ Done("parserDone") /\ doing' = [doing EXCEPT !["parser"] = "idle", !["sender"] = "ready"]
        /\ UNCHANGED wireVars /\ UNCHANGED crossed
    BY <1>4 DEF ParserCompleted, Dispatch, network, history, wireVars
  <2>2. doing["parser"] = "done" /\ doing["sender"] = "idle"
    BY <1>0, <2>1, DispatchEffect DEF TurnInv, Completion, OneBlockAtATime
  <2>3. \A t \in Senders :
          doing'[t] = doing[t] \/ (doing[t] \notin Concerned /\ doing'[t] \notin Concerned)
    BY <1>0, <2>1, <2>2 DEF Senders, Concerned
  <2> QED  BY <2>1, <2>2, <2>3, EchoQuiet
<1>5. CASE SenderCompleted
  <2> SUFFICES ASSUME ~crossed' PROVE EchoInv'
    BY DEF EchoInv
  <2>1. /\ Done("senderDone") /\ doing' = [doing EXCEPT !["sender"] = "idle"]
        /\ UNCHANGED <<connected, attempt, peer, echoes, unanswered, on>> /\ ~crossed
    BY <1>5 DEF SenderCompleted, Dispatch, network, history
  <2>2. doing["sender"] = "done" /\ doing["ui"] \notin {"waiting", "box"}
    BY <2>1, DispatchEffect DEF TurnInv, Completion, Alone
  <2>3. ~Disconnecting
    BY <2>1, DisconnectingDispatched
  <2>4. connected /\ peer => Clear
    BY <2>1, <2>2, <2>3 DEF EchoInv, Waits, Senders
  <2>5. \A t \in Senders : ~Waits(t)'
    BY <1>0, <2>1, <2>2 DEF Waits, Senders
  <2> QED  BY <2>1, <2>4, <2>5 DEF EchoInv, Clear
<1>6. CASE FailureHandled
  BY <1>6 DEF FailureHandled, Disconnected, EchoInv, Waits
<1>7. CASE HighlightLine \/ Highlighted \/ HighlightThrows
  <2>1. Done("line") /\ UNCHANGED <<doing, crossed>> /\ UNCHANGED wireVars
    BY <1>7
    DEF HighlightLine, Highlighted, HighlightThrows, UiUnderstands, Dispatch, network, sendVars,
        history, wireVars
  <2>2. Disconnecting => Disconnecting'
    BY <2>1, DisconnectingDispatched
  <2> QED  BY <2>1, <2>2, EchoQuiet
<1>h. CASE HighlightSelects \/ Peek \/ ReadToSend \/ UiThrows
  <2>1. UNCHANGED <<doing, posted, crossed>> /\ UNCHANGED wireVars
    BY <1>h
    DEF HighlightSelects, Note, Peek, ReadToSend, UiThrows, UiUnderstands, network, sendVars,
        history, wireVars
  <2> QED  BY <1>s, <2>1, EchoQuiet
<1>n. CASE SendLine
  <2> SUFFICES ASSUME ~crossed PROVE EchoInv'
    BY <1>n DEF SendLine, history, EchoInv
  <2>1. /\ ToSend /\ UNCHANGED <<connected, attempt, peer, echoes, crossed, posted>>
        /\ UNCHANGED <<unanswered, doing, sending, on>> \/ \E text : Send("ui", text)
    BY <1>n DEF SendLine, ToSend, history
  <2>2. doing["ui"] = "rest" /\ doing["sender"] = "idle"
    BY <2>1 DEF Alone
  <2>3. connected /\ peer => Clear
    BY <2>2, NobodySends DEF Concerned
  <2>4. CASE UNCHANGED <<unanswered, doing, sending, on>>
    BY <1>s, <2>1, <2>4, EchoQuiet DEF wireVars
  <2>5. CASE \E text : Send("ui", text)
    BY <2>1, <2>2, <2>3, <2>5, EchoSend DEF Senders
  <2> QED  BY <2>1, <2>4, <2>5
<1>8. ASSUME NEW w \in Parsers, Parsing(w) PROVE EchoInv'
  <2>1. /\ UNCHANGED wireVars /\ UNCHANGED crossed
        /\ UNCHANGED posted \/ posted' = Append(posted, [kind |-> "parserDone"])
    BY <1>8
    DEF Parsing, BeginParse, BeginLine, ParseLine, AddCommand, ParseThrows, EndParse, Ends, Post,
        Note, network, sendVars, history, wireVars
  <2>2. \A t \in Senders : doing'[t] = doing[t]
    BY <1>0, <1>8
    DEF Parsing, BeginParse, BeginLine, ParseLine, AddCommand, ParseThrows, EndParse, Ends,
        Senders, Parsers
  <2>3. Disconnecting => Disconnecting'
    BY <1>s, <2>1, DisconnectingBeside
  <2> QED  BY <2>1, <2>2, <2>3, EchoQuiet
<1>9. ASSUME doing["sender"] = "ready", ~crossed
      PROVE  /\ connected /\ peer => Clear
             /\ doing["ui"] \notin {"waiting", "box"}
  BY <1>9, NobodySends DEF Alone, Concerned
<1>10. CASE SenderSends
  <2> SUFFICES ASSUME ~crossed' PROVE EchoInv'
    BY DEF EchoInv
  <2>1. /\ Send("sender", parsed[next]) /\ doing["sender"] = "ready" /\ ~crossed
        /\ UNCHANGED <<connected, attempt, peer, echoes>>
    BY <1>10, NoteEffect DEF SenderSends
  <2> QED  BY <1>9, <2>1, EchoSend DEF Senders
<1>11. CASE SenderEnds
  <2> SUFFICES ASSUME ~crossed' PROVE EchoInv'
    BY DEF EchoInv
  <2>1. /\ doing["sender"] = "ready" /\ ~crossed /\ doing' = [doing EXCEPT !["sender"] = "done"]
        /\ UNCHANGED <<connected, attempt, peer, echoes, unanswered, on>>
    BY <1>11 DEF SenderEnds, network, sendVars, history
  <2>2. \A t \in Senders : ~Waits(t)'
    BY <1>0, <1>9, <2>1 DEF Waits, Senders
  <2> QED  BY <1>9, <2>1, <2>2 DEF EchoInv, Clear
<1>12. ASSUME NEW t \in Senders, Waiting(t) \/ Dismiss(t) PROVE EchoInv'
  <2>1. UNCHANGED crossed
    BY <1>12
    DEF Waiting, ReceiveEcho, ReceiveNothing, Timeout, ConnectionGone, Dismiss, history
  <2>2. CASE crossed
    BY <2>1, <2>2 DEF EchoInv
  <2>3. CASE ~crossed
    BY <1>12, <2>3, EchoSending
  <2> QED  BY <2>2, <2>3
<1>13. ASSUME NEW a \in Attempts, Callback(a) \/ DismissReceive(a) PROVE EchoInv'
  <2>1. /\ UNCHANGED wireVars /\ UNCHANGED <<doing, crossed>>
        /\ \/ UNCHANGED posted
           \/ posted' = Append(posted, [kind |-> "line", line |-> Head(statuses), attempt |-> a])
           \/ posted' = Append(posted, [kind |-> "disconnect"])
    BY <1>13
    DEF Callback, ReceiveStatus, ReceiveClosed, DismissReceive, Post,
        network, sendVars, history, wireVars
  <2>2. Disconnecting => Disconnecting'
    BY <1>s, <2>1, DisconnectingBeside
  <2> QED  BY <2>1, <2>2, EchoQuiet
<1>14. CASE UNCHANGED vars
  BY <1>s, <1>14, EchoQuiet DEF vars, network, sendVars, history, wireVars
<1> QED
  BY <1>1, <1>2, <1>3, <1>4, <1>5, <1>6, <1>7, <1>h, <1>n, <1>8, <1>10, <1>11, <1>12, <1>13,
     <1>14
  DEF Next, FormGoesOn, Dispatched, UiReading

(* What a waiting command finds on its connection is its own: the echo, or *)
(* the command itself on its way.                                          *)
LEMMA EchoOwned == TypeInv /\ EchoInv => EchoIsOwn
<1> SUFFICES ASSUME TypeInv, EchoInv, ~crossed, NEW t \in Senders, Waits(t), peer
             PROVE  echoes \o unanswered = << sending[t] >>
  BY DEF EchoIsOwn
<1>1. \/ echoes = << sending[t] >> /\ unanswered = << >>
      \/ echoes = << >> /\ unanswered = << sending[t] >>
  BY DEF EchoInv
<1>2. << sending[t] >> \in Seq(Text \cup {Empty})
  BY DEF TypeInv, TypeOK
<1> QED  BY <1>1, <1>2, ConcatEmptySeq

(* At first nothing is connected.                                          *)
LEMMA EchoInit == Init => EchoInv
  BY EchoOff DEF Init

(* The echo a command waits for is its own, unless a save or a single line *)
(* crosses a block, for any number of failures and reconnections.          *)
THEOREM EchoesAreOwn == Spec => []EchoIsOwn
<1> QED
  BY EchoOwned, TypeInitial, TypeStep, TurnInit, TurnStep, AloneStep, OrderInit,
     EchoInit, EchoStep, PTL
  DEF Spec
=============================================================================
