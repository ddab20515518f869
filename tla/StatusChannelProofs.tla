------------------------- MODULE StatusChannelProofs -------------------------
(***************************************************************************)
(* Proofs about StatusChannel, for any number of messages and however fast *)
(* they are delivered: types, that no message stays in the queue after its *)
(* delivery, that no message is handed to two writes, that a delivery that *)
(* hangs has not lost its message, and that a message delivered at rest    *)
(* goes as StatusLine has it.                                              *)
(***************************************************************************)
EXTENDS StatusChannel, SequenceTheorems, TLAPS

(* Every reachable state has the types and thread places of TypeOK.        *)
LEMMA TypeInit == Init => TypeOK
<1> SUFFICES ASSUME Init PROVE TypeOK
  OBVIOUS
<1>1. dispatched \subseteq 1 .. formulated /\ hurried \in BOOLEAN
  BY DEF Init
<1> QED  BY <1>1 DEF Init, TypeOK, Messages, Blank, Threads

(* Every step keeps the types: one step below per action.                  *)
LEMMA TypeStep == TypeOK /\ [Next]_vars => TypeOK'
<1> SUFFICES ASSUME TypeOK, [Next]_vars PROVE TypeOK'
  OBVIOUS
<1> USE ChannelAssumption DEF TypeOK, Messages, Blank, Torn, Threads, Goto, historyVars
<1>1. CASE Formulate
  <2>1. formulated' = formulated + 1 /\ formulated' \in Nat
    BY <1>1 DEF Formulate
  <2>2. /\ 1 .. formulated \subseteq 1 .. formulated'
        /\ 0 .. formulated \subseteq 0 .. formulated'
        /\ 0 .. formulated \cup {-1} \subseteq 0 .. formulated' \cup {-1}
        /\ [meant : 0 .. formulated, start : 0 .. formulated]
             \subseteq [meant : 0 .. formulated', start : 0 .. formulated']
    BY <2>1
  <2>3. /\ queue \in Seq(1 .. formulated')
        /\ writes \in Seq([meant : 0 .. formulated', start : 0 .. formulated'])
        /\ wire \in Seq(0 .. formulated' \cup {-1})
    BY <2>2, SeqMonotonic
  <2>4. queue' \in Seq(1 .. formulated')
    BY <1>1, <2>1, <2>3 DEF Formulate
  <2>5. dispatched' \subseteq 1 .. formulated' /\ hurried' \in BOOLEAN
    BY <1>1, <2>2 DEF Formulate
  <2> QED  BY <1>1, <2>1, <2>2, <2>3, <2>4, <2>5 DEF Formulate
<1>2. CASE HandleWrite  BY <1>2 DEF HandleWrite
<1>3. ASSUME NEW t \in Threads, Count(t) PROVE TypeOK'
  BY <1>3 DEF Count
<1>4. ASSUME NEW t \in Threads, Look(t) PROVE TypeOK'
  BY <1>4 DEF Look
<1>5. ASSUME NEW t \in Threads, Take(t) PROVE TypeOK'
  <2>1. Head(queue) \in 1 .. formulated /\ Tail(queue) \in Seq(1 .. formulated)
    BY <1>5, HeadTailProperties DEF Take
  <2> QED  BY <1>5, <2>1 DEF Take
<1>6. ASSUME NEW t \in Threads, Copy(t) PROVE TypeOK'
  BY <1>6 DEF Copy
<1>7. ASSUME NEW t \in Threads, StartWrite(t) PROVE TypeOK'
  <2>1. [meant |-> msg[t], start |-> buffer] \in [meant : Messages, start : Messages]
    BY <1>7
  <2>2. dispatched' \subseteq 1 .. formulated
    <3>1. msg[t] \in 0 .. formulated
      BY <1>7
    <3>2. msg[t] # 0 => msg[t] \in 1 .. formulated
      BY <3>1
    <3>3. dispatched \subseteq 1 .. formulated /\ UNCHANGED formulated
          /\ dispatched' = dispatched \cup ({msg[t]} \ {0})
      BY <1>7 DEF StartWrite
    <3> HIDE DEF TypeOK
    <3> QED  BY <3>2, <3>3
  <2>3. hurried' \in BOOLEAN
    BY <1>7 DEF StartWrite
  <2> QED  BY <1>7, <2>1, <2>2, <2>3 DEF StartWrite
<1>8. CASE Transmit
  <2> DEFINE W == [meant : Messages, start : Messages]
  <2>1. Head(writes) \in W /\ Tail(writes) \in Seq(W)
    BY <1>8, HeadTailProperties DEF Transmit
  <2>2. Transmitted(Head(writes)) \subseteq Messages \cup {Torn}
    BY <2>1 DEF Transmitted
  <2>3. wire' \in Seq(Messages \cup {Torn})
    BY <1>8, <2>2 DEF Transmit
  <2> QED  BY <1>8, <2>1, <2>3 DEF Transmit
<1>9. CASE WriteFails
  <2>1. Tail(writes) \in Seq([meant : Messages, start : Messages])
    BY <1>9, HeadTailProperties DEF WriteFails
  <2> QED  BY <1>9, <2>1 DEF WriteFails
<1>10. CASE Accept        BY <1>10 DEF Accept
<1>11. CASE ClientLeaves  BY <1>11 DEF ClientLeaves
<1>12. CASE Close         BY <1>12 DEF Close
<1>13. CASE UNCHANGED vars  BY <1>13 DEF vars
<1> QED
  BY <1>1, <1>2, <1>3, <1>4, <1>5, <1>6, <1>7, <1>8, <1>9, <1>10, <1>11, <1>12, <1>13
  DEF Next, Continue, Socket, Peer

(* TypeOK holds in every reachable state of the channel.                   *)
THEOREM TypeCorrect == Spec => []TypeOK
  BY TypeInit, TypeStep, PTL DEF Spec

-----------------------------------------------------------------------------
(* OneStored is not inductive: a delivery that is past its look at the     *)
(* queue must not find a message there when it returns.  Only the          *)
(* simulator thread pushes, so what is empty at its look stays empty.      *)
StoredInv ==
  /\ Len(queue) <= 1
  /\ pc["sim"] \in {"rest", "copy", "send"} => queue = << >>

(* Every step keeps StoredInv.                                             *)
LEMMA StoredStep == TypeOK /\ StoredInv /\ [Next]_vars => StoredInv'
<1> SUFFICES ASSUME TypeOK, StoredInv, [Next]_vars PROVE StoredInv'
  OBVIOUS
<1> USE DEF StoredInv, TypeOK, Threads, Goto, historyVars
<1>1. CASE Formulate    BY <1>1 DEF Formulate
<1>2. CASE HandleWrite  BY <1>2 DEF HandleWrite
<1>3. ASSUME NEW t \in Threads, Count(t) PROVE StoredInv'
  <2>1. queue = << >> \/ Len(queue) > 0
    BY EmptySeq
  <2> QED  BY <1>3, <2>1 DEF Count
<1>4. ASSUME NEW t \in Threads, Look(t) PROVE StoredInv'
  BY <1>4 DEF Look
<1>5. ASSUME NEW t \in Threads, Take(t) PROVE StoredInv'
  <2>1. queue # << >> /\ queue' = Tail(queue)
    BY <1>5 DEF Take
  <2>2. Len(queue) = 1
    <3>1. queue \in Seq(1 .. formulated)
      OBVIOUS
    <3>2. 1 \in DOMAIN queue /\ DOMAIN queue = 1 .. Len(queue) /\ Len(queue) \in Nat
      BY <2>1, <3>1, HeadTailProperties, EmptySeq
    <3> QED  BY <3>2
  <2>3. queue' = << >>
    <3>1. queue \in Seq(1 .. formulated)
      OBVIOUS
    <3> HIDE DEF TypeOK, StoredInv
    <3>2. Tail(queue) \in Seq(1 .. formulated) /\ Len(Tail(queue)) = 0
      BY <2>1, <2>2, <3>1, HeadTailProperties
    <3> QED  BY <2>1, <3>2, EmptySeq
  <2> QED  BY <1>5, <2>3
<1>6. ASSUME NEW t \in Threads, Copy(t) PROVE StoredInv'
  BY <1>6 DEF Copy
<1>7. ASSUME NEW t \in Threads, StartWrite(t) PROVE StoredInv'
  BY <1>7 DEF StartWrite
<1>8. CASE Transmit \/ WriteFails  BY <1>8 DEF Transmit, WriteFails
<1>9. CASE Peer  BY <1>9 DEF Peer, Accept, ClientLeaves, Close
<1>10. CASE UNCHANGED vars  BY <1>10 DEF vars
<1> QED
  BY <1>1, <1>2, <1>3, <1>4, <1>5, <1>6, <1>7, <1>8, <1>9, <1>10
  DEF Next, Continue, Socket

(* However fast statuses follow each other, none stays behind in the queue.*)
THEOREM OneStoredHolds == Spec => []OneStored
<1>1. Init => StoredInv
  BY DEF Init, StoredInv
<1>2. StoredInv => OneStored
  BY DEF StoredInv, OneStored
<1> QED  BY <1>1, <1>2, TypeInit, TypeStep, StoredStep, PTL DEF Spec

-----------------------------------------------------------------------------
(* NoDoubleDispatch is inductive with the types and with NoneLost: a       *)
(* message is new when it is pushed, and every later step moves it from    *)
(* one place to the next.                                                  *)
NoneLost ==
  \A m \in 1 .. formulated :
    \/ m \in dispatched
    \/ \E i \in DOMAIN queue : queue[i] = m
    \/ \E t \in Threads : msg[t] = m

Places == NoDoubleDispatch /\ NoneLost

(* A new message is nowhere else.                                          *)
LEMMA FormulateKeepsPlaces == ASSUME TypeOK, Places, Formulate PROVE Places'
<1> DEFINE new == formulated + 1
<1>1. /\ queue' = Append(queue, new) /\ UNCHANGED <<msg, dispatched>>
      /\ pc' = [pc EXCEPT !["sim"] = "count"] /\ pc["sim"] = "rest"
      /\ formulated' = new
  BY DEF Formulate, Goto
<1>2. /\ formulated \in Nat /\ queue \in Seq(1 .. formulated)
      /\ pc \in [Threads -> {"rest", "count", "look", "take", "copy", "send"}]
      /\ msg \in [Threads -> 0 .. formulated]
      /\ dispatched \subseteq 1 .. formulated
  BY DEF TypeOK, Messages, Blank
<1>3. /\ \A i \in DOMAIN queue : queue[i] # new
      /\ \A t \in Threads : msg[t] # new
      /\ new \notin dispatched
  BY <1>2
<1>4. /\ \A i \in DOMAIN queue : i \in DOMAIN queue' /\ queue'[i] = queue[i]
      /\ Len(queue) + 1 \in DOMAIN queue' /\ queue'[Len(queue) + 1] = new
      /\ \A i \in DOMAIN queue' : i \in DOMAIN queue \/ i = Len(queue) + 1
  <2>1. /\ DOMAIN queue = 1 .. Len(queue) /\ Len(queue) \in Nat
        /\ DOMAIN queue' = 1 .. Len(queue) + 1
        /\ \A i \in DOMAIN queue : queue'[i] = queue[i]
        /\ queue'[Len(queue) + 1] = new
    BY <1>1, <1>2
  <2> QED  BY <2>1
<1>5. \A m \in 1 .. new : m \in 1 .. formulated \/ m = new
  BY <1>2
<1> HIDE DEF new
<1>6. Apart'  BY <1>3, <1>4 DEF Places, NoDoubleDispatch, Apart
<1>7. InOneHand'
  <2>1. \A t \in Threads : msg[t] # 0 => pc'[t] \in {"copy", "send"}
    BY <1>1, <1>2 DEF Places, NoDoubleDispatch, InOneHand, Threads, Blank
  <2>2. \A t \in Threads : \A i \in DOMAIN queue' : msg[t] # queue'[i]
    BY <1>3, <1>4 DEF Places, NoDoubleDispatch, InOneHand
  <2> QED  BY <1>1, <2>1, <2>2 DEF Places, NoDoubleDispatch, InOneHand, Blank
<1>8. NeverAgain'
  BY <1>1, <1>3, <1>4 DEF Places, NoDoubleDispatch, NeverAgain
<1>9. NoneLost'
  BY <1>1, <1>4, <1>5 DEF Places, NoneLost
<1> QED  BY <1>6, <1>7, <1>8, <1>9 DEF Places, NoDoubleDispatch

(* A message leaves the queue for the hand of one thread, which had none.  *)
LEMMA TakeKeepsPlaces == ASSUME TypeOK, Places, NEW t \in Threads, Take(t) PROVE Places'
<1> USE DEF TypeOK, Messages, Blank, Threads, Goto
<1>1. /\ queue' = Tail(queue) /\ queue # << >>
      /\ msg' = [msg EXCEPT ![t] = Head(queue)]
      /\ Head(queue) = queue[1] /\ 1 \in DOMAIN queue
      /\ UNCHANGED <<formulated, dispatched>>
  BY DEF Take, historyVars
<1>2. /\ \A i \in DOMAIN queue' : i + 1 \in DOMAIN queue /\ queue'[i] = queue[i + 1] /\ i + 1 # 1
      /\ \A i \in DOMAIN queue : i = 1 \/ \E k \in DOMAIN queue' : queue'[k] = queue[i]
  <2>1. /\ DOMAIN queue = 1 .. Len(queue) /\ Len(queue) \in Nat /\ Len(queue) > 0
        /\ DOMAIN queue' = 1 .. Len(queue) - 1
        /\ \A k \in 1 .. Len(queue) - 1 : queue'[k] = queue[k + 1]
    BY <1>1, HeadTailProperties, EmptySeq
  <2>2. ASSUME NEW i \in DOMAIN queue, i # 1
        PROVE  \E k \in DOMAIN queue' : queue'[k] = queue[i]
    <3>1. i - 1 \in 1 .. Len(queue) - 1 /\ (i - 1) + 1 = i
      BY <2>1, <2>2
    <3> QED  BY <2>1, <3>1
  <2> QED  BY <2>1, <2>2
<1>3. Apart'  BY <1>1, <1>2 DEF Places, NoDoubleDispatch, Apart
<1>4. InOneHand'
  BY <1>1, <1>2 DEF Places, NoDoubleDispatch, Apart, InOneHand, Take
<1>5. NeverAgain'
  BY <1>1, <1>2 DEF Places, NoDoubleDispatch, NeverAgain
<1>6. NoneLost'
  <2>1. msg[t] = 0 /\ msg'[t] = queue[1] /\ \A u \in Threads : u # t => msg'[u] = msg[u]
    BY <1>1 DEF Places, NoDoubleDispatch, InOneHand, Take
  <2> SUFFICES ASSUME NEW m \in 1 .. formulated
               PROVE  \/ m \in dispatched
                      \/ \E i \in DOMAIN queue' : queue'[i] = m
                      \/ \E u \in Threads : msg'[u] = m
    BY <1>1 DEF NoneLost
  <2> HIDE DEF TypeOK, Threads
  <2>2. CASE \E i \in DOMAIN queue : queue[i] = m
    BY <1>2, <2>1, <2>2
  <2>3. CASE \E u \in Threads : msg[u] = m
    <3>1. m # 0
      OBVIOUS
    <3> QED  BY <2>1, <2>3, <3>1
  <2> QED  BY <2>2, <2>3 DEF Places, NoneLost
<1> QED  BY <1>3, <1>4, <1>5, <1>6 DEF Places, NoDoubleDispatch

(* A message leaves the hand of a thread for one write.                    *)
LEMMA StartKeepsPlaces == ASSUME TypeOK, Places, NEW t \in Threads, StartWrite(t) PROVE Places'
<1>1. /\ dispatched' = dispatched \cup ({msg[t]} \ {Blank})
      /\ msg' = [msg EXCEPT ![t] = Blank] /\ UNCHANGED <<queue, formulated>>
      /\ pc' = [pc EXCEPT ![t] = "rest"]
  BY DEF StartWrite, Goto
<1>2. /\ msg \in [Threads -> Nat] /\ Blank \in Nat
      /\ pc \in [Threads -> {"rest", "count", "look", "take", "copy", "send"}]
      /\ \A i \in DOMAIN queue : queue[i] # Blank
      /\ Blank \notin dispatched
      /\ \A m \in 1 .. formulated : m # Blank
  BY DEF TypeOK, Messages, Blank
<1>3. \A u \in Threads : msg'[u] = IF u = t THEN Blank ELSE msg[u]
  BY <1>1, <1>2
<1>4. Apart'  BY <1>1 DEF Places, NoDoubleDispatch, Apart
<1>5. InOneHand'
  <2>1. \A u \in Threads : msg'[u] # Blank => pc'[u] \in {"copy", "send"}
    BY <1>1, <1>2, <1>3 DEF Places, NoDoubleDispatch, InOneHand
  <2>2. \A u \in Threads : \A i \in DOMAIN queue : msg'[u] # queue[i]
    BY <1>2, <1>3 DEF Places, NoDoubleDispatch, InOneHand
  <2> QED  BY <1>1, <1>3, <2>1, <2>2 DEF Places, NoDoubleDispatch, InOneHand
<1>6. NeverAgain'
  <2>1. \A i \in DOMAIN queue : queue[i] \notin dispatched'
    BY <1>1 DEF Places, NoDoubleDispatch, InOneHand, NeverAgain
  <2>2. \A u \in Threads : msg'[u] \notin dispatched'
    BY <1>1, <1>2, <1>3 DEF Places, NoDoubleDispatch, InOneHand, NeverAgain
  <2> QED  BY <1>1, <2>1, <2>2 DEF NeverAgain
<1>7. NoneLost'
  <2> SUFFICES ASSUME NEW m \in 1 .. formulated
               PROVE  \/ m \in dispatched'
                      \/ \E i \in DOMAIN queue : queue[i] = m
                      \/ \E u \in Threads : msg'[u] = m
    BY <1>1 DEF NoneLost
  <2>1. CASE msg[t] = m
    BY <1>1, <1>2, <2>1
  <2>2. CASE msg[t] # m
    BY <1>1, <1>3, <2>2 DEF Places, NoneLost
  <2> QED  BY <2>1, <2>2
<1> QED  BY <1>4, <1>5, <1>6, <1>7 DEF Places, NoDoubleDispatch

(* Every step keeps each message in one place.                             *)
LEMMA DispatchStep == TypeOK /\ Places /\ [Next]_vars => Places'
<1> SUFFICES ASSUME TypeOK, Places, [Next]_vars PROVE Places'
  OBVIOUS
<1> USE DEF Places, NoDoubleDispatch, Apart, InOneHand, NeverAgain, NoneLost,
            TypeOK, Threads, Goto, Blank, historyVars
<1>1. CASE Formulate    BY <1>1, FormulateKeepsPlaces
<1>2. CASE HandleWrite  BY <1>2 DEF HandleWrite
<1>3. ASSUME NEW t \in Threads, Count(t) PROVE Places'
  BY <1>3 DEF Count
<1>4. ASSUME NEW t \in Threads, Look(t) PROVE Places'
  <2>1. msg[t] = 0 /\ msg' = msg
    BY <1>4 DEF Look, Messages
  <2> QED  BY <1>4, <2>1 DEF Look
<1>5. ASSUME NEW t \in Threads, Take(t) PROVE Places'
  BY <1>5, TakeKeepsPlaces
<1>6. ASSUME NEW t \in Threads, Copy(t) PROVE Places'
  BY <1>6 DEF Copy
<1>7. ASSUME NEW t \in Threads, StartWrite(t) PROVE Places'
  BY <1>7, StartKeepsPlaces
<1>8. CASE Socket  BY <1>8 DEF Socket, Transmit, WriteFails
<1>9. CASE Peer    BY <1>9 DEF Peer, Accept, ClientLeaves, Close
<1>10. CASE UNCHANGED vars  BY <1>10 DEF vars
<1> QED
  BY <1>1, <1>2, <1>3, <1>4, <1>5, <1>6, <1>7, <1>8, <1>9, <1>10
  DEF Next, Continue

(* Nothing is formulated, and so nothing is anywhere, at the start.        *)
LEMMA PlacesInit == Init => Places
  BY DEF Init, Places, NoDoubleDispatch, Apart, InOneHand, NeverAgain, NoneLost

(* However the two threads race, no message is handed to two writes.       *)
THEOREM NoDoubleDispatchHolds == Spec => []NoDoubleDispatch
<1>1. Places => NoDoubleDispatch
  BY DEF Places
<1> QED  BY <1>1, PlacesInit, TypeInit, TypeStep, DispatchStep, PTL DEF Spec

(* A thread on its way through write() has been given something to do.     *)
Begun == pc["sim"] # "rest" => formulated > 0

LEMMA BegunStep == TypeOK /\ Begun /\ [Next]_vars => Begun'
<1> USE DEF TypeOK, Begun, Threads, Goto
<1>1. TypeOK /\ Begun /\ Formulate => Begun'
  BY DEF Formulate
<1>2. TypeOK /\ Begun /\ (HandleWrite \/ Socket \/ Peer \/ UNCHANGED vars) => Begun'
  BY DEF HandleWrite, Socket, Transmit, WriteFails, Peer, Accept, ClientLeaves, Close, vars
<1>3. ASSUME TypeOK, Begun, NEW t \in Threads, Continue(t) PROVE Begun'
  BY <1>3 DEF Continue, Count, Look, Take, Copy, StartWrite
<1> QED  BY <1>1, <1>2, <1>3 DEF Next

(* A delivery that waits in consume_back() with nothing left to take has   *)
(* lost its message to the io thread, not to nobody.                       *)
THEOREM WaitsForTakenHolds == Spec => []WaitsForTaken
<1>1. Init => Begun
  BY DEF Init, Begun, Threads
<1>2. TypeOK /\ Places /\ Begun => WaitsForTaken
  <2> SUFFICES ASSUME TypeOK, Places, Begun, pc["sim"] = "take", queue = << >>
               PROVE  formulated \in dispatched \cup {msg["io"]}
    BY DEF WaitsForTaken
  <2>1. formulated \in 1 .. formulated
    BY DEF TypeOK, Begun
  <2>2. msg["sim"] = Blank
    BY DEF Places, NoDoubleDispatch, InOneHand, Threads
  <2>3. msg["sim"] # formulated
    BY <2>1, <2>2 DEF Blank
  <2>4. \A i \in DOMAIN queue : FALSE
    OBVIOUS
  <2> QED  BY <2>1, <2>3, <2>4 DEF Places, NoneLost, Threads
<1> QED
  BY <1>1, <1>2, PlacesInit, TypeInit, TypeStep, DispatchStep, BegunStep, PTL DEF Spec

-----------------------------------------------------------------------------
(* A delivery that finds the channel at rest leaves it with one message in *)
(* one place: in the queue until the simulator thread takes it, in its     *)
(* hands, or in a write, whose bytes in data_ nobody replaces before they  *)
(* are sent.  That ends with a delivery that does not wait for the end of  *)
(* the write, and holds again from the next one that does: StoredInv says  *)
(* that no message of a hurried delivery is in the queue by then.          *)
UnhurriedInv == ~hurried =>
  /\ pc["sim"] # "rest" => writes = << >> /\ completed = 0 /\ pc["io"] = "rest"
  /\ pc["io"] \in {"rest", "count"}
  /\ IF pc["sim"] \in {"count", "look", "take"} THEN Len(queue) = 1 ELSE queue = << >>
  /\ pc["sim"] = "send" => buffer = msg["sim"]
  /\ writes = << >> \/ writes = << [meant |-> buffer, start |-> buffer] >>

(* Every step keeps UnhurriedInv.                                            *)
LEMMA UnhurriedStep == TypeOK /\ StoredInv /\ UnhurriedInv /\ [Next]_vars => UnhurriedInv'
<1> SUFFICES ASSUME TypeOK, StoredInv, UnhurriedInv, [Next]_vars, ~hurried' PROVE UnhurriedInv'
  BY DEF UnhurriedInv
<1> USE DEF UnhurriedInv, Threads, Goto, historyVars
<1>0. /\ pc \in [Threads -> {"rest", "count", "look", "take", "copy", "send"}]
      /\ msg \in [Threads -> Messages]
      /\ queue \in Seq(1 .. formulated)
  BY DEF TypeOK
<1>1. CASE Formulate
  <2>1. AtRest /\ queue = << >>
    BY <1>1 DEF Formulate, StoredInv
  <2>2. Len(queue') = 1
    BY <1>0, <1>1, <2>1 DEF Formulate
  <2> QED  BY <1>0, <1>1, <2>1, <2>2 DEF Formulate, AtRest
<1>2. CASE HandleWrite  BY <1>0, <1>2 DEF HandleWrite
<1>3. ASSUME NEW t \in Threads, Count(t) PROVE UnhurriedInv'
  <2>1. t = "io" => Len(queue) = 0
    BY <1>3, EmptySeq DEF Count
  <2> QED  BY <1>0, <1>3, <2>1 DEF Count
<1>4. ASSUME NEW t \in Threads, Look(t) PROVE UnhurriedInv'
  <2>1. t = "sim" /\ queue # << >>
    BY <1>4, EmptySeq DEF Look
  <2> QED  BY <1>0, <1>4, <2>1 DEF Look
<1>5. ASSUME NEW t \in Threads, Take(t) PROVE UnhurriedInv'
  <2>1. t = "sim" /\ Len(queue) = 1
    BY <1>5 DEF Take
  <2>2. Tail(queue) = << >>
    BY <1>0, <1>5, <2>1, HeadTailProperties, LenProperties, EmptySeq DEF Take
  <2> QED  BY <1>0, <1>5, <2>1, <2>2 DEF Take
<1>6. ASSUME NEW t \in Threads, Copy(t) PROVE UnhurriedInv'
  BY <1>0, <1>6 DEF Copy
<1>7. ASSUME NEW t \in Threads, StartWrite(t) PROVE UnhurriedInv'
  <2>1. t = "sim" /\ writes = << >> /\ buffer = msg["sim"]
    BY <1>7 DEF StartWrite
  <2>2. writes' = << [meant |-> buffer, start |-> buffer] >>
    BY <1>7, <2>1 DEF StartWrite
  <2> QED  BY <1>0, <1>7, <2>1, <2>2 DEF StartWrite
<1>8. CASE Transmit \/ WriteFails
  <2>1. writes = << [meant |-> buffer, start |-> buffer] >>
    BY <1>8 DEF Transmit, WriteFails
  <2>2. writes' = << >>
    BY <1>8, <2>1 DEF Transmit, WriteFails
  <2> QED  BY <1>8, <2>1, <2>2 DEF Transmit, WriteFails
<1>9. CASE Peer  BY <1>9 DEF Peer, Accept, ClientLeaves, Close
<1>10. CASE UNCHANGED vars  BY <1>10 DEF vars
<1> QED
  BY <1>1, <1>2, <1>3, <1>4, <1>5, <1>6, <1>7, <1>8, <1>9, <1>10
  DEF Next, Continue, Socket

(* The messages pending are the one in a write, the one in the hands of    *)
(* the simulator thread, or the one in the queue.                          *)
Pending == Meant \o Held \o queue

PendingPlace ==
  Pending = IF writes # << >> THEN << buffer >>
            ELSE IF pc["sim"] \in {"copy", "send"} THEN << msg["sim"] >>
            ELSE queue

(* Then each message not yet sent is in one place.                         *)
LEMMA PendingIs == TypeOK /\ UnhurriedInv /\ ~hurried => PendingPlace
<1> SUFFICES ASSUME TypeOK, UnhurriedInv, ~hurried PROVE PendingPlace
  OBVIOUS
<1> USE DEF PendingPlace
<1>1. queue \in Seq(Nat) /\ buffer \in Nat /\ msg["sim"] \in Nat
  <2>1. 1 .. formulated \subseteq Nat /\ queue \in Seq(1 .. formulated)
    BY DEF TypeOK
  <2> QED  BY <2>1, SeqMonotonic DEF TypeOK, Messages, Blank, Threads
<1>2. Held \in Seq(Nat)
  BY <1>1, EmptySeq DEF Held
<1>3. CASE writes = << >>
  <2>1. Meant = << >>
    BY <1>3 DEF Meant
  <2>2. Meant \o Held \o queue = Held \o queue
    BY <1>2, <2>1, ConcatEmptySeq
  <2>3. CASE pc["sim"] \in {"copy", "send"}
    <3>1. queue = << >> /\ Held = << msg["sim"] >>
      BY <2>3 DEF UnhurriedInv, Held
    <3> QED  BY <1>2, <1>3, <2>2, <2>3, <3>1, ConcatEmptySeq DEF Pending
  <2>4. CASE pc["sim"] \notin {"copy", "send"}
    <3>1. Held = << >>
      BY <2>4 DEF Held
    <3> QED  BY <1>1, <1>3, <2>2, <2>4, <3>1, ConcatEmptySeq DEF Pending
  <2> QED  BY <2>3, <2>4
<1>4. CASE writes # << >>
  <2>1. writes = << [meant |-> buffer, start |-> buffer] >> /\ pc["sim"] = "rest"
    BY <1>4 DEF UnhurriedInv
  <2>2. Meant = << buffer >>
    BY <2>1 DEF Meant
  <2>3. Held = << >> /\ queue = << >>
    BY <2>1 DEF Held, UnhurriedInv
  <2>4. Meant \in Seq(Nat)
    BY <1>1, <2>2
  <2> QED  BY <1>4, <2>2, <2>3, <2>4, ConcatEmptySeq DEF Pending
<1> QED  BY <1>3, <1>4

(* After a hurried delivery nothing is pending once the channel is at rest.*)
LEMMA RestIsEmpty == TypeOK /\ StoredInv /\ AtRest /\ pc["sim"] = "rest" => Pending = << >>
<1> SUFFICES ASSUME TypeOK, StoredInv, AtRest, pc["sim"] = "rest" PROVE Pending = << >>
  OBVIOUS
<1>1. Meant = << >> /\ Held = << >> /\ queue = << >>
  BY DEF AtRest, StoredInv, Meant, Held
<1> QED  BY <1>1 DEF Pending

(* Every step after which no delivery is hurried is one of the line.       *)
LEMMA LineStep ==
  ASSUME TypeOK, StoredInv, UnhurriedInv, ~hurried',
         ~hurried => PendingPlace, PendingPlace', [Next]_vars
  PROVE  [Line!Next]_(Line!vars)
<1> USE DEF Threads, Goto, historyVars
<1>0. /\ pc \in [Threads -> {"rest", "count", "look", "take", "copy", "send"}]
      /\ msg \in [Threads -> Messages]
      /\ queue \in Seq(1 .. formulated)
  BY DEF TypeOK
<1>a. ~hurried => Pending = IF writes # << >> THEN << buffer >>
                            ELSE IF pc["sim"] \in {"copy", "send"} THEN << msg["sim"] >>
                            ELSE queue
  BY DEF PendingPlace
<1>b. Pending' = IF writes' # << >> THEN << buffer' >>
                 ELSE IF pc'["sim"] \in {"copy", "send"} THEN << msg'["sim"] >>
                 ELSE queue'
  BY DEF PendingPlace
<1>c. Pending' = Pending /\ UNCHANGED <<formulated, wire>> => [Line!Next]_(Line!vars)
  BY DEF Pending, Line!vars
<1>1. CASE Formulate
  <2>0. AtRest /\ pc["sim"] = "rest" /\ queue = << >>
    BY <1>1 DEF Formulate, StoredInv
  <2>1. Pending = << >>
    BY <2>0, RestIsEmpty
  <2>2. Pending' = << formulated' >>
    BY <1>0, <1>b, <1>1, <2>0 DEF Formulate, AtRest
  <2>3. Line!Tell
    BY <1>1, <2>1, <2>2 DEF Line!Tell, Pending, Formulate
  <2> QED  BY <2>3 DEF Line!Next
<1>2. CASE HandleWrite
  BY <1>0, <1>a, <1>b, <1>c, <1>2 DEF HandleWrite
<1>3. ASSUME NEW t \in Threads, Count(t) PROVE [Line!Next]_(Line!vars)
  BY <1>0, <1>a, <1>b, <1>c, <1>3 DEF Count
<1>4. ASSUME NEW t \in Threads, Look(t) PROVE [Line!Next]_(Line!vars)
  <2>1. t = "sim" /\ queue # << >>
    BY <1>4, EmptySeq DEF Look, UnhurriedInv
  <2> QED  BY <1>0, <1>a, <1>b, <1>c, <1>4, <2>1 DEF Look
<1>5. ASSUME NEW t \in Threads, Take(t) PROVE [Line!Next]_(Line!vars)
  <2>1. t = "sim" /\ Len(queue) = 1 /\ writes = << >>
    BY <1>5 DEF Take, UnhurriedInv
  <2>2. queue = << Head(queue) >>
    BY <1>0, <1>5, <2>1 DEF Take
  <2> QED  BY <1>0, <1>a, <1>b, <1>c, <1>5, <2>1, <2>2 DEF Take
<1>6. ASSUME NEW t \in Threads, Copy(t) PROVE [Line!Next]_(Line!vars)
  BY <1>0, <1>a, <1>b, <1>c, <1>6 DEF Copy, UnhurriedInv
<1>7. ASSUME NEW t \in Threads, StartWrite(t) PROVE [Line!Next]_(Line!vars)
  <2>1. t = "sim" /\ writes = << >> /\ buffer = msg["sim"] /\ writes' # << >>
    BY <1>7 DEF StartWrite, UnhurriedInv
  <2> QED  BY <1>0, <1>a, <1>b, <1>c, <1>7, <2>1 DEF StartWrite
<1>8. CASE Transmit \/ WriteFails
  <2>a. writes # << >> /\ ~hurried
    BY <1>8 DEF Transmit, WriteFails
  <2>b. writes = << [meant |-> buffer, start |-> buffer] >> /\ pc["sim"] = "rest" /\ queue = << >>
    BY <2>a DEF UnhurriedInv
  <2>c. writes' = << >>
    BY <1>8, <2>b DEF Transmit, WriteFails
  <2>1. /\ writes = << [meant |-> buffer, start |-> buffer] >> /\ writes' = << >>
        /\ pc["sim"] = "rest" /\ queue = << >> /\ UNCHANGED <<pc, queue, formulated>>
    BY <1>8, <2>b, <2>c DEF Transmit, WriteFails
  <2>2. Pending = << buffer >> /\ Pending' = << >>
    BY <1>a, <1>b, <2>a, <2>1
  <2>3. CASE Transmit
    <3>1. Transmitted(Head(writes)) = {buffer}
      BY <2>1 DEF Transmitted
    <3>2. wire' = Append(wire, buffer)
      BY <2>3, <3>1 DEF Transmit
    <3>3. Pending # << >> /\ Head(Pending) = buffer /\ Pending' = Tail(Pending)
      BY <2>2, EmptySeq, HeadTailProperties
    <3>4. Line!Send
      BY <2>1, <3>2, <3>3 DEF Line!Send, Pending
    <3> QED  BY <3>4 DEF Line!Next
  <2>4. CASE WriteFails
    <3>1. Pending # << >> /\ Pending' = Tail(Pending)
      BY <2>2, EmptySeq
    <3>2. Line!Lose
      BY <2>1, <2>4, <3>1 DEF Line!Lose, Pending, WriteFails
    <3> QED  BY <3>2 DEF Line!Next
  <2> QED  BY <1>8, <2>3, <2>4
<1>9. CASE Peer
  BY <1>a, <1>b, <1>c, <1>9 DEF Peer, Accept, ClientLeaves, Close
<1>10. CASE UNCHANGED vars
  BY <1>a, <1>b, <1>c, <1>10 DEF vars
<1> QED
  BY <1>1, <1>2, <1>3, <1>4, <1>5, <1>6, <1>7, <1>8, <1>9, <1>10
  DEF Next, Continue, Socket

(* However fast messages follow each other: the channel begins as the line *)
(* does, and leaves it only with a hurried delivery, until the next one    *)
(* that is not.                                                            *)
THEOREM RefinesLineWhenUnhurried == Spec => Line!Init /\ LineWhenUnhurried
<1>1. Init => StoredInv /\ UnhurriedInv
  BY DEF Init, StoredInv, UnhurriedInv, Threads
<1>2. Init => Line!Init
  <2> SUFFICES ASSUME Init PROVE Line!Init
    OBVIOUS
  <2>1. Meant = << >> /\ Held = << >> /\ queue = << >>
    BY DEF Init, Meant, Held, Threads
  <2> QED  BY <2>1 DEF Init, Line!Init
<1> DEFINE Inv == TypeOK /\ StoredInv /\ UnhurriedInv
<1>3. Init => Inv
  BY <1>1, TypeInit
<1>4. Inv /\ [Next]_vars => Inv'
  BY TypeStep, StoredStep, UnhurriedStep
<1>5. Inv => (~hurried => PendingPlace)
  BY PendingIs
<1>6. Inv /\ Inv' /\ (~hurried => PendingPlace) /\ (~hurried => PendingPlace)' /\ [Next]_vars
        => (hurried' \/ [Line!Next]_(Line!vars))
  BY LineStep
<1> HIDE DEF Inv
<1> QED  BY <1>2, <1>3, <1>4, <1>5, <1>6, PTL DEF Spec, LineWhenUnhurried
=============================================================================
