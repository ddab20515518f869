------------------------ MODULE SamplePipelineProofs ------------------------
(***************************************************************************)
(* Proofs about SamplePipeline, for every value of its constants: types,   *)
(* the numbering of the two sample queues, the order of the writes, what   *)
(* the end of a simulation leaves on the queues, and, for as long as       *)
(* nothing was emptied while a command was enqueued, the pairing of poses  *)
(* and paints, the lag of the lines and the steps of SampleFifo.           *)
(***************************************************************************)
EXTENDS SamplePipeline, SequenceTheorems, TLAPS

(***************************************************************************)
(* Facts about sequences of sample numbers.                                *)
(***************************************************************************)

(* A queue that holds the numbers from base + 1 on without a gap.          *)
Numbered(q, base) == \A i \in 1 .. Len(q) : q[i] = base + i

(* Pushing the next number keeps a queue without a gap.                    *)
LEMMA NumberedAppend ==
  ASSUME NEW q \in Seq(Nat), NEW base \in Int, Numbered(q, base),
         NEW n \in Nat, n = base + Len(q) + 1
  PROVE  Numbered(Append(q, n), base) /\ Len(Append(q, n)) = Len(q) + 1
  BY DEF Numbered

(* Popping the oldest number keeps a queue without a gap, one further on.  *)
LEMMA NumberedTail ==
  ASSUME NEW q \in Seq(Nat), NEW base \in Int, Numbered(q, base), q # << >>
  PROVE  /\ Numbered(Tail(q), base + 1)
         /\ Len(Tail(q)) = Len(q) - 1
         /\ Tail(q) \in Seq(Nat)
         /\ Head(q) = base + 1
         /\ Head(q) \in Nat
  BY DEF Numbered

(* An empty queue has no gap.                                              *)
LEMMA NumberedEmpty ==
  ASSUME NEW base \in Int
  PROVE  Numbered(<< >>, base) /\ Len(<< >>) = 0
  BY DEF Numbered

(* The empty queue is a queue of anything.                                 *)
LEMMA EmptyQueue == \A S : << >> \in Seq(S)
  OBVIOUS

-----------------------------------------------------------------------------
(* Every reachable state has the types and thread positions of TypeOK.     *)
(* The step of PushLine needs that a command being pushed has samples left.*)
TypeInv ==
  /\ TypeOK
  /\ ppc # "idle" => todo >= 1 /\ issued >= 1

(* Every step keeps the type invariant: one step below per action.         *)
LEMMA TypeInvStep == TypeInv /\ [Next]_vars => TypeInv'
<1> SUFFICES ASSUME TypeInv, [Next]_vars PROVE TypeInv'
  OBVIOUS
<1> USE PipelineAssumption DEF TypeInv, TypeOK, LineEntry, Emptying, producerVars, historyVars
<1>1. ASSUME NEW n \in 1 .. MaxBatch, NEW l \in Lines, ReceiveMotion(n, l) PROVE TypeInv'
  BY <1>1 DEF ReceiveMotion
<1>2. ASSUME NEW l \in Lines, ReceiveMotionless(l) PROVE TypeInv'
  BY <1>2 DEF ReceiveMotionless
<1>3. CASE PushTarget  BY <1>3 DEF PushTarget
<1>4. CASE PushPaint   BY <1>4 DEF PushPaint
<1>5. CASE PushLine    BY <1>5 DEF PushLine
<1>6. CASE BeginTick   BY <1>6 DEF BeginTick
<1>7. CASE ReadPaint   BY <1>7 DEF ReadPaint
<1>8. CASE WriteSucceeds  BY <1>8 DEF WriteSucceeds
<1>9. CASE WriteFails  BY <1>9 DEF WriteFails
<1>10. CASE PopTarget  BY <1>10 DEF PopTarget
<1>11. CASE PopPaint   BY <1>11 DEF PopPaint
<1>12. CASE ClearTarget  BY <1>12 DEF ClearTarget
<1>13. CASE ClearPaint BY <1>13 DEF ClearPaint
<1>14. CASE ClearLine  BY <1>14 DEF ClearLine
<1>15. ASSUME NEW c \in BOOLEAN, ReportLine(c) PROVE TypeInv'
  <2>1. Head(line) \in LineEntry /\ Tail(line) \in Seq(LineEntry)
    BY <1>15, HeadTailProperties DEF ReportLine
  <2>2. info' \in [line : Nat, collision : BOOLEAN]
    <3>1. info' = [line |-> Head(line).no, collision |-> c] \/ info' = info
      BY <1>15 DEF ReportLine
    <3> QED  BY <2>1, <3>1
  <2> QED  BY <1>15, <2>1, <2>2 DEF ReportLine
<1>16. CASE NoLineToReport  BY <1>16 DEF NoLineToReport
<1>17. ASSUME NEW h \in BOOLEAN, SimulationAboutToStart(h) PROVE TypeInv'
  BY <1>17 DEF SimulationAboutToStart
<1>18. CASE SimulationEnded  BY <1>18 DEF SimulationEnded
<1>19. CASE DrainTarget  BY <1>19 DEF DrainTarget
<1>20. CASE DrainPaint BY <1>20 DEF DrainPaint
<1>21. CASE CancelSessions  BY <1>21 DEF CancelSessions
<1>22. CASE JoinServerThread  BY <1>22 DEF JoinServerThread
<1>23. CASE LuaInit
  <2>1. target' \in Seq(Nat) /\ paint' \in Seq(Nat)
    BY <1>23, EmptyQueue DEF LuaInit
  <2>2. line' \in Seq(LineEntry)
    BY <1>23, EmptyQueue DEF LuaInit
  <2> QED  BY <1>23, <2>1, <2>2 DEF LuaInit
<1>24. CASE UNCHANGED vars  BY <1>24 DEF vars
<1> QED
  BY <1>1, <1>2, <1>3, <1>4, <1>5, <1>6, <1>7, <1>8, <1>9, <1>10, <1>11, <1>12,
     <1>13, <1>14, <1>15, <1>16, <1>17, <1>18, <1>19, <1>20, <1>21, <1>22, <1>23, <1>24
     DEF Next, Push, Receive, Callback, Environment, Report, Write

(* The type invariant holds when the plugin is loaded.                     *)
LEMMA TypeInit == Init => TypeInv
<1> SUFFICES ASSUME Init PROVE TypeInv
  OBVIOUS
<1>1. target \in Seq(Nat) /\ paint \in Seq(Nat) /\ line \in Seq(LineEntry)
  BY EmptyQueue DEF Init
<1>2. info \in [line : Nat, collision : BOOLEAN] /\ reported \in LineEntry
  BY DEF Init, LineEntry
<1> QED
  BY <1>1, <1>2 DEF Init, TypeInv, TypeOK

(* The types hold in every state of every behaviour.                       *)
THEOREM TypeCorrect == Spec => []TypeOK
<1>1. TypeInv => TypeOK
  BY DEF TypeInv
<1> QED
  BY <1>1, TypeInit, TypeInvStep, PTL DEF Spec

-----------------------------------------------------------------------------
(***************************************************************************)
(* The order of the writes, whether or not queues are emptied under a      *)
(* command: both sample queues hold consecutive numbers up to the newest   *)
(* one pushed, and the sample last written is no longer waiting.           *)
(***************************************************************************)
OrderInv ==
  /\ TypeInv
  /\ sim = "stopped" => cpc = "rest"
  /\ Numbered(target, TargetGone)
  /\ Numbered(paint, PaintGone)
  /\ cpc = "popTarget" => target # << >>
  /\ acted.sample <= TargetGone + IF cpc = "popTarget" THEN 1 ELSE 0

(* Every step keeps the target queue in order and behind the last write.   *)
LEMMA OrderInvStep == OrderInv /\ [Next]_vars => OrderInv'
<1> SUFFICES ASSUME OrderInv, [Next]_vars PROVE OrderInv'
  OBVIOUS
<1> USE DEF OrderInv, TypeInv, TypeOK, TargetGone, PaintGone, TargetEnd, PaintEnd,
            producerVars, historyVars
<1>0. TypeInv'
  BY TypeInvStep
<1>a. /\ Len(target) \in Nat /\ Len(paint) \in Nat
      /\ TargetEnd \in Int /\ PaintEnd \in Int
      /\ TargetGone \in Int /\ PaintGone \in Int
  OBVIOUS
<1>b. ASSUME UNCHANGED producerVars PROVE TargetEnd' = TargetEnd /\ PaintEnd' = PaintEnd
  BY <1>b
<1>1. ASSUME NEW n \in 1 .. MaxBatch, NEW l \in Lines, ReceiveMotion(n, l) PROVE OrderInv'
  BY <1>0, <1>1 DEF ReceiveMotion
<1>2. ASSUME NEW l \in Lines, ReceiveMotionless(l) PROVE OrderInv'
  BY <1>0, <1>2 DEF ReceiveMotionless
<1>3. CASE PushTarget
  <2>1. Numbered(target', TargetGone) /\ Len(target') = Len(target) + 1
    BY <1>3, <1>a, NumberedAppend DEF PushTarget
  <2>2. TargetGone' = TargetGone /\ PaintGone' = PaintGone
    BY <1>3, <2>1 DEF PushTarget
  <2>3. target' # << >>
    BY <1>0, <1>a, <2>1, EmptySeq
  <2> HIDE DEF TargetGone, PaintGone
  <2> QED  BY <1>0, <1>3, <2>1, <2>2, <2>3 DEF PushTarget
<1>4. CASE PushPaint
  <2>1. Numbered(paint', PaintGone) /\ Len(paint') = Len(paint) + 1
    BY <1>4, <1>a, NumberedAppend DEF PushPaint
  <2>2. TargetGone' = TargetGone /\ PaintGone' = PaintGone
    BY <1>4, <2>1 DEF PushPaint
  <2> HIDE DEF TargetGone, PaintGone
  <2> QED  BY <1>0, <1>4, <2>1, <2>2 DEF PushPaint
<1>5. CASE PushLine
  <2>1. TargetEnd' = TargetEnd /\ PaintEnd' = PaintEnd
    <3>1. CASE todo = 1   BY <1>5, <3>1 DEF PushLine
    <3>2. CASE todo # 1   BY <1>5, <3>2 DEF PushLine
    <3> QED  BY <3>1, <3>2
  <2>2. TargetGone' = TargetGone /\ PaintGone' = PaintGone
    <3> HIDE DEF TargetEnd, PaintEnd
    <3> QED  BY <1>5, <2>1 DEF PushLine
  <2> HIDE DEF TargetGone, PaintGone
  <2> QED  BY <1>0, <1>5, <2>2 DEF PushLine
<1>6. CASE BeginTick
  BY <1>0, <1>6 DEF BeginTick
<1>7. CASE ReadPaint
  BY <1>0, <1>7 DEF ReadPaint
<1>8. CASE WriteSucceeds
  <2>1. acted'.sample = TargetGone + 1
    <3>1. Head(target) = TargetGone + 1
      BY <1>8, <1>a, NumberedTail DEF WriteSucceeds
    <3> QED  BY <1>8, <3>1 DEF WriteSucceeds
  <2> QED  BY <1>0, <1>8, <2>1 DEF WriteSucceeds
<1>9. CASE WriteFails
  BY <1>0, <1>9 DEF WriteFails
<1>10. CASE PopTarget
  <2>1. /\ Numbered(target', TargetGone + 1)
        /\ Len(target') = Len(target) - 1
    BY <1>10, <1>a, NumberedTail DEF PopTarget
  <2>2. TargetGone' = TargetGone + 1 /\ PaintGone' = PaintGone
    BY <1>10, <2>1, <1>a DEF PopTarget
  <2> HIDE DEF TargetGone, PaintGone
  <2> QED  BY <1>0, <1>a, <1>10, <2>1, <2>2 DEF PopTarget
<1>11. CASE PopPaint
  <2>1. TargetGone' = TargetGone
    BY <1>11 DEF PopPaint
  <2>2. Numbered(paint', PaintGone')
    <3>1. CASE paint = << >>
      BY <1>11, <3>1 DEF PopPaint
    <3>2. CASE paint # << >>
      <4>1. Numbered(paint', PaintGone + 1) /\ Len(paint') = Len(paint) - 1
        BY <1>11, <1>a, <3>2, NumberedTail DEF PopPaint
      <4>2. PaintGone' = PaintGone + 1
        <5>1. PaintEnd' = PaintEnd
          BY <1>11, <1>b DEF PopPaint
        <5> HIDE DEF PaintEnd
        <5> QED  BY <1>a, <4>1, <5>1
      <4> HIDE DEF PaintGone
      <4> QED  BY <4>1, <4>2, <1>a
    <3> QED  BY <3>1, <3>2
  <2> HIDE DEF TargetGone, PaintGone
  <2> QED  BY <1>0, <1>11, <2>1, <2>2 DEF PopPaint
<1>12. CASE ClearTarget
  <2>1. Numbered(target', TargetGone') /\ TargetGone' >= TargetGone
    BY <1>12, <1>a, NumberedEmpty DEF ClearTarget
  <2>2. PaintGone' = PaintGone
    BY <1>12 DEF ClearTarget
  <2> HIDE DEF PaintGone
  <2> QED  BY <1>0, <1>12, <2>1, <2>2 DEF ClearTarget
<1>13. CASE ClearPaint
  <2>1. Numbered(paint', PaintGone')
    BY <1>13, <1>a, NumberedEmpty DEF ClearPaint
  <2> QED  BY <1>0, <1>13, <2>1 DEF ClearPaint
<1>14. CASE ClearLine
  BY <1>0, <1>14 DEF ClearLine
<1>15. ASSUME NEW c \in BOOLEAN, ReportLine(c) PROVE OrderInv'
  BY <1>0, <1>15 DEF ReportLine
<1>16. CASE NoLineToReport
  BY <1>0, <1>16 DEF NoLineToReport
<1>17. ASSUME NEW h \in BOOLEAN, SimulationAboutToStart(h) PROVE OrderInv'
  BY <1>0, <1>17 DEF SimulationAboutToStart
<1>18. CASE SimulationEnded
  BY <1>0, <1>18 DEF SimulationEnded
<1>19. CASE DrainTarget
  <2>1. Numbered(target', TargetGone') /\ (TargetGone' = TargetGone \/ TargetGone' = TargetGone + 1)
    <3>1. CASE target = << >>
      BY <1>19, <1>a, <3>1 DEF DrainTarget
    <3>2. CASE target # << >>
      <4>1. Numbered(target', TargetGone + 1) /\ Len(target') = Len(target) - 1
        BY <1>19, <1>a, <3>2, NumberedTail DEF DrainTarget
      <4>2. TargetGone' = TargetGone + 1
        <5>1. TargetEnd' = TargetEnd
          BY <1>19, <1>b DEF DrainTarget
        <5> HIDE DEF TargetEnd
        <5> QED  BY <1>a, <4>1, <5>1
      <4> HIDE DEF TargetGone
      <4> QED  BY <4>1, <4>2, <1>a
    <3> QED  BY <3>1, <3>2
  <2>2. PaintGone' = PaintGone
    BY <1>19 DEF DrainTarget
  <2>3. /\ cpc' # "popTarget" /\ cpc = "drainTarget" /\ sim' = sim /\ sim # "stopped"
        /\ paint' = paint /\ acted' = acted /\ acted.sample \in Nat
    BY <1>19 DEF DrainTarget
  <2>4. acted.sample <= TargetGone /\ TargetGone \in Int /\ Numbered(paint, PaintGone)
    BY <1>a, <2>3
  <2> HIDE DEF TargetGone, PaintGone, TypeInv, TypeOK
  <2>5. acted'.sample <= TargetGone' + 0 /\ TargetGone' + 0 = TargetGone'
    BY <2>1, <2>3, <2>4
  <2> QED  BY <1>0, <2>1, <2>2, <2>3, <2>4, <2>5
<1>20. CASE DrainPaint
  <2>1. TargetGone' = TargetGone
    BY <1>20 DEF DrainPaint
  <2>2. Numbered(paint', PaintGone')
    <3>1. CASE paint = << >>
      BY <1>20, <3>1 DEF DrainPaint
    <3>2. CASE paint # << >>
      <4>1. Numbered(paint', PaintGone + 1) /\ Len(paint') = Len(paint) - 1
        BY <1>20, <1>a, <3>2, NumberedTail DEF DrainPaint
      <4>2. PaintGone' = PaintGone + 1
        <5>1. PaintEnd' = PaintEnd
          BY <1>20, <1>b DEF DrainPaint
        <5> HIDE DEF PaintEnd
        <5> QED  BY <1>a, <4>1, <5>1
      <4> HIDE DEF PaintGone
      <4> QED  BY <4>1, <4>2, <1>a
    <3> QED  BY <3>1, <3>2
  <2> HIDE DEF TargetGone, PaintGone
  <2> QED  BY <1>0, <1>20, <2>1, <2>2 DEF DrainPaint
<1>21. CASE CancelSessions
  BY <1>0, <1>21 DEF CancelSessions
<1>22. CASE JoinServerThread
  BY <1>0, <1>22 DEF JoinServerThread
<1>23. CASE LuaInit
  <2>1. Numbered(target', TargetGone') /\ TargetGone' >= TargetGone
    BY <1>23, <1>a, NumberedEmpty DEF LuaInit
  <2>2. Numbered(paint', PaintGone')
    BY <1>23, <1>a, NumberedEmpty DEF LuaInit
  <2> QED  BY <1>0, <1>23, <2>1, <2>2 DEF LuaInit
<1>24. CASE UNCHANGED vars
  BY <1>0, <1>24 DEF vars
<1> QED
  BY <1>1, <1>2, <1>3, <1>4, <1>5, <1>6, <1>7, <1>8, <1>9, <1>10, <1>11, <1>12,
     <1>13, <1>14, <1>15, <1>16, <1>17, <1>18, <1>19, <1>20, <1>21, <1>22, <1>23, <1>24
     DEF Next, Push, Receive, Callback, Environment, Report, Write

(* The order invariant holds when the plugin is loaded.                    *)
LEMMA OrderInit == Init => OrderInv
<1> SUFFICES ASSUME Init PROVE OrderInv
  OBVIOUS
<1>1. Len(<< >>) = 0
  BY NumberedEmpty
<1>2. TargetGone = 0 /\ PaintGone = 0
  <2>1. TargetEnd = 0 /\ PaintEnd = 0
    BY DEF Init, TargetEnd, PaintEnd
  <2>2. Len(target) = 0 /\ Len(paint) = 0
    BY <1>1 DEF Init
  <2> QED  BY <2>1, <2>2 DEF TargetGone, PaintGone
<1>3. Numbered(target, TargetGone) /\ Numbered(paint, PaintGone)
  BY <1>2, NumberedEmpty DEF Init
<1> QED
  BY <1>2, <1>3, TypeInit DEF Init, OrderInv

(* Samples are written in the order they were made, and none twice: this   *)
(* survives queues emptied under a command, failed writes and restarts.    *)
THEOREM WritesInOrder == Spec => NeverReplays
<1>1. OrderInv /\ [Next]_vars => [acted' # acted => acted'.sample > acted.sample]_vars
  <2> SUFFICES ASSUME OrderInv, Next, acted' # acted
               PROVE  acted'.sample > acted.sample
    OBVIOUS
  <2>1. WriteSucceeds
    BY DEF Next, Push, Receive, Callback, Environment, Report, Write, historyVars, producerVars,
       ReceiveMotion, ReceiveMotionless, PushTarget, PushPaint, PushLine, BeginTick,
       ReadPaint, WriteFails, PopTarget, PopPaint, ClearTarget, ClearPaint, ClearLine,
       ReportLine, NoLineToReport, SimulationAboutToStart, SimulationEnded, DrainTarget,
       DrainPaint, CancelSessions, JoinServerThread, LuaInit
  <2>2. TargetGone \in Int /\ acted.sample \in Nat /\ target \in Seq(Nat)
    BY DEF OrderInv, TypeInv, TypeOK, TargetGone, TargetEnd
  <2>3. acted.sample <= TargetGone
    BY <2>1, <2>2 DEF OrderInv, WriteSucceeds
  <2>4. Head(target) = TargetGone + 1
    BY <2>1, <2>2, NumberedTail DEF OrderInv, WriteSucceeds
  <2>5. acted'.sample = Head(target)
    BY <2>1 DEF WriteSucceeds
  <2> QED  BY <2>2, <2>3, <2>4, <2>5
<1> QED
  BY <1>1, OrderInit, OrderInvStep, PTL DEF Spec, NeverReplays

-----------------------------------------------------------------------------
(***************************************************************************)
(* What the end of a simulation leaves, also when a command is enqueued in *)
(* the meantime.  The numbers that have left a queue only grow, and both   *)
(* queues are seen empty after late has been noted.                        *)
(***************************************************************************)
NextSample == IF ppc = "idle" THEN issued + 1 ELSE issued

LateInv ==
  /\ late <= NextSample
  /\ cpc \in {"drainPaint", "cancel", "join"} \/ sim = "stopped" => late <= TargetGone + 1
  /\ cpc \in {"cancel", "join"} \/ sim = "stopped" => late <= PaintGone + 1

(* A step that adds one sample or none to the target queue removes none.   *)
LEMMA GoneUnchanged ==
  ASSUME OrderInv,
         \/ \E l \in Lines : \/ \E n \in 1 .. MaxBatch : ReceiveMotion(n, l)
                             \/ ReceiveMotionless(l)
         \/ PushTarget \/ PushPaint \/ PushLine
         \/ UNCHANGED <<target, paint, producerVars>>
  PROVE  TargetGone' = TargetGone /\ PaintGone' = PaintGone
<1> USE DEF OrderInv, TypeInv, TypeOK, TargetGone, PaintGone, TargetEnd, PaintEnd, producerVars
<1>1. ASSUME NEW l \in Lines, NEW n \in 1 .. MaxBatch, ReceiveMotion(n, l)
      PROVE  TargetGone' = TargetGone /\ PaintGone' = PaintGone
  BY <1>1 DEF ReceiveMotion
<1>2. ASSUME NEW l \in Lines, ReceiveMotionless(l)
      PROVE  TargetGone' = TargetGone /\ PaintGone' = PaintGone
  BY <1>2 DEF ReceiveMotionless
<1>3. CASE PushTarget
  <2>1. Len(target') = Len(target) + 1 /\ Len(target) \in Nat
    BY <1>3 DEF PushTarget
  <2> QED  BY <1>3, <2>1 DEF PushTarget
<1>4. CASE PushPaint
  <2>1. Len(paint') = Len(paint) + 1 /\ Len(paint) \in Nat
    BY <1>4 DEF PushPaint
  <2> QED  BY <1>4, <2>1 DEF PushPaint
<1>5. CASE PushLine
  <2>1. target' = target /\ paint' = paint
    BY <1>5 DEF PushLine
  <2>2. TargetEnd' = TargetEnd /\ PaintEnd' = PaintEnd
    <3>1. CASE todo = 1   BY <1>5, <3>1 DEF PushLine
    <3>2. CASE todo # 1   BY <1>5, <3>2 DEF PushLine
    <3> QED  BY <3>1, <3>2
  <2> HIDE DEF TargetEnd, PaintEnd
  <2> QED  BY <2>1, <2>2
<1>6. CASE UNCHANGED <<target, paint, producerVars>>
  BY <1>6
<1> QED
  BY <1>1, <1>2, <1>3, <1>4, <1>5, <1>6

(* The numbers these speak of are integers.                                *)
LEMMA GoneTypes ==
  ASSUME OrderInv
  PROVE  /\ TargetEnd \in Int /\ PaintEnd \in Int /\ NextSample \in Int
         /\ Len(target) \in Nat /\ Len(paint) \in Nat
         /\ TargetGone \in Int /\ PaintGone \in Int
<1>1. issued \in Int /\ target \in Seq(Nat) /\ paint \in Seq(Nat)
  BY DEF OrderInv, TypeInv, TypeOK
<1>2. TargetEnd \in Int /\ PaintEnd \in Int /\ NextSample \in Int
  BY <1>1 DEF TargetEnd, PaintEnd, NextSample
<1>3. Len(target) \in Nat /\ Len(paint) \in Nat
  BY <1>1
<1> QED  BY <1>2, <1>3 DEF TargetGone, PaintGone

(* An empty queue has lost all samples that were ever pushed.              *)
LEMMA GoneWhenEmpty ==
  ASSUME OrderInv
  PROVE  /\ target = << >> => NextSample <= TargetGone + 1
         /\ paint = << >> => NextSample <= PaintGone + 1
<1>1. NextSample <= TargetEnd + 1 /\ NextSample <= PaintEnd + 1
  BY DEF OrderInv, TypeInv, TypeOK, TargetEnd, PaintEnd, NextSample
<1>2. Len(<< >>) = 0
  BY EmptySeq
<1> QED  BY <1>1, <1>2, GoneTypes DEF TargetGone, PaintGone

(* A queue that is left alone, popped or cleared is not longer than before.*)
LEMMA NotLonger ==
  ASSUME NEW q \in Seq(Nat), NEW r, r = q \/ r = << >> \/ (q # << >> /\ r = Tail(q))
  PROVE  Len(r) <= Len(q)
<1>1. CASE r = q      BY <1>1
<1>2. CASE r = << >>  BY <1>2, NumberedEmpty
<1>3. CASE q # << >> /\ r = Tail(q)  BY <1>3
<1> QED  BY <1>1, <1>2, <1>3

(* No step gives a number back to a queue or to the commands to come.      *)
LEMMA GoneGrows ==
  ASSUME OrderInv, OrderInv', [Next]_vars
  PROVE  TargetGone <= TargetGone' /\ PaintGone <= PaintGone' /\ NextSample <= NextSample'
<1> DEFINE Popped(q, r) == r = q \/ r = << >> \/ (q # << >> /\ r = Tail(q))
<1>0. /\ target \in Seq(Nat) /\ paint \in Seq(Nat) /\ issued \in Nat
      /\ target' \in Seq(Nat) /\ paint' \in Seq(Nat)
  BY DEF OrderInv, TypeInv, TypeOK
<1>a. /\ TargetGone \in Int /\ PaintGone \in Int /\ NextSample \in Int
      /\ TargetEnd \in Int /\ PaintEnd \in Int
      /\ Len(target) \in Nat /\ Len(paint) \in Nat
      /\ Len(target') \in Nat /\ Len(paint') \in Nat
  BY <1>0, GoneTypes
<1>1. ASSUME TargetGone' = TargetGone, PaintGone' = PaintGone, NextSample <= NextSample'
      PROVE  TargetGone <= TargetGone' /\ PaintGone <= PaintGone' /\ NextSample <= NextSample'
  BY <1>a, <1>1
<1>2. CASE Push \/ Receive
  <2>1. TargetGone' = TargetGone /\ PaintGone' = PaintGone
    BY <1>2, GoneUnchanged DEF Push, Receive
  <2>2. NextSample <= NextSample'
    <3>1. CASE PushTarget \/ PushPaint
      BY <1>0, <3>1 DEF PushTarget, PushPaint, NextSample
    <3>2. CASE PushLine
      <4>1. CASE todo = 1   BY <1>0, <3>2, <4>1 DEF PushLine, NextSample
      <4>2. CASE todo # 1   BY <1>0, <3>2, <4>2 DEF PushLine, NextSample
      <4> QED  BY <4>1, <4>2
    <3>3. ASSUME NEW l \in Lines, ReceiveMotionless(l) PROVE NextSample <= NextSample'
      BY <1>0, <3>3 DEF ReceiveMotionless, NextSample, producerVars
    <3>4. ASSUME NEW l \in Lines, NEW n \in 1 .. MaxBatch, ReceiveMotion(n, l)
          PROVE  NextSample <= NextSample'
      BY <1>0, <3>4 DEF ReceiveMotion, NextSample
    <3> QED  BY <1>2, <3>1, <3>2, <3>3, <3>4 DEF Push, Receive
  <2> QED  BY <1>1, <2>1, <2>2
<1>3. ASSUME UNCHANGED producerVars, Popped(target, target'), Popped(paint, paint')
      PROVE  TargetGone <= TargetGone' /\ PaintGone <= PaintGone' /\ NextSample <= NextSample'
  <2>1. Len(target') <= Len(target) /\ Len(paint') <= Len(paint)
    BY <1>0, <1>3, NotLonger
  <2>2. TargetEnd' = TargetEnd /\ PaintEnd' = PaintEnd /\ NextSample' = NextSample
    BY <1>3 DEF TargetEnd, PaintEnd, NextSample, producerVars
  <2> QED  BY <1>a, <2>1, <2>2 DEF TargetGone, PaintGone
<1>4. CASE \/ BeginTick \/ ReadPaint \/ Write \/ ClearLine \/ NoLineToReport
           \/ SimulationEnded \/ CancelSessions \/ JoinServerThread \/ UNCHANGED vars
  <2>1. UNCHANGED <<producerVars, target, paint>>
    BY <1>4 DEF BeginTick, ReadPaint, Write, WriteSucceeds, WriteFails, ClearLine,
       NoLineToReport, SimulationEnded, CancelSessions, JoinServerThread, vars, producerVars
  <2> QED  BY <1>3, <2>1
<1>5. ASSUME NEW c \in BOOLEAN, ReportLine(c) \/ SimulationAboutToStart(c)
      PROVE  TargetGone <= TargetGone' /\ PaintGone <= PaintGone' /\ NextSample <= NextSample'
  <2>1. UNCHANGED <<producerVars, target, paint>>
    BY <1>5 DEF ReportLine, SimulationAboutToStart
  <2> QED  BY <1>3, <2>1
<1>6. CASE \/ PopTarget \/ PopPaint \/ ClearTarget \/ ClearPaint \/ DrainTarget \/ DrainPaint
           \/ LuaInit
  <2>1. UNCHANGED producerVars /\ Popped(target, target') /\ Popped(paint, paint')
    BY <1>6 DEF PopTarget, PopPaint, ClearTarget, ClearPaint, DrainTarget, DrainPaint, LuaInit
  <2> HIDE DEF Popped
  <2> QED  BY <1>3, <2>1
<1> QED
  BY <1>2, <1>4, <1>5, <1>6 DEF Next, Callback, Environment, Report

(* Every step keeps late behind what has left the queues.                  *)
LEMMA LateStep ==
  ASSUME OrderInv, OrderInv', LateInv, [Next]_vars
  PROVE  LateInv'
<1>0. /\ TargetGone \in Int /\ PaintGone \in Int /\ NextSample \in Int /\ late \in Int
      /\ TargetGone' \in Int /\ PaintGone' \in Int /\ NextSample' \in Int /\ late' \in Int
  <2>1. late \in Int /\ late' \in Int
    BY DEF OrderInv, TypeInv, TypeOK
  <2>2. OrderInv => TargetGone \in Int /\ PaintGone \in Int /\ NextSample \in Int
    BY GoneTypes
  <2>3. TargetGone' \in Int /\ PaintGone' \in Int /\ NextSample' \in Int
    <3>1. issued' \in Int /\ Len(target') \in Int /\ Len(paint') \in Int
      <4>1. issued' \in Int /\ target' \in Seq(Nat) /\ paint' \in Seq(Nat)
        BY DEF OrderInv, TypeInv, TypeOK
      <4> QED  BY <4>1
    <3> QED  BY <3>1 DEF TargetGone, PaintGone, TargetEnd, PaintEnd, NextSample
  <2> QED  BY <2>1, <2>2, <2>3
<1>a. /\ \A n \in Int : n <= TargetGone + 1 => n <= TargetGone' + 1
      /\ \A n \in Int : n <= PaintGone + 1 => n <= PaintGone' + 1
      /\ \A n \in Int : n <= NextSample => n <= NextSample'
  <2>1. TargetGone <= TargetGone' /\ PaintGone <= PaintGone' /\ NextSample <= NextSample'
    BY GoneGrows
  <2> DEFINE t == TargetGone
             tn == TargetGone'
             p == PaintGone
             pn == PaintGone'
             x == NextSample
             xn == NextSample'
  <2>2. t \in Int /\ tn \in Int /\ p \in Int /\ pn \in Int /\ x \in Int /\ xn \in Int
        /\ t <= tn /\ p <= pn /\ x <= xn
    BY <1>0, <2>1
  <2> HIDE DEF t, tn, p, pn, x, xn
  <2>3. /\ \A n \in Int : n <= t + 1 => n <= tn + 1
        /\ \A n \in Int : n <= p + 1 => n <= pn + 1
        /\ \A n \in Int : n <= x => n <= xn
    BY <2>2
  <2> QED  BY <2>3 DEF t, tn, p, pn, x, xn
<1>b. sim = "stopped" => cpc = "rest"
  BY DEF OrderInv
<1>1. CASE SimulationEnded
  <2>1. late' = NextSample /\ NextSample' = NextSample /\ cpc' = "drainTarget"
        /\ sim' = "running"
    BY <1>1 DEF SimulationEnded, NextSample, producerVars
  <2> QED  BY <1>0, <2>1 DEF LateInv
<1>2. CASE DrainTarget
  <2>1. late' = late /\ sim' = sim /\ sim # "stopped" /\ cpc = "drainTarget"
        /\ cpc' \in {"drainTarget", "drainPaint"}
    BY <1>2, <1>b DEF DrainTarget, historyVars
  <2>2. cpc' = "drainPaint" => target = << >>
    BY <1>2 DEF DrainTarget
  <2>3. target = << >> => late <= TargetGone + 1
    BY <1>0, GoneWhenEmpty DEF LateInv
  <2> QED  BY <1>0, <1>a, <2>1, <2>2, <2>3 DEF LateInv
<1>3. CASE DrainPaint
  <2>1. late' = late /\ sim' = sim /\ sim # "stopped" /\ cpc = "drainPaint"
        /\ cpc' \in {"drainPaint", "cancel"}
    BY <1>3, <1>b DEF DrainPaint, historyVars
  <2>2. cpc' = "cancel" => paint = << >>
    BY <1>3 DEF DrainPaint
  <2>3. paint = << >> => late <= PaintGone + 1
    BY <1>0, GoneWhenEmpty DEF LateInv
  <2> QED  BY <1>0, <1>a, <2>1, <2>2, <2>3 DEF LateInv
<1>4. ASSUME late' = late,
             \/ sim' = sim /\ cpc' = cpc
             \/ sim' = "running" /\ cpc' \notin {"drainPaint", "cancel", "join"}
             \/ cpc = "cancel" /\ cpc' = "join" /\ sim' = sim
             \/ cpc = "join" /\ cpc' = "rest"
      PROVE  LateInv'
  BY <1>0, <1>a, <1>4 DEF LateInv
<1>5. ASSUME NEW l \in Lines, ReceiveMotionless(l) \/ \E n \in 1 .. MaxBatch : ReceiveMotion(n, l)
      PROVE  late' = late /\ sim' = sim /\ cpc' = cpc
  BY <1>5 DEF ReceiveMotionless, ReceiveMotion, historyVars
<1>6. CASE Push \/ LuaInit \/ UNCHANGED vars
  <2>1. late' = late /\ sim' = sim /\ cpc' = cpc
    BY <1>6 DEF Push, PushTarget, PushPaint, PushLine, LuaInit, vars, historyVars
  <2> QED  BY <1>4, <2>1
<1>7. ASSUME NEW h \in BOOLEAN, SimulationAboutToStart(h)
      PROVE  late' = late /\ sim' = "running" /\ cpc' = "rest"
  BY <1>7, <1>b DEF SimulationAboutToStart, historyVars
<1>8. CASE \/ BeginTick \/ ReadPaint \/ Write \/ PopTarget \/ PopPaint
           \/ ClearTarget \/ ClearPaint \/ ClearLine \/ NoLineToReport
  <2>1. sim = "running"
    BY <1>8, <1>b DEF BeginTick, ReadPaint, Write, WriteSucceeds, WriteFails, PopTarget, PopPaint,
       ClearTarget, ClearPaint, ClearLine, NoLineToReport, OrderInv, TypeInv, TypeOK
  <2>2. late' = late /\ sim' = sim /\ cpc' \notin {"drainPaint", "cancel", "join"}
    BY <1>8 DEF BeginTick, ReadPaint, Write, WriteSucceeds, WriteFails, PopTarget, PopPaint,
       ClearTarget, ClearPaint, ClearLine, NoLineToReport, historyVars
  <2> QED  BY <1>4, <2>1, <2>2
<1>9. ASSUME NEW c \in BOOLEAN, ReportLine(c)
      PROVE  late' = late /\ sim' = "running" /\ cpc' = "rest"
  BY <1>9, <1>b DEF ReportLine, OrderInv, TypeInv, TypeOK
<1>10. CASE CancelSessions \/ JoinServerThread
  <2>1. late' = late /\ \/ cpc = "cancel" /\ cpc' = "join" /\ sim' = sim
                        \/ cpc = "join" /\ cpc' = "rest"
    BY <1>10 DEF CancelSessions, JoinServerThread, historyVars
  <2> QED  BY <1>4, <2>1
<1> QED
  BY <1>1, <1>2, <1>3, <1>4, <1>5, <1>6, <1>7, <1>8, <1>9, <1>10
  DEF Next, Receive, Callback, Environment, Report

(* Whatever is enqueued while a simulation ends: of the samples that were  *)
(* on the queues when it began to end, none is left for the next one.      *)
THEOREM OldSamplesDrainedHolds == Spec => []OldSamplesDrained
<1>1. Init => LateInv
  <2> SUFFICES ASSUME Init PROVE LateInv
    OBVIOUS
  <2>1. OrderInv /\ target = << >> /\ paint = << >> /\ TargetEnd = 0 /\ PaintEnd = 0
    BY OrderInit DEF Init, TargetEnd, PaintEnd
  <2> QED  BY <2>1, GoneWhenEmpty DEF Init, LateInv, NextSample
<1>2. OrderInv /\ LateInv => OldSamplesDrained
  <2> SUFFICES ASSUME OrderInv, LateInv, sim = "stopped"
               PROVE  /\ \A i \in DOMAIN target : target[i] >= late
                      /\ \A i \in DOMAIN paint : paint[i] >= late
    BY DEF OldSamplesDrained
  <2>1. /\ TargetGone \in Int /\ PaintGone \in Int /\ late \in Nat
        /\ DOMAIN target = 1 .. Len(target) /\ DOMAIN paint = 1 .. Len(paint)
    BY DEF OrderInv, TypeInv, TypeOK, TargetGone, PaintGone, TargetEnd, PaintEnd
  <2> QED  BY <2>1 DEF OrderInv, Numbered, LateInv
<1>3. OrderInv /\ LateInv /\ [Next]_vars => OrderInv' /\ LateInv'
  BY OrderInvStep, LateStep
<1> QED  BY <1>1, <1>2, <1>3, OrderInit, PTL DEF Spec

-----------------------------------------------------------------------------
(***************************************************************************)
(* The quiet client: as long as no queue was emptied while a command was   *)
(* enqueued, the two sample queues stay aligned, and every write takes the *)
(* target and the paint of one sample.                                     *)
(***************************************************************************)

(* What both threads know at each place of the callback.                   *)
QuietControl ==
  /\ cpc \in Emptying \cup {"join"} => ppc = "idle"
  /\ cpc = "join" => server # "up"
  /\ sim = "stopped" => server # "up" /\ ppc = "idle" /\ target = << >> /\ paint = << >>
  /\ cpc \in {"paint", "write", "popTarget"} => target # << >>
  /\ cpc \in {"write", "popTarget", "popPaint"} => paint # << >>
  /\ cpc = "write" => current = Head(paint)
  /\ cpc \in {"clearPaint", "clearLine", "drainPaint", "cancel", "join"} => target = << >>
  /\ cpc \in {"cancel", "join"} => paint = << >>

(* The queues have lost the same samples, but for a pop half done.         *)
Aligned ==
  IF cpc = "popPaint"
  THEN TargetGone = PaintGone + 1
  ELSE cpc \notin {"clearPaint", "drainTarget", "drainPaint"} => TargetGone = PaintGone

QuietInv == OrderInv /\ QuietControl /\ Aligned /\ PairedActuation

(* Every step of a quiet client keeps the two threads out of each other's  *)
(* way while queues are emptied.                                           *)
LEMMA QuietControlStep ==
  ASSUME QuietInv, [Next]_vars, ~overlapped'
  PROVE  QuietControl'
<1> USE DEF QuietInv, QuietControl, OrderInv, TypeInv, TypeOK, Emptying, producerVars, historyVars
<1>0. TypeInv'
  BY TypeInvStep
<1>1. ASSUME NEW n \in 1 .. MaxBatch, NEW l \in Lines, ReceiveMotion(n, l) PROVE QuietControl'
  BY <1>1 DEF ReceiveMotion
<1>2. ASSUME NEW l \in Lines, ReceiveMotionless(l) PROVE QuietControl'
  BY <1>2 DEF ReceiveMotionless
<1>3. CASE PushTarget
  <2>1. target' # << >>
    <3>1. target \in Seq(Nat) /\ issued \in Nat
      OBVIOUS
    <3>2. target' = Append(target, issued)
      BY <1>3 DEF PushTarget
    <3> HIDE DEF TypeOK, TypeInv, OrderInv
    <3>3. Len(Append(target, issued)) = Len(target) + 1 /\ Len(target) \in Nat
      BY <3>1
    <3>4. Len(<< >>) = 0
      BY EmptySeq
    <3> QED  BY <3>2, <3>3, <3>4
  <2> QED  BY <1>3, <2>1 DEF PushTarget
<1>4. CASE PushPaint
  <2>1. paint' # << >> /\ (paint # << >> => Head(paint') = Head(paint))
    <3>1. paint \in Seq(Nat) /\ issued \in Nat
      OBVIOUS
    <3>2. paint' = Append(paint, issued)
      BY <1>4 DEF PushPaint
    <3> HIDE DEF TypeOK, TypeInv, OrderInv, QuietInv, QuietControl
    <3>3. Len(Append(paint, issued)) = Len(paint) + 1 /\ Len(paint) \in Nat
      BY <3>1
    <3>4. Len(<< >>) = 0
      BY EmptySeq
    <3>5. paint # << >> => Head(Append(paint, issued)) = Head(paint)
      BY <3>1
    <3> QED  BY <3>2, <3>3, <3>4, <3>5
  <2> QED  BY <1>4, <2>1 DEF PushPaint
<1>5. CASE PushLine    BY <1>5 DEF PushLine
<1>6. CASE BeginTick   BY <1>6 DEF BeginTick
<1>7. CASE ReadPaint   BY <1>7 DEF ReadPaint
<1>8. CASE WriteSucceeds  BY <1>8 DEF WriteSucceeds
<1>9. CASE WriteFails  BY <1>9 DEF WriteFails
<1>10. CASE PopTarget  BY <1>10 DEF PopTarget
<1>11. CASE PopPaint   BY <1>11 DEF PopPaint
<1>12. CASE ClearTarget  BY <1>12 DEF ClearTarget
<1>13. CASE ClearPaint BY <1>13 DEF ClearPaint
<1>14. CASE ClearLine  BY <1>14 DEF ClearLine
<1>15. ASSUME NEW c \in BOOLEAN, ReportLine(c) PROVE QuietControl'
  BY <1>15 DEF ReportLine
<1>16. CASE NoLineToReport  BY <1>16 DEF NoLineToReport
<1>17. ASSUME NEW h \in BOOLEAN, SimulationAboutToStart(h) PROVE QuietControl'
  BY <1>17 DEF SimulationAboutToStart
<1>18. CASE SimulationEnded  BY <1>18 DEF SimulationEnded
<1>19. CASE DrainTarget  BY <1>19 DEF DrainTarget
<1>20. CASE DrainPaint BY <1>20 DEF DrainPaint
<1>21. CASE CancelSessions  BY <1>21 DEF CancelSessions
<1>22. CASE JoinServerThread  BY <1>22 DEF JoinServerThread
<1>23. CASE LuaInit    BY <1>23 DEF LuaInit
<1>24. CASE UNCHANGED vars  BY <1>24 DEF vars
<1> QED
  BY <1>1, <1>2, <1>3, <1>4, <1>5, <1>6, <1>7, <1>8, <1>9, <1>10, <1>11, <1>12,
     <1>13, <1>14, <1>15, <1>16, <1>17, <1>18, <1>19, <1>20, <1>21, <1>22, <1>23, <1>24
     DEF Next, Push, Receive, Callback, Environment, Report, Write

(* Every step of a quiet client keeps the target and the paint queue       *)
(* aligned, up to the element one of the threads is about to move.         *)
LEMMA AlignedStep ==
  ASSUME QuietInv, [Next]_vars, ~overlapped'
  PROVE  Aligned'
<1>0. /\ OrderInv' /\ QuietControl' /\ OrderInv /\ QuietControl /\ Aligned
      /\ TargetEnd \in Int /\ PaintEnd \in Int
      /\ TargetGone \in Int /\ PaintGone \in Int
      /\ target \in Seq(Nat) /\ paint \in Seq(Nat)
  <2>1. OrderInv' /\ QuietControl' /\ OrderInv /\ QuietControl /\ Aligned
    BY OrderInvStep, QuietControlStep DEF QuietInv
  <2>2. target \in Seq(Nat) /\ paint \in Seq(Nat) /\ issued \in Nat
    BY <2>1 DEF OrderInv, TypeInv, TypeOK
  <2> QED  BY <2>1, <2>2 DEF TargetGone, PaintGone, TargetEnd, PaintEnd
<1>a. ASSUME cpc' \in {"clearPaint", "drainTarget", "drainPaint"} PROVE Aligned'
  BY <1>a DEF Aligned
<1>b. ASSUME TargetGone' = TargetGone, PaintGone' = PaintGone,
             cpc' = cpc \/ (cpc # "popPaint" /\ cpc' # "popPaint"
                            /\ cpc \notin {"clearPaint", "drainTarget", "drainPaint"})
      PROVE  Aligned'
  BY <1>0, <1>b DEF Aligned
<1>1. ASSUME NEW n \in 1 .. MaxBatch, NEW l \in Lines, ReceiveMotion(n, l) PROVE Aligned'
  <2>1. TargetGone' = TargetGone /\ PaintGone' = PaintGone
    BY <1>0, <1>1, GoneUnchanged
  <2> QED  BY <1>b, <1>1, <2>1 DEF ReceiveMotion
<1>2. ASSUME NEW l \in Lines, ReceiveMotionless(l) PROVE Aligned'
  <2>1. TargetGone' = TargetGone /\ PaintGone' = PaintGone
    BY <1>0, <1>2, GoneUnchanged
  <2> QED  BY <1>b, <1>2, <2>1 DEF ReceiveMotionless
<1>3. CASE Push
  <2>1. TargetGone' = TargetGone /\ PaintGone' = PaintGone
    BY <1>0, <1>3, GoneUnchanged DEF Push
  <2> QED  BY <1>b, <1>3, <2>1 DEF Push, PushTarget, PushPaint, PushLine
<1>4. CASE BeginTick \/ ReadPaint \/ WriteSucceeds \/ WriteFails \/ ClearLine \/ NoLineToReport
  <2>2. UNCHANGED <<target, paint, producerVars>>
    BY <1>4 DEF BeginTick, ReadPaint, WriteSucceeds, WriteFails, ClearLine, NoLineToReport
  <2>3. cpc \notin {"popPaint", "clearPaint", "drainTarget", "drainPaint"} /\ cpc' # "popPaint"
    BY <1>4 DEF BeginTick, ReadPaint, WriteSucceeds, WriteFails, ClearLine, NoLineToReport
  <2>4. TargetGone' = TargetGone /\ PaintGone' = PaintGone
    BY <1>0, <2>2, GoneUnchanged
  <2> QED  BY <1>b, <2>3, <2>4
<1>5. ASSUME NEW c \in BOOLEAN, ReportLine(c) PROVE Aligned'
  <2>1. TargetGone' = TargetGone /\ PaintGone' = PaintGone
    BY <1>0, <1>5, GoneUnchanged DEF ReportLine
  <2> QED  BY <1>b, <1>5, <2>1 DEF ReportLine
<1>6. CASE PopTarget
  <2>1. target # << >>
    BY <1>0, <1>6 DEF PopTarget, QuietControl
  <2>2. Len(target') = Len(target) - 1 /\ Len(target) \in Nat
    BY <1>0, <1>6, <2>1 DEF PopTarget
  <2>3. TargetEnd' = TargetEnd /\ PaintGone' = PaintGone
    BY <1>6 DEF PopTarget, producerVars, TargetEnd, PaintGone, PaintEnd
  <2>4. TargetGone = PaintGone
    BY <1>0, <1>6 DEF Aligned, PopTarget
  <2>5. TargetGone' = TargetGone + 1
    BY <1>0, <2>2, <2>3 DEF TargetGone
  <2> QED  BY <1>0, <1>6, <2>3, <2>4, <2>5 DEF Aligned, PopTarget
<1>7. CASE PopPaint
  <2>1. paint # << >>
    BY <1>0, <1>7 DEF PopPaint, QuietControl
  <2>2. Len(paint') = Len(paint) - 1 /\ Len(paint) \in Nat
    BY <1>0, <1>7, <2>1 DEF PopPaint
  <2>3. PaintEnd' = PaintEnd /\ TargetGone' = TargetGone
    BY <1>7 DEF PopPaint, producerVars, PaintEnd, TargetGone, TargetEnd
  <2>4. TargetGone = PaintGone + 1
    BY <1>0, <1>7 DEF Aligned, PopPaint
  <2>5. PaintGone' = PaintGone + 1
    BY <1>0, <2>2, <2>3 DEF PaintGone
  <2> QED  BY <1>0, <1>7, <2>3, <2>4, <2>5 DEF Aligned, PopPaint
<1>8. CASE ClearTarget \/ DrainTarget \/ SimulationEnded
  BY <1>8, <1>a DEF ClearTarget, DrainTarget, SimulationEnded
<1>9. ASSUME ppc' = "idle", target' = << >>, paint' = << >>, cpc' # "popPaint"
      PROVE  Aligned'
  <2>1. TargetGone' = PaintGone' /\ PaintGone' \in Int
    <3>1. Len(<< >>) = 0
      BY NumberedEmpty
    <3>2. issued' \in Nat
      BY <1>0 DEF OrderInv, TypeInv, TypeOK
    <3>3. TargetEnd' = issued' /\ PaintEnd' = issued'
      BY <1>9 DEF TargetEnd, PaintEnd
    <3>4. Len(target') = 0 /\ Len(paint') = 0
      BY <1>9, <3>1
    <3>5. TargetGone' = issued' - 0 /\ PaintGone' = issued' - 0
      BY <3>3, <3>4 DEF TargetGone, PaintGone
    <3> QED  BY <3>2, <3>5
  <2>2. cpc' # "popPaint"
    BY <1>9
  <2> QED  BY <2>1, <2>2 DEF Aligned
<1>10. CASE ClearPaint
  <2>1. target = << >> /\ ppc = "idle"
    BY <1>0, <1>10 DEF ClearPaint, QuietControl, Emptying
  <2> QED  BY <1>9, <1>10, <2>1 DEF ClearPaint, producerVars
<1>11. CASE DrainPaint
  <2>1. target = << >> /\ ppc = "idle"
    BY <1>0, <1>11 DEF DrainPaint, QuietControl, Emptying
  <2>2. CASE paint = << >>
    BY <1>9, <1>11, <2>1, <2>2 DEF DrainPaint, producerVars
  <2>3. CASE paint # << >>
    BY <1>a, <1>11, <2>3 DEF DrainPaint
  <2> QED  BY <2>2, <2>3
<1>12. CASE CancelSessions \/ JoinServerThread
  <2>1. target = << >> /\ paint = << >> /\ ppc = "idle"
    BY <1>0, <1>12 DEF CancelSessions, JoinServerThread, QuietControl, Emptying
  <2> QED  BY <1>9, <1>12, <2>1 DEF CancelSessions, JoinServerThread, producerVars
<1>13. ASSUME NEW h \in BOOLEAN, SimulationAboutToStart(h) PROVE Aligned'
  <2>1. TargetGone' = TargetGone /\ PaintGone' = PaintGone
    BY <1>0, <1>13, GoneUnchanged DEF SimulationAboutToStart
  <2> QED  BY <1>b, <1>13, <2>1 DEF SimulationAboutToStart
<1>14. CASE LuaInit
  <2>1. ppc = "idle" /\ cpc = "rest"
    BY <1>0, <1>14 DEF LuaInit, QuietControl, OrderInv
  <2> QED  BY <1>9, <1>14, <2>1 DEF LuaInit, producerVars
<1>15. CASE UNCHANGED vars
  <2>1. TargetGone' = TargetGone /\ PaintGone' = PaintGone
    BY <1>0, <1>15, GoneUnchanged DEF vars, producerVars
  <2> QED  BY <1>b, <1>15, <2>1 DEF vars
<1> QED
  BY <1>1, <1>2, <1>3, <1>4, <1>5, <1>6, <1>7, <1>8, <1>10, <1>11, <1>12, <1>13, <1>14, <1>15
     DEF Next, Receive, Callback, Environment, Report, Write

(* The write takes the target and the paint of the same sample.            *)
LEMMA QuietWrite ==
  ASSUME QuietInv, WriteSucceeds
  PROVE  current = Head(target)
<1>1. OrderInv /\ QuietControl /\ Aligned /\ cpc = "write" /\ target # << >>
  BY DEF QuietInv, WriteSucceeds
<1>2. target \in Seq(Nat) /\ paint \in Seq(Nat) /\ issued \in Nat
  BY <1>1 DEF OrderInv, TypeInv, TypeOK
<1>3. TargetGone \in Int /\ PaintGone \in Int
  BY <1>2 DEF TargetGone, PaintGone, TargetEnd, PaintEnd
<1>4. paint # << >> /\ current = Head(paint)
  BY <1>1 DEF QuietControl
<1>5. Head(target) = TargetGone + 1 /\ Head(paint) = PaintGone + 1
  BY <1>1, <1>2, <1>3, <1>4, NumberedTail DEF OrderInv
<1>6. TargetGone = PaintGone
  BY <1>1, <1>3 DEF Aligned
<1> QED
  BY <1>4, <1>5, <1>6

(* Every step of a quiet client keeps the whole inductive invariant.       *)
LEMMA QuietInvStep ==
  ASSUME QuietInv, [Next]_vars, ~overlapped'
  PROVE  QuietInv'
<1>1. OrderInv' /\ QuietControl' /\ Aligned'
  BY OrderInvStep, QuietControlStep, AlignedStep DEF QuietInv
<1>2. PairedActuation'
  <2>1. CASE WriteSucceeds
    <3>1. acted' = [sample |-> Head(target), paint |-> Head(target)]
      BY <2>1, QuietWrite DEF WriteSucceeds
    <3> QED  BY <3>1 DEF PairedActuation
  <2>2. CASE ~WriteSucceeds
    <3>1. acted' = acted
      BY <2>2 DEF Next, Push, Receive, Callback, Environment, Report, Write, historyVars,
         producerVars, ReceiveMotion, ReceiveMotionless, PushTarget, PushPaint, PushLine,
         BeginTick, ReadPaint, WriteFails, PopTarget, PopPaint, ClearTarget, ClearPaint,
         ClearLine, ReportLine, NoLineToReport, SimulationAboutToStart, SimulationEnded,
         DrainTarget, DrainPaint, CancelSessions, JoinServerThread, LuaInit, vars
    <3> QED  BY <3>1 DEF QuietInv, PairedActuation
  <2> QED  BY <2>1, <2>2
<1> QED
  BY <1>1, <1>2 DEF QuietInv

(* The inductive invariant holds when the plugin is loaded.                *)
LEMMA QuietInit == Init => QuietInv
<1> SUFFICES ASSUME Init PROVE QuietInv
  OBVIOUS
<1>1. QuietControl /\ PairedActuation
  BY DEF Init, QuietControl, PairedActuation, Emptying
<1>2. Aligned
  <2>1. Len(<< >>) = 0
    BY NumberedEmpty
  <2>2. TargetEnd = 0 /\ PaintEnd = 0 /\ Len(target) = 0 /\ Len(paint) = 0
    BY <2>1 DEF Init, TargetEnd, PaintEnd
  <2>3. TargetGone = 0 /\ PaintGone = 0
    BY <2>2 DEF TargetGone, PaintGone
  <2> QED  BY <2>3 DEF Aligned, Init
<1> QED
  BY <1>1, <1>2, OrderInit DEF QuietInv

(* What was once overlapped remains so: a quiet state has a quiet past.    *)
LEMMA OverlappedStays == [Next]_vars /\ ~overlapped' => ~overlapped
  BY DEF Next, Push, Receive, Callback, Environment, Report, Write, historyVars,
     producerVars, ReceiveMotion, ReceiveMotionless, PushTarget, PushPaint, PushLine,
     BeginTick, ReadPaint, WriteSucceeds, WriteFails, PopTarget, PopPaint, ClearTarget,
     ClearPaint, ClearLine, ReportLine, NoLineToReport, SimulationAboutToStart,
     SimulationEnded, DrainTarget, DrainPaint, CancelSessions, JoinServerThread, LuaInit, vars

(* The invariant of the whole specification: quiet, as long as it was.     *)
Quietly == ~overlapped => QuietInv

LEMMA QuietlyStep == Quietly /\ [Next]_vars => Quietly'
  BY OverlappedStays, QuietInvStep DEF Quietly

LEMMA QuietlyInit == Init => Quietly
  BY QuietInit DEF Quietly

(* As long as the client was quiet when queues were emptied, every pose is *)
(* drawn with its own extrusion flag.                                      *)
THEOREM QuietPairs == Spec => []PairedWhenQuiet
<1>1. Quietly => PairedWhenQuiet
  BY DEF Quietly, QuietInv, PairedWhenQuiet
<1> QED
  BY <1>1, QuietlyStep, QuietlyInit, PTL DEF Spec

(* A simulation whose client was quiet leaves no sample to the next one.   *)
THEOREM QuietLeavesNothing == Spec => []QueuesEmptyWhenStopped
<1>1. Quietly => QueuesEmptyWhenStopped
  BY DEF Quietly, QuietInv, QuietControl, QueuesEmptyWhenStopped
<1> QED
  BY <1>1, QuietlyStep, QuietlyInit, PTL DEF Spec

-----------------------------------------------------------------------------
(***************************************************************************)
(* Why a callback returns: what it waits for comes, and its steps are      *)
(* counted.  (That it does is CallbackReturns, which needs fairness.)      *)
(***************************************************************************)

(* paint.back() waits only while the io thread is between the target and   *)
(* the paint of one sample, and target.back() never does: the next step of *)
(* the io thread ends the wait.                                            *)
WaitIsAnswered ==
  ~overlapped =>
    /\ cpc = "paint" => paint # << >> \/ ppc = "paint"
    /\ cpc = "write" => target # << >>

(* With a quiet client no wait of the callback is for ever.                *)
THEOREM QuietAnswers == Spec => []WaitIsAnswered
<1>1. Quietly => WaitIsAnswered
  <2> SUFFICES ASSUME QuietInv, cpc = "paint", paint = << >>, ppc # "paint" PROVE FALSE
    BY DEF WaitIsAnswered, Quietly, QuietInv, QuietControl
  <2>1. /\ target \in Seq(Nat) /\ target # << >> /\ issued \in Nat
        /\ Len(paint) = 0 /\ TargetGone = PaintGone
    BY NumberedEmpty DEF QuietInv, QuietControl, OrderInv, TypeInv, TypeOK, Aligned, Emptying
  <2>2. Len(target) \in Nat /\ Len(target) # 0
    BY <2>1, EmptySeq
  <2>3. TargetEnd = PaintEnd /\ TargetEnd \in Int
    BY <2>1 DEF TargetEnd, PaintEnd
  <2> HIDE DEF TargetEnd, PaintEnd
  <2> QED  BY <2>1, <2>2, <2>3 DEF TargetGone, PaintGone
<1> QED
  BY <1>1, QuietlyStep, QuietlyInit, PTL DEF Spec

(* An upper bound of the steps a callback still takes.                     *)
Left ==
  CASE cpc = "rest"        -> 0
    [] cpc = "lines"       -> 1
    [] cpc = "popPaint"    -> 2
    [] cpc = "popTarget"   -> 3
    [] cpc = "clearLine"   -> 2
    [] cpc = "clearPaint"  -> 3
    [] cpc = "clearTarget" -> 4
    [] cpc = "write"       -> 5
    [] cpc = "paint"       -> 6
    [] cpc = "join"        -> 1
    [] cpc = "cancel"      -> 2
    [] cpc = "drainPaint"  -> 3 + Len(paint)
    [] cpc = "drainTarget" -> 4 + Len(paint) + Len(target)

(* Each step of a callback brings it nearer to its end, the two drains of  *)
(* SimulationEnded included, and no other thread puts it off.              *)
CallbackEnds ==
  [][~overlapped' =>
       /\ Callback => Left' < Left
       /\ cpc # "rest" => Left' <= Left]_vars

(* Left by the place of the callback.                                      *)
LeftIs ==
  /\ cpc = "rest" => Left = 0
  /\ cpc \in {"lines", "join"} => Left = 1
  /\ cpc \in {"popPaint", "clearLine", "cancel"} => Left = 2
  /\ cpc \in {"popTarget", "clearPaint"} => Left = 3
  /\ cpc = "clearTarget" => Left = 4
  /\ cpc = "write" => Left = 5
  /\ cpc = "paint" => Left = 6
  /\ cpc = "drainPaint" => Left = 3 + Len(paint)
  /\ cpc = "drainTarget" => Left = 4 + Len(paint) + Len(target)

(* That is what its definition says, before and after a step.              *)
LEMMA LeftFacts == LeftIs /\ LeftIs'
  BY DEF LeftIs, Left

(* With a quiet client a callback takes a bounded number of steps.         *)
THEOREM QuietCallbackEnds == Spec => CallbackEnds
<1>1. Quietly /\ [Next]_vars =>
        [~overlapped' => (Callback => Left' < Left) /\ (cpc # "rest" => Left' <= Left)]_vars
  <2> SUFFICES ASSUME QuietInv, Next
               PROVE  (Callback => Left' < Left) /\ (cpc # "rest" => Left' <= Left)
    BY OverlappedStays DEF Quietly
  <2>0. /\ target \in Seq(Nat) /\ paint \in Seq(Nat)
        /\ Len(target) \in Nat /\ Len(paint) \in Nat
        /\ cpc \in {"rest", "paint", "write", "popTarget", "popPaint", "lines", "join"} \cup Emptying
        /\ Len(target') \in Nat /\ Len(paint') \in Nat
    <3>1. TypeInv /\ TypeInv'
      BY TypeInvStep DEF QuietInv, OrderInv
    <3> QED  BY SMTT(30), <3>1 DEF TypeInv, TypeOK
  <2>a. LeftIs /\ LeftIs'
    BY LeftFacts
  <2> USE DEF LeftIs, producerVars, historyVars, Emptying
  <2>1. CASE ReadPaint      BY <2>0, <2>a, <2>1 DEF ReadPaint, Callback
  <2>2. CASE WriteSucceeds  BY <2>0, <2>a, <2>2 DEF WriteSucceeds
  <2>3. CASE WriteFails     BY <2>0, <2>a, <2>3 DEF WriteFails
  <2>4. CASE PopTarget      BY <2>0, <2>a, <2>4 DEF PopTarget
  <2>5. CASE PopPaint       BY <2>0, <2>a, <2>5 DEF PopPaint
  <2>6. CASE ClearTarget    BY <2>0, <2>a, <2>6 DEF ClearTarget
  <2>7. CASE ClearPaint     BY <2>0, <2>a, <2>7 DEF ClearPaint
  <2>8. CASE ClearLine      BY <2>0, <2>a, <2>8 DEF ClearLine
  <2>9. CASE Report         BY <2>0, <2>a, <2>9 DEF Report, ReportLine, NoLineToReport
  <2>10. CASE DrainTarget
    <3>1. CASE target = << >>
      BY <2>0, <2>a, <2>10, <3>1, EmptySeq DEF DrainTarget
    <3>2. CASE target # << >>
      <4>1. Len(target') = Len(target) - 1
        BY <2>0, <2>10, <3>2, HeadTailProperties DEF DrainTarget
      <4> QED  BY <2>0, <2>a, <2>10, <3>2, <4>1 DEF DrainTarget
    <3> QED  BY <3>1, <3>2
  <2>11. CASE DrainPaint
    <3>1. CASE paint = << >>
      BY <2>0, <2>a, <2>11, <3>1, EmptySeq DEF DrainPaint
    <3>2. CASE paint # << >>
      <4>1. Len(paint') = Len(paint) - 1
        BY <2>0, <2>11, <3>2, HeadTailProperties DEF DrainPaint
      <4> QED  BY <2>0, <2>a, <2>11, <3>2, <4>1 DEF DrainPaint
    <3> QED  BY <3>1, <3>2
  <2>12. CASE CancelSessions    BY <2>0, <2>a, <2>12 DEF CancelSessions
  <2>13. CASE JoinServerThread  BY <2>0, <2>a, <2>13 DEF JoinServerThread
  <2>14. CASE ~ Callback
    <3> SUFFICES ASSUME cpc # "rest" PROVE Left' <= Left
      BY <2>14
    <3>1. UNCHANGED cpc /\ (cpc \in Emptying \cup {"join"} => UNCHANGED <<target, paint>>)
      <4>1. CASE Push
        BY <4>1 DEF Push, PushTarget, PushPaint, PushLine, QuietInv, QuietControl
      <4>2. CASE Receive
        BY <4>2 DEF Receive, ReceiveMotion, ReceiveMotionless
      <4>3. CASE BeginTick \/ Environment
        <5>1. sim = "stopped" => cpc = "rest"
          BY DEF QuietInv, OrderInv
        <5> QED
          BY <4>3, <5>1 DEF BeginTick, Environment, SimulationAboutToStart, SimulationEnded, LuaInit
      <4> QED  BY <2>14, <4>1, <4>2, <4>3 DEF Next
    <3> QED  BY <2>0, <2>a, <3>1
  <2> QED
    BY <2>1, <2>2, <2>3, <2>4, <2>5, <2>6, <2>7, <2>8, <2>9, <2>10, <2>11, <2>12, <2>13, <2>14
    DEF Callback, Write
<1> QED
  BY <1>1, QuietlyStep, QuietlyInit, PTL DEF Spec, CallbackEnds

-----------------------------------------------------------------------------
(***************************************************************************)
(* The abstract pipeline.                                                  *)
(***************************************************************************)

(* What an empty, a shortened and a prolonged sequence are.                *)
LEMMA TailOfAppend ==
  ASSUME NEW q \in Seq(Nat), q # << >>, NEW n \in Nat
  PROVE  Tail(Append(q, n)) = Append(Tail(q), n)
  OBVIOUS

(* A step of the plugin that no sample notices.                            *)
Unnoticed == Pending' = Pending /\ TargetEnd' = TargetEnd /\ acted' = acted

(* Every step of the pipeline is a step of the abstract queue, or none.    *)
LEMMA FifoStep ==
  ASSUME QuietInv, [Next]_vars, ~overlapped'
  PROVE  [Fifo!Next]_(Fifo!vars)
<1>0. /\ OrderInv /\ QuietControl /\ target \in Seq(Nat) /\ issued \in Nat
      /\ ppc # "idle" => todo >= 1 /\ issued >= 1
  BY DEF QuietInv, OrderInv, TypeInv, TypeOK
<1>a. Unnoticed => [Fifo!Next]_(Fifo!vars)
  BY DEF Unnoticed, Fifo!vars
<1>b. ASSUME UNCHANGED <<target, producerVars, acted>>, cpc # "popTarget", cpc' # "popTarget"
      PROVE  [Fifo!Next]_(Fifo!vars)
  BY <1>a, <1>b DEF Unnoticed, Pending, TargetEnd, producerVars
<1>1. ASSUME NEW n \in 1 .. MaxBatch, NEW l \in Lines, ReceiveMotion(n, l)
      PROVE  [Fifo!Next]_(Fifo!vars)
  <2>1. TargetEnd' = TargetEnd
    BY <1>0, <1>1 DEF ReceiveMotion, TargetEnd
  <2> QED  BY <1>a, <1>1, <2>1 DEF ReceiveMotion, Unnoticed, Pending, historyVars
<1>2. ASSUME NEW l \in Lines, ReceiveMotionless(l)
      PROVE  [Fifo!Next]_(Fifo!vars)
  BY <1>a, <1>2 DEF ReceiveMotionless, Unnoticed, Pending, TargetEnd, producerVars, historyVars
<1>3. CASE PushTarget
  <2>1. TargetEnd' = issued /\ TargetEnd = issued - 1 /\ TargetEnd' = TargetEnd + 1
    BY <1>0, <1>3 DEF PushTarget, TargetEnd
  <2>2. Pending' = Append(Pending, TargetEnd')
    <3>1. CASE cpc = "popTarget"
      <4>1. target # << >>
        BY <1>0, <3>1 DEF QuietControl
      <4>2. Tail(Append(target, issued)) = Append(Tail(target), issued)
        BY <1>0, <4>1, TailOfAppend
      <4> QED  BY <1>3, <2>1, <3>1, <4>2 DEF PushTarget, Pending
    <3>2. CASE cpc # "popTarget"
      BY <1>3, <2>1, <3>2 DEF PushTarget, Pending
    <3> QED  BY <3>1, <3>2
  <2>3. acted' = acted
    BY <1>3 DEF PushTarget, historyVars
  <2> QED  BY <2>1, <2>2, <2>3 DEF Fifo!Next, Fifo!Make
<1>4. CASE PushPaint
  BY <1>a, <1>4 DEF PushPaint, Unnoticed, Pending, TargetEnd, historyVars
<1>5. CASE PushLine
  <2>1. TargetEnd' = TargetEnd
    <3>1. CASE todo = 1   BY <1>0, <1>5, <3>1 DEF PushLine, TargetEnd
    <3>2. CASE todo # 1   BY <1>0, <1>5, <3>2 DEF PushLine, TargetEnd
    <3> QED  BY <3>1, <3>2
  <2> QED  BY <1>a, <1>5, <2>1 DEF PushLine, Unnoticed, Pending, historyVars
<1>6. CASE WriteSucceeds
  <2>1. acted' = [sample |-> Head(target), paint |-> Head(target)]
    BY <1>6, QuietWrite DEF WriteSucceeds
  <2>2. Pending = target /\ Pending' = Tail(target) /\ target # << >>
    BY <1>6 DEF WriteSucceeds, Pending
  <2>3. TargetEnd' = TargetEnd
    BY <1>6 DEF WriteSucceeds, TargetEnd, producerVars
  <2> QED  BY <2>1, <2>2, <2>3 DEF Fifo!Next, Fifo!Leave, Fifo!Actuate
<1>7. CASE PopTarget
  <2>1. target # << >>
    BY <1>0, <1>7 DEF PopTarget, QuietControl
  <2> QED  BY <1>a, <1>7, <2>1 DEF PopTarget, Unnoticed, Pending, TargetEnd, producerVars, historyVars
<1>8. CASE ClearTarget
  <2>1. Pending = target /\ Pending' = << >> /\ TargetEnd' = TargetEnd /\ acted' = acted
    BY <1>8 DEF ClearTarget, Pending, TargetEnd, producerVars, historyVars
  <2>2. CASE target = << >>  BY <1>a, <2>1, <2>2 DEF Unnoticed
  <2>3. CASE target # << >>
    BY <2>1, <2>3 DEF Fifo!Next, Fifo!Leave, Fifo!DiscardAll
  <2> QED  BY <2>2, <2>3
<1>9. CASE DrainTarget
  <2>1. Pending = target /\ Pending' = target' /\ TargetEnd' = TargetEnd /\ acted' = acted
    BY <1>9 DEF DrainTarget, Pending, TargetEnd, producerVars, historyVars
  <2>2. CASE target = << >>  BY <1>9, <1>a, <2>1, <2>2 DEF Unnoticed, DrainTarget
  <2>3. CASE target # << >>
    BY <1>9, <2>1, <2>3 DEF DrainTarget, Fifo!Next, Fifo!Leave, Fifo!DiscardFirst
  <2> QED  BY <2>2, <2>3
<1>10. CASE BeginTick  BY <1>b, <1>10 DEF BeginTick, historyVars
<1>11. CASE ReadPaint \/ WriteFails
  BY <1>b, <1>11 DEF ReadPaint, WriteFails, historyVars
<1>12. CASE PopPaint \/ ClearPaint \/ ClearLine \/ NoLineToReport
  BY <1>b, <1>12 DEF PopPaint, ClearPaint, ClearLine, NoLineToReport, historyVars
<1>13. ASSUME NEW c \in BOOLEAN, ReportLine(c) PROVE [Fifo!Next]_(Fifo!vars)
  BY <1>b, <1>13 DEF ReportLine
<1>14. CASE DrainPaint \/ CancelSessions \/ SimulationEnded
  BY <1>b, <1>14 DEF DrainPaint, CancelSessions, SimulationEnded, historyVars
<1>15. CASE JoinServerThread
  BY <1>b, <1>15 DEF JoinServerThread, historyVars
<1>16. ASSUME NEW h \in BOOLEAN, SimulationAboutToStart(h) PROVE [Fifo!Next]_(Fifo!vars)
  BY <1>a, <1>16 DEF SimulationAboutToStart, Unnoticed, Pending, TargetEnd, producerVars, historyVars
<1>17. CASE LuaInit
  <2>1. target = << >> /\ cpc = "rest"
    BY <1>0, <1>17 DEF LuaInit, QuietControl, OrderInv
  <2> QED  BY <1>b, <1>17, <2>1 DEF LuaInit, historyVars
<1>18. CASE UNCHANGED vars
  BY <1>a, <1>18 DEF vars, historyVars, Unnoticed, Pending, TargetEnd
<1> QED
  BY <1>1, <1>2, <1>3, <1>4, <1>5, <1>6, <1>7, <1>8, <1>9, <1>10, <1>11, <1>12,
     <1>13, <1>14, <1>15, <1>16, <1>17, <1>18
     DEF Next, Push, Receive, Callback, Environment, Report, Write

(* As long as the client is quiet the three queues behave as one queue of  *)
(* whole samples: each is written once with its own paint, or discarded,   *)
(* in the order they were made.                                            *)
THEOREM QuietRefinesFifo == Spec => FifoWhenQuiet
<1>1. Init => Fifo!Init
  BY DEF Init, Fifo!Init, Pending, TargetEnd
<1>2. Quietly /\ [Next]_vars => [overlapped' \/ [Fifo!Next]_(Fifo!vars)]_vars
  BY FifoStep, OverlappedStays DEF Quietly
<1> QED
  BY <1>1, <1>2, QuietlyStep, QuietlyInit, PTL DEF Spec, FifoWhenQuiet

-----------------------------------------------------------------------------
(***************************************************************************)
(* The line queue.  It loses one entry per callback, and so do the sample  *)
(* queues unless they are empty; the invariant says how far apart the two  *)
(* can be at each place of the callback and of a push.                     *)
(***************************************************************************)

(* A callback that has popped its sample, or found none, has its line left.*)
Slack == IF cpc \in {"popPaint", "lines"} THEN 0 ELSE 1

(* A sample whose target is pushed and whose line is not.                  *)
Half == IF ppc \in {"paint", "line"} THEN 1 ELSE 0

LineInv ==
  /\ ~ready => target = << >> /\ ppc = "idle"
  /\ Len(target) <= Len(line) + Half + Slack
  /\ \A i \in 1 .. Len(line) :
       /\ line[i].of <= TargetGone + i + Slack
       /\ line[i].of <= TargetEnd
  /\ LineFollows

(* What the invariants say of the numbers involved.                        *)
LEMMA LineNumbers ==
  ASSUME OrderInv
  PROVE  /\ Len(target) \in Nat /\ Len(line) \in Nat
         /\ line \in Seq(LineEntry)
         /\ \A i \in 1 .. Len(line) : line[i] \in LineEntry /\ line[i].of \in Nat
         /\ TargetEnd \in Int /\ TargetGone \in Int /\ TargetGone = TargetEnd - Len(target)
         /\ reported.of \in Nat
<1>1. target \in Seq(Nat) /\ line \in Seq(LineEntry) /\ issued \in Nat /\ reported \in LineEntry
  BY DEF OrderInv, TypeInv, TypeOK
<1>2. \A i \in 1 .. Len(line) : line[i] \in LineEntry
  BY <1>1
<1>3. \A e \in LineEntry : e.of \in Nat
  BY DEF LineEntry
<1>4. Len(target) \in Nat /\ Len(line) \in Nat
  BY <1>1
<1>5. TargetEnd \in Int
  BY <1>1 DEF TargetEnd
<1> QED BY <1>1, <1>2, <1>3, <1>4, <1>5 DEF TargetGone

(* The same of the state after a step.                                     *)
LEMMA LineNumbersNext ==
  ASSUME OrderInv'
  PROVE  /\ Len(target') \in Nat /\ Len(line') \in Nat
         /\ TargetEnd' \in Int /\ TargetGone' \in Int
         /\ TargetGone' = TargetEnd' - Len(target')
<1>1. target' \in Seq(Nat) /\ line' \in Seq(LineEntry) /\ issued' \in Nat
  BY DEF OrderInv, TypeInv, TypeOK
<1>2. Len(target') \in Nat /\ Len(line') \in Nat
  BY <1>1
<1>3. TargetEnd' \in Int
  BY <1>1 DEF TargetEnd
<1> QED BY <1>2, <1>3 DEF TargetGone

LEMMA SlackRange == Slack \in 0 .. 1 /\ Half \in 0 .. 1 /\ Slack' \in 0 .. 1 /\ Half' \in 0 .. 1
  BY DEF Slack, Half

(* A step that leaves the line queue alone keeps the invariant when no     *)
(* entry gets further ahead of the samples that are gone.                  *)
LEMMA LineKept ==
  ASSUME OrderInv, OrderInv', LineInv, line' = line, reported' = reported,
         TargetGone' >= TargetGone, TargetEnd' >= TargetEnd,
         TargetGone' + Slack' >= TargetGone + Slack \/ TargetGone' = TargetEnd',
         Len(target') <= Len(line) + Half' + Slack',
         ~ready' => target' = << >> /\ ppc' = "idle"
  PROVE  LineInv'
<1>1. /\ Len(line) \in Nat /\ \A i \in 1 .. Len(line) : line[i].of \in Nat
      /\ TargetEnd \in Int /\ TargetGone \in Int /\ TargetEnd' \in Int /\ TargetGone' \in Int
      /\ reported.of \in Nat
  BY LineNumbers, LineNumbersNext
<1>2. /\ \A i \in 1 .. Len(line) : /\ line[i].of <= TargetGone + i + Slack
                                    /\ line[i].of <= TargetEnd
      /\ reported.of <= TargetGone + 1
  BY DEF LineInv, LineFollows
<1>3. \A i \in 1 .. Len(line) : line[i].of <= TargetEnd'
  BY <1>1, <1>2
<1>4. ASSUME NEW i \in 1 .. Len(line) PROVE line[i].of <= TargetGone' + i + Slack'
  <2>1. /\ line[i].of \in Nat /\ i \in Nat \ {0}
        /\ Slack \in 0 .. 1 /\ Slack' \in 0 .. 1
    BY <1>1, SlackRange
  <2>2. CASE TargetGone' + Slack' >= TargetGone + Slack
    <3>1. line[i].of <= TargetGone + i + Slack
      BY <1>2
    <3>2. \A n, k \in Nat, g, h \in Int, a, b \in 0 .. 1 :
            n <= g + k + a /\ h + b >= g + a => n <= h + k + b
      OBVIOUS
    <3>3. TargetGone \in Int /\ TargetGone' \in Int /\ i \in Nat
      BY <1>1, <2>1
    <3> QED BY <2>1, <2>2, <3>1, <3>2, <3>3
  <2>3. CASE TargetGone' = TargetEnd'
    <3>1. line[i].of <= TargetEnd'
      BY <1>3
    <3> QED BY <1>1, <2>1, <2>3, <3>1
  <2> QED BY <2>2, <2>3
<1>5. reported.of <= TargetGone' + 1
  BY <1>1, <1>2
<1> QED BY <1>3, <1>4, <1>5 DEF LineInv, LineFollows

LEMMA EndUnchanged ==
  ASSUME OrderInv, UNCHANGED producerVars
  PROVE  TargetEnd' = TargetEnd /\ Half' = Half
  BY DEF TargetEnd, Half, producerVars

(* The io thread.  A pushed line is the one of the newest sample, and not  *)
(* further back in its queue than that sample in its own.                  *)
LEMMA LinePushStep ==
  ASSUME QuietInv, QuietInv', LineInv, Push \/ Receive
  PROVE  LineInv'
<1> USE SlackRange
<1>0. OrderInv /\ OrderInv'
  BY DEF QuietInv
<1>a. Slack' = Slack /\ ready' = ready /\ reported' = reported
  BY DEF Push, Receive, PushTarget, PushPaint, PushLine, ReceiveMotion, ReceiveMotionless,
         Slack, historyVars
<1>b. TargetGone' = TargetGone
  BY <1>0, GoneUnchanged DEF Push, Receive
<1>c. /\ Len(target) <= Len(line) + Half + Slack
      /\ ~ready => target = << >> /\ ppc = "idle"
  BY DEF LineInv
<1>d. /\ Len(line) \in Nat /\ Len(target) \in Nat /\ TargetEnd \in Int /\ TargetGone \in Int
      /\ TargetEnd' \in Int /\ TargetGone' \in Int /\ Len(target') \in Nat
      /\ TargetGone = TargetEnd - Len(target) /\ TargetGone' = TargetEnd' - Len(target')
  BY <1>0, LineNumbers, LineNumbersNext
<1>1. ASSUME NEW n \in 1 .. MaxBatch, NEW l \in Lines, ReceiveMotion(n, l) PROVE LineInv'
  <2>1. target' = target /\ line' = line /\ ready /\ Half' = Half
    BY <1>1 DEF ReceiveMotion, Half
  <2>2. TargetEnd' = TargetEnd
    BY <1>b, <1>d, <2>1
  <2> QED BY <1>0, <1>a, <1>b, <1>c, <1>d, <2>1, <2>2, LineKept
<1>2. CASE PushTarget
  <2>1. line' = line /\ ready /\ Half' = 1 /\ Half = 0
    BY <1>2, <1>c DEF PushTarget, Half
  <2>2. TargetEnd' = TargetEnd + 1
    BY <1>2, <1>0 DEF PushTarget, TargetEnd, OrderInv, TypeInv, TypeOK
  <2>3. Len(target') = Len(target) + 1
    BY <1>b, <1>d, <2>2
  <2> QED BY <1>0, <1>a, <1>b, <1>c, <1>d, <2>1, <2>2, <2>3, LineKept
<1>3. CASE PushPaint
  <2>1. target' = target /\ line' = line /\ ready /\ Half' = Half
    BY <1>3, <1>c DEF PushPaint, Half
  <2>2. TargetEnd' = TargetEnd
    BY <1>b, <1>d, <2>1
  <2> QED BY <1>0, <1>a, <1>b, <1>c, <1>d, <2>1, <2>2, LineKept
<1>4. ASSUME NEW e \in LineEntry, line' = Append(line, e), e.of = TargetEnd, target' = target,
             ~ready' => ppc' = "idle"
      PROVE  LineInv'
  <2>1. TargetEnd' = TargetEnd
    BY <1>b, <1>d, <1>4
  <2>2. /\ Len(line') = Len(line) + 1
        /\ \A i \in 1 .. Len(line) : line'[i] = line[i]
        /\ line'[Len(line) + 1] = e
    BY <1>0, <1>4, LineNumbers
  <2>3. Len(target') <= Len(line') + Half' + Slack'
    <3>1. Slack \in 0 .. 1 /\ Half \in 0 .. 1 /\ Half' \in 0 .. 1
      BY SlackRange
    <3>2. Len(target) <= Len(line) + Half + Slack
      BY <1>c
    <3>3. Len(target') = Len(target) /\ Slack' = Slack
      BY <1>a, <1>4
    <3> QED BY <1>d, <2>2, <3>1, <3>2, <3>3
  <2>4. TargetEnd <= TargetGone + (Len(line) + 1) + Slack
    BY <1>c, <1>d
  <2>5. ASSUME NEW i \in 1 .. Len(line')
        PROVE  line'[i].of <= TargetGone' + i + Slack' /\ line'[i].of <= TargetEnd'
    <3>1. CASE i = Len(line) + 1
      BY <1>4, <1>a, <1>b, <1>d, <2>1, <2>2, <2>4, <3>1
    <3>2. CASE i # Len(line) + 1
      <4>1. i \in 1 .. Len(line)
        BY <1>d, <2>2, <3>2
      <4> QED BY <4>1, <1>a, <1>b, <2>1, <2>2 DEF LineInv
    <3> QED BY <3>1, <3>2
  <2>6. ~ready' => target' = << >> /\ ppc' = "idle"
    BY <1>a, <1>c, <1>4
  <2>7. LineFollows'
    BY <1>a, <1>b DEF LineInv, LineFollows
  <2> QED BY <2>3, <2>5, <2>6, <2>7 DEF LineInv
<1>5. CASE PushLine
  <2>1. TargetEnd = issued /\ Half = 1 /\ Half' = 0 /\ ready
    BY <1>5, <1>c DEF PushLine, TargetEnd, Half
  <2>2. /\ target' = target
        /\ line' = Append(line, [no |-> bline, of |-> issued])
    BY <1>5 DEF PushLine
  <2>3. [no |-> bline, of |-> issued] \in LineEntry
    BY <1>0 DEF LineEntry, OrderInv, TypeInv, TypeOK
  <2> QED BY <1>4, <1>a, <1>d, <2>1, <2>2, <2>3
<1>6. ASSUME NEW l \in Lines, ReceiveMotionless(l) PROVE LineInv'
  <2>1. TargetEnd = issued /\ Half = 0 /\ Half' = 0 /\ ready
    BY <1>6 DEF ReceiveMotionless, TargetEnd, Half, producerVars
  <2>2. /\ target' = target
        /\ line' = Append(line, [no |-> l, of |-> issued])
    BY <1>6 DEF ReceiveMotionless
  <2>3. [no |-> l, of |-> issued] \in LineEntry
    BY <1>0, PipelineAssumption DEF LineEntry, OrderInv, TypeInv, TypeOK
  <2> QED BY <1>4, <1>a, <1>d, <2>1, <2>2, <2>3
<1> QED BY <1>1, <1>2, <1>3, <1>5, <1>6 DEF Push, Receive

(* The callback.  Before its line it has popped a sample, or found none.   *)
LEMMA LineCallbackStep ==
  ASSUME QuietInv, QuietInv', LineInv, BeginTick \/ Callback
  PROVE  LineInv'
<1> USE SlackRange
<1>0. OrderInv /\ OrderInv'
  BY DEF QuietInv
<1>a. /\ Len(line) \in Nat /\ Len(target) \in Nat /\ TargetEnd \in Int /\ TargetGone \in Int
      /\ TargetEnd' \in Int /\ TargetGone' \in Int /\ Len(target') \in Nat
      /\ TargetGone = TargetEnd - Len(target) /\ TargetGone' = TargetEnd' - Len(target')
      /\ target \in Seq(Nat)
      /\ target = << >> => Len(target) = 0
  BY <1>0, LineNumbers, LineNumbersNext DEF OrderInv, TypeInv, TypeOK
<1>b. /\ Len(target) <= Len(line) + Half + Slack
      /\ ~ready => target = << >> /\ ppc = "idle"
  BY DEF LineInv
<1>c. UNCHANGED producerVars /\ ready' = ready
  BY DEF BeginTick, Callback, ReadPaint, Write, WriteSucceeds, WriteFails, PopTarget, PopPaint,
         ClearTarget, ClearPaint, ClearLine, Report, NoLineToReport, ReportLine, DrainTarget,
         DrainPaint, CancelSessions, JoinServerThread
<1>d. TargetEnd' = TargetEnd /\ Half' = Half /\ ppc' = ppc
  BY <1>0, <1>c, EndUnchanged DEF producerVars
(* Steps that touch neither the target nor the line queue.                 *)
<1>1. ASSUME UNCHANGED <<target, line, reported>>,
             Slack' = 1 \/ Slack = 0 \/ target = << >>
      PROVE  LineInv'
  <2>1. TargetGone' = TargetGone
    BY <1>a, <1>d, <1>1
  <2>2. TargetGone' + Slack' >= TargetGone + Slack \/ TargetGone' = TargetEnd'
    <3>1. CASE Slack' = 1
      BY <1>a, <2>1, <3>1
    <3>3. CASE Slack = 0
      BY <1>a, <2>1, <3>3
    <3>2. CASE target = << >>
      BY <1>a, <1>d, <2>1, <3>2
    <3> QED BY <1>1, <3>1, <3>2, <3>3
  <2>3. Len(target') <= Len(line) + Half' + Slack'
    <3>1. CASE Slack' = 1 \/ Slack = 0
      BY <1>a, <1>b, <1>d, <1>1, <3>1
    <3>2. CASE target = << >>
      BY <1>a, <1>d, <1>1, <3>2
    <3> QED BY <1>1, <3>1, <3>2
  <2>4. ~ready' => target' = << >> /\ ppc' = "idle"
    BY <1>b, <1>c, <1>d, <1>1
  <2>5. TargetGone' >= TargetGone /\ TargetEnd' >= TargetEnd
    BY <1>a, <1>d, <2>1
  <2> QED BY <1>0, <1>1, <2>2, <2>3, <2>4, <2>5, LineKept
<1>2. CASE BeginTick
  <2>1. UNCHANGED <<target, line, reported>>
    BY <1>2 DEF BeginTick, historyVars
  <2>2. Slack' = 1 \/ target = << >>
    BY <1>2, <1>b DEF BeginTick, Slack
  <2> QED BY <1>1, <2>1, <2>2
<1>3. CASE ReadPaint \/ Write \/ CancelSessions \/ JoinServerThread \/ DrainPaint \/ ClearPaint
           \/ PopPaint \/ NoLineToReport
  <2>1. UNCHANGED <<target, line, reported>>
    BY <1>3 DEF ReadPaint, Write, WriteSucceeds, WriteFails, CancelSessions, JoinServerThread,
                DrainPaint, ClearPaint, PopPaint, NoLineToReport, historyVars
  <2>2. Slack' = 1 \/ Slack = 0
    BY <1>3 DEF ReadPaint, Write, WriteSucceeds, WriteFails, CancelSessions, JoinServerThread,
                DrainPaint, ClearPaint, PopPaint, NoLineToReport, Slack
  <2> QED BY <1>1, <2>1, <2>2
(* Steps that shorten the target queue.                                    *)
<1>4. ASSUME UNCHANGED <<line, reported>>, Len(target') <= Len(target), Slack = 1,
             Slack' = 1 \/ Len(target') = Len(target) - 1,
             target = << >> => target' = << >>
      PROVE  LineInv'
  <2>1. TargetGone' >= TargetGone /\ TargetGone' + Slack' >= TargetGone + Slack
    BY <1>a, <1>d, <1>4
  <2>2. Len(target') <= Len(line) + Half' + Slack'
    BY <1>a, <1>b, <1>d, <1>4
  <2>3. TargetEnd' >= TargetEnd
    BY <1>a, <1>d
  <2>4. ~ready' => target' = << >> /\ ppc' = "idle"
    BY <1>b, <1>c, <1>d, <1>4
  <2> QED BY <1>0, <1>4, <2>1, <2>2, <2>3, <2>4, LineKept
<1>5. CASE PopTarget
  <2>1. target # << >>
    BY <1>0, <1>5 DEF OrderInv, PopTarget
  <2>2. Len(target') = Len(target) - 1
    BY <1>a, <1>5, <2>1, NumberedTail, <1>0 DEF PopTarget, OrderInv
  <2>3. UNCHANGED <<line, reported>> /\ Slack = 1
    BY <1>5 DEF PopTarget, historyVars, Slack
  <2> QED BY <1>4, <1>a, <2>1, <2>2, <2>3
<1>6. CASE ClearTarget \/ DrainTarget
  <2>1. UNCHANGED <<line, reported>> /\ Slack = 1 /\ Slack' = 1
    BY <1>6 DEF ClearTarget, DrainTarget, historyVars, Slack
  <2>2. Len(target') <= Len(target) /\ (target = << >> => target' = << >>)
    <3>1. CASE ClearTarget
      BY <1>a, <3>1, NumberedEmpty DEF ClearTarget
    <3>2. CASE DrainTarget /\ target # << >>
      <4>1. Len(target') = Len(target) - 1
        BY <1>a, <1>0, <3>2, NumberedTail DEF DrainTarget, OrderInv
      <4> QED BY <1>a, <3>2, <4>1
    <3>3. CASE DrainTarget /\ target = << >>
      BY <1>a, <3>3 DEF DrainTarget
    <3> QED BY <1>6, <3>1, <3>2, <3>3
  <2> QED BY <1>4, <2>1, <2>2
<1>7. CASE ClearLine
  <2>1. target = << >> /\ ppc = "idle"
    BY <1>0, <1>7 DEF QuietInv, QuietControl, ClearLine, Emptying
  <2>2. line' = << >> /\ target' = target /\ reported' = reported
    BY <1>7 DEF ClearLine, historyVars
  <2>3. Len(line') = 0 /\ TargetGone' = TargetGone
    BY <1>a, <1>d, <2>2, NumberedEmpty
  <2>4. Len(target') <= Len(line') + Half' + Slack'
    <3>1. Half' \in 0 .. 1 /\ Slack' \in 0 .. 1
      BY SlackRange
    <3>2. Len(target') = 0
      BY <2>1, <2>2, NumberedEmpty
    <3>3. \A h, s \in 0 .. 1 : 0 <= 0 + h + s
      OBVIOUS
    <3> QED BY <2>3, <3>1, <3>2, <3>3, Zenon
  <2>5. LineFollows'
    BY <2>2, <2>3 DEF LineInv, LineFollows
  <2>6. ~ready' => target' = << >> /\ ppc' = "idle"
    BY <1>d, <2>1, <2>2
  <2> QED BY <2>3, <2>4, <2>5, <2>6 DEF LineInv
<1>8. ASSUME NEW c \in BOOLEAN, ReportLine(c) PROVE LineInv'
  <2>1. /\ target' = target /\ line # << >> /\ reported' = Head(line) /\ line' = Tail(line)
        /\ Slack = 0 /\ Slack' = 1
    BY <1>8 DEF ReportLine, Slack
  <2>2. /\ Head(line) = line[1] /\ Len(line') = Len(line) - 1 /\ 1 \in 1 .. Len(line)
        /\ \A i \in 1 .. Len(line') : i + 1 \in 1 .. Len(line) /\ line'[i] = line[i + 1]
    BY <1>0, <2>1, LineNumbers
  <2>3. TargetGone' = TargetGone
    BY <1>a, <1>d, <2>1
  <2>4. \A i \in 1 .. Len(line) :
          line[i].of \in Nat /\ line[i].of <= TargetGone + i /\ line[i].of <= TargetEnd
    BY SMTT(30), <1>0, <1>a, <2>1, LineNumbers DEF LineInv
  <2>5. Len(target') <= Len(line') + Half' + Slack'
    BY <1>a, <1>b, <1>d, <2>1, <2>2
  <2>6. ASSUME NEW i \in 1 .. Len(line')
        PROVE  line'[i].of <= TargetGone' + i + Slack' /\ line'[i].of <= TargetEnd'
    <3>1. /\ line'[i].of \in Nat /\ line'[i].of <= TargetGone + (i + 1)
          /\ line'[i].of <= TargetEnd
      BY <2>2, <2>4
    <3> QED BY <1>a, <1>d, <2>1, <2>3, <3>1
  <2>7. LineFollows'
    BY <2>1, <2>2, <2>3, <2>4 DEF LineFollows
  <2>8. ~ready' => target' = << >> /\ ppc' = "idle"
    BY <1>b, <1>c, <1>d, <2>1
  <2> QED BY <2>5, <2>6, <2>7, <2>8 DEF LineInv
<1> QED BY <1>2, <1>3, <1>5, <1>6, <1>7, <1>8 DEF Callback, Report

(* The simulation starts, ends, or the plugin is initialised again.        *)
LEMMA LineEnvironmentStep ==
  ASSUME QuietInv, QuietInv', LineInv, Environment
  PROVE  LineInv'
<1> USE SlackRange
<1>0. OrderInv /\ OrderInv' /\ QuietControl
  BY DEF QuietInv
<1>a. /\ Len(target) \in Nat /\ TargetEnd \in Int /\ TargetGone \in Int
      /\ TargetEnd' \in Int /\ TargetGone' \in Int /\ Len(target') \in Nat
      /\ TargetGone = TargetEnd - Len(target) /\ TargetGone' = TargetEnd' - Len(target')
      /\ target = << >> => Len(target) = 0
  BY <1>0, LineNumbers, LineNumbersNext
<1>b. /\ Len(target) <= Len(line) + Half + Slack
      /\ ~ready => target = << >> /\ ppc = "idle"
  BY DEF LineInv
<1>c. UNCHANGED <<producerVars, reported>>
  BY DEF Environment, SimulationAboutToStart, SimulationEnded, LuaInit, historyVars
<1>d. TargetEnd' = TargetEnd /\ Half' = Half /\ ppc' = ppc
  BY <1>0, <1>c, EndUnchanged DEF producerVars
<1>1. CASE SimulationEnded \/ \E h \in BOOLEAN : SimulationAboutToStart(h)
  <2>1. UNCHANGED <<target, line>> /\ (~ready' => ~ready) /\ Slack' = Slack
    <3>1. CASE SimulationEnded
      BY <3>1 DEF SimulationEnded, Slack
    <3>2. ASSUME NEW h \in BOOLEAN, SimulationAboutToStart(h)
          PROVE  UNCHANGED <<target, line, cpc>> /\ ready' = (ready \/ h)
      BY <3>2 DEF SimulationAboutToStart
    <3>3. ASSUME NEW h \in BOOLEAN, SimulationAboutToStart(h)
          PROVE  ~ready' => ~ready
      BY <3>2, <3>3, Zenon
    <3> QED BY <1>1, <3>1, <3>2, <3>3 DEF Slack
  <2>2. TargetGone' = TargetGone
    BY <1>a, <1>d, <2>1
  <2>3. Len(target') <= Len(line) + Half' + Slack'
    BY <1>b, <1>d, <2>1
  <2>4. TargetGone' >= TargetGone /\ TargetEnd' >= TargetEnd
        /\ TargetGone' + Slack' >= TargetGone + Slack
    BY <1>a, <1>d, <2>1, <2>2
  <2>5. ~ready' => target' = << >> /\ ppc' = "idle"
    BY <1>b, <1>d, <2>1
  <2> QED BY <1>0, <1>c, <2>1, <2>3, <2>4, <2>5, LineKept
<1>2. CASE LuaInit
  <2>1. target = << >> /\ ppc = "idle"
    BY <1>0, <1>2 DEF LuaInit, QuietControl
  <2>2. target' = << >> /\ line' = << >>
    BY <1>2 DEF LuaInit
  <2>3. Len(target') = 0 /\ Len(line') = 0
    BY <2>2, NumberedEmpty
  <2>4. TargetGone' = TargetGone
    BY <1>a, <1>d, <2>1, <2>3
  <2>5. LineFollows'
    BY <1>c, <2>4 DEF LineInv, LineFollows
  <2>6. Len(target') <= Len(line') + Half' + Slack'
    <3>1. Half' \in 0 .. 1 /\ Slack' \in 0 .. 1
      BY SlackRange
    <3>2. \A h, s \in 0 .. 1 : 0 <= 0 + h + s
      OBVIOUS
    <3> QED BY <2>3, <3>1, <3>2, Zenon
  <2>7. \A i \in 1 .. Len(line') : FALSE
    BY <2>3
  <2> QED BY <1>d, <2>1, <2>2, <2>5, <2>6, <2>7 DEF LineInv
<1> QED BY <1>1, <1>2 DEF Environment

LEMMA LineInvStep ==
  ASSUME QuietInv, LineInv, [Next]_vars, ~overlapped'
  PROVE  LineInv'
<1>0. QuietInv'
  BY QuietInvStep
<1>1. CASE Push \/ Receive
  BY <1>0, <1>1, LinePushStep
<1>2. CASE BeginTick \/ Callback
  BY <1>0, <1>2, LineCallbackStep
<1>3. CASE Environment
  BY <1>0, <1>3, LineEnvironmentStep
<1>4. CASE UNCHANGED vars
  BY <1>4 DEF vars, producerVars, historyVars, LineInv, LineFollows, TargetGone, TargetEnd,
              Half, Slack
<1> QED BY <1>1, <1>2, <1>3, <1>4 DEF Next

LEMMA LineInit == Init => LineInv
<1> SUFFICES ASSUME Init PROVE LineInv
  OBVIOUS
<1>1. Len(target) = 0 /\ Len(line) = 0
  BY NumberedEmpty DEF Init
<1>2. TargetGone = 0
  <2>1. TargetEnd = 0
    BY DEF Init, TargetEnd
  <2> QED BY <1>1, <2>1 DEF TargetGone
<1>3. LineFollows
  BY <1>2 DEF Init, LineFollows
<1> QED BY <1>1, <1>3, SlackRange DEF Init, LineInv

(* With a quiet client the reported line is at most one sample ahead of    *)
(* the motion, over any commands, failed writes and simulations.           *)
THEOREM LineNotAheadHolds == Spec => []LineNotAhead
<1> DEFINE LineQuietly == ~overlapped => QuietInv /\ LineInv
<1>1. LineQuietly => LineNotAhead
  BY DEF LineInv, LineNotAhead
<1>2. LineQuietly /\ [Next]_vars => LineQuietly'
  BY OverlappedStays, QuietInvStep, LineInvStep
<1>3. Init => LineQuietly
  BY QuietInit, LineInit
<1> QED
  BY <1>1, <1>2, <1>3, PTL DEF Spec
=============================================================================
