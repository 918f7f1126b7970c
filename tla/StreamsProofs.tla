--------------------------- MODULE StreamsProofs ---------------------------
(***************************************************************************)
(* Theorems about Streams for any number of loops, items and frames.       *)
(***************************************************************************)
EXTENDS Streams, SequenceTheorems, FiniteSetTheorems, TLAPS

-----------------------------------------------------------------------------
(* Type correctness.                                                       *)

\* A sink settles at most one next(), with a task of a consumer.
LEMMA WokenType ==
  ASSUME TypeOK, NEW how \in {"item", "finished", "failed", "refused"}
  PROVE  Woken(how) \in Seq(Task)
<1>1. CASE waiting = {}
  <2>1. <<>> \in Seq(Task)
    OBVIOUS
  <2> QED
    BY <1>1, <2>1 DEF Woken
<1>2. CASE waiting # {}
  <2>1. (CHOOSE c \in waiting : TRUE) \in Consumers
    BY <1>2 DEF TypeOK
  <2>2. Settled(CHOOSE c \in waiting : TRUE, how) \in Task
    BY <2>1 DEF Settled, Task
  <2> QED
    BY <1>2, <2>2 DEF Woken
<1> QED
  BY <1>1, <1>2

\* push keeps the types.
LEMMA PushType ==
  ASSUME TypeOK, NEW n \in Nat, Push(n)
  PROVE  /\ queue' \in Seq(Nat) /\ waiting' \subseteq Consumers
         /\ done' \in BOOLEAN /\ terminalError' \in Errors \cup {"none"}
         /\ yielded' \in Seq(Nat) /\ tasks' \in Seq(Task)
<1> DEFINE items == [i \in 1 .. n |-> arrived + i]
<1>1. items \in Seq(Nat) /\ Len(items) = n
  BY DEF TypeOK
<1>2. CASE done \/ n = 0
  BY <1>2 DEF Push, sinkVars, TypeOK
<1>3. CASE ~done /\ n > 0 /\ waiting = {}
  <2>1. queue' = queue \o items /\ UNCHANGED <<waiting, done, terminalError, yielded, tasks>>
    BY <1>3 DEF Push
  <2> HIDE DEF items
  <2>2. queue \o items \in Seq(Nat)
    BY <1>1 DEF TypeOK
  <2> QED
    BY <2>1, <2>2 DEF TypeOK
<1>4. CASE ~done /\ n > 0 /\ waiting # {}
  <2>0. n # 0
    BY <1>4
  <2>1. /\ queue' = queue \o Tail(items) /\ waiting' = {}
        /\ yielded' = Append(yielded, Head(items)) /\ tasks' = tasks \o Woken("item")
        /\ UNCHANGED <<done, terminalError>>
    BY <1>4, <2>0, Zenon DEF Push
  <2>2. items # <<>>
    BY <1>1, <1>4
  <2> HIDE DEF items
  <2>3. Head(items) \in Nat /\ Tail(items) \in Seq(Nat)
    BY <1>1, <2>2, HeadTailProperties
  <2>4. queue \o Tail(items) \in Seq(Nat) /\ Append(yielded, Head(items)) \in Seq(Nat)
    BY <2>3 DEF TypeOK
  <2>5. tasks \o Woken("item") \in Seq(Task)
    BY WokenType DEF TypeOK
  <2> QED
    BY <2>1, <2>4, <2>5 DEF TypeOK
<1> QED
  BY <1>2, <1>3, <1>4

\* Ending the stream keeps the types.
LEMMA EndStreamType ==
  ASSUME TypeOK, NEW error \in Errors \cup {"none"}, NEW told, NEW left \in Seq(Task),
         EndStream(error, told, left)
  PROVE  /\ kind' \in {"read", "subscribe"}
         /\ signal' \in {"none", "armed", "detached", "aborted"}
         /\ pending' \in BOOLEAN /\ cancels' \in Nat /\ closed' \in BOOLEAN
         /\ queue' \in Seq(Nat) /\ waiting' \subseteq Consumers
         /\ done' \in BOOLEAN /\ terminalError' \in Errors \cup {"none"}
         /\ arrived' \in Nat /\ yielded' \in Seq(Nat) /\ tasks' \in Seq(Task)
<1>1. /\ closed' = TRUE /\ signal' = Detached /\ pending' = FALSE
      /\ cancels' = IF told /\ pending THEN cancels + 1 ELSE cancels
      /\ SinkEnd(error, left) /\ UNCHANGED <<kind, arrived, yielded>>
  BY DEF EndStream, historyVars
<1>2. signal' \in {"none", "armed", "detached", "aborted"}
  BY <1>1 DEF Detached, TypeOK
<1>3. cancels' \in Nat
  BY <1>1 DEF TypeOK
<1>4. /\ queue' \in Seq(Nat) /\ waiting' \subseteq Consumers /\ done' \in BOOLEAN
      /\ terminalError' \in Errors \cup {"none"} /\ tasks' \in Seq(Task)
  <2>1. CASE done
    BY <1>1, <2>1 DEF SinkEnd, sinkVars, TypeOK
  <2>2. CASE ~done
    <3>1. /\ done' = TRUE /\ terminalError' = error /\ waiting' = {} /\ queue' = queue
          /\ tasks' = left \o Woken(IF error = "none" THEN "finished" ELSE "failed")
      BY <1>1, <2>2 DEF SinkEnd
    <3>2. Woken(IF error = "none" THEN "finished" ELSE "failed") \in Seq(Task)
      BY WokenType
    <3>3. tasks' \in Seq(Task)
      BY <3>1, <3>2
    <3> QED
      BY <3>1, <3>3 DEF TypeOK
  <2> QED
    BY <2>1, <2>2
<1> QED
  BY <1>1, <1>2, <1>3, <1>4 DEF TypeOK

\* The head of the microtask queue has a tail and an outcome.
LEMMA TasksHead ==
  ASSUME TypeOK, tasks # <<>>
  PROVE  Head(tasks) \in Task /\ Tail(tasks) \in Seq(Task)
BY HeadTailProperties DEF TypeOK

\* A call of next() keeps the types.
LEMMA CallNextType ==
  ASSUME TypeOK, NEW c \in Consumers, CallNext(c)
  PROVE  TypeOK'
<1>1. /\ loop' \in [Consumers -> {"body", "awaiting", "finished", "failed", "refused", "broke"}]
      /\ UNCHANGED <<kind, signal, closed, watermark, pending, cancels, arrived, inData>>
  BY DEF CallNext, baseVars, TypeOK
<1>2. \A how \in {"item", "finished", "failed", "refused"} :
        Append(tasks, Settled(c, how)) \in Seq(Task)
  <2> SUFFICES ASSUME NEW how \in {"item", "finished", "failed", "refused"}
               PROVE  Append(tasks, Settled(c, how)) \in Seq(Task)
    OBVIOUS
  <2>1. Settled(c, how) \in Task
    BY DEF Settled, Task
  <2> QED
    BY <2>1 DEF TypeOK
<1>3. CASE NextItem(c)
  <2>1. Head(queue) \in Nat /\ Tail(queue) \in Seq(Nat)
    BY <1>3, HeadTailProperties DEF NextItem, TypeOK
  <2>2. Append(yielded, Head(queue)) \in Seq(Nat)
    BY <2>1 DEF TypeOK
  <2> QED
    BY <1>1, <1>2, <1>3, <2>1, <2>2 DEF NextItem, TypeOK
<1>4. CASE NextEnd(c)
  <2>1. tasks' \in Seq(Task)
    BY <1>2, <1>4 DEF NextEnd
  <2> QED
    BY <1>1, <1>4, <2>1 DEF NextEnd, sinkVars, TypeOK
<1>5. CASE NextRefused(c)
  BY <1>1, <1>2, <1>5 DEF NextRefused, sinkVars, TypeOK
<1>6. CASE NextWaits(c)
  BY <1>1, <1>6 DEF NextWaits, TypeOK
<1> QED
  BY <1>3, <1>4, <1>5, <1>6 DEF CallNext

\* The first states have the types.
LEMMA TypeInit == Init => TypeOK
<1> SUFFICES ASSUME Init PROVE TypeOK
  OBVIOUS
<1>1. /\ queue \in Seq(Nat) /\ yielded \in Seq(Nat)
  BY DEF Init
<1>2. tasks \in Seq(Task)
  <2>1. AbortTask \in Task /\ <<>> \in Seq(Task)
    BY DEF Task
  <2>2. <<AbortTask>> \in Seq(Task)
    BY <2>1
  <2> QED
    BY <2>1, <2>2 DEF Init
<1>3. loop \in [Consumers -> {"body", "awaiting", "finished", "failed", "refused", "broke"}]
  BY DEF Init
<1> QED
  BY <1>1, <1>2, <1>3 DEF Init, TypeOK

\* Every step keeps them.
LEMMA TypeStep == TypeOK /\ [Next]_vars => TypeOK'
<1> SUFFICES ASSUME TypeOK, [Next]_vars
             PROVE  TypeOK'
  OBVIOUS
<1>0. tasks \in Seq(Task) /\ "none" \in Errors \cup {"none"}
      /\ Errors \subseteq Errors \cup {"none"}
  BY DEF TypeOK
<1>1. ASSUME NEW n \in 0 .. MaxFrame, Deliver(n) PROVE TypeOK'
  <2>1. n \in Nat /\ Push(n)
    BY <1>1, StreamAssumption DEF Deliver
  <2> QED
    BY <1>1, <2>1, PushType DEF Deliver, baseVars, TypeOK
<1>2. CASE EndWith
  <2>1. EndStream("none", FALSE, tasks)
    BY <1>2 DEF EndWith
  <2> QED
    BY <1>0, <1>2, <2>1, EndStreamType DEF EndWith, TypeOK
<1>3. CASE ServerError
  <2>1. EndStream("serverError", FALSE, tasks) /\ "serverError" \in Errors
    BY <1>3 DEF ServerError, Errors
  <2> QED
    BY <1>0, <1>3, <2>1, EndStreamType DEF ServerError, TypeOK
<1>4. CASE Mismatch
  <2>1. EndStream("protocolError", TRUE, tasks) /\ "protocolError" \in Errors
    BY <1>4 DEF Mismatch, Errors
  <2> QED
    BY <1>0, <1>4, <2>1, EndStreamType DEF Mismatch, TypeOK
<1>5. CASE EndChunk
  BY <1>5 DEF EndChunk, sinkVars, baseVars, historyVars, TypeOK
<1>6. CASE ConnectionFails
  <2>1. EndStream("connError", FALSE, tasks) /\ "connError" \in Errors
    BY <1>6 DEF ConnectionFails, Errors
  <2> QED
    BY <1>0, <1>6, <2>1, EndStreamType DEF ConnectionFails, TypeOK
<1>7. CASE Abort
  <2>1. EndStream("aborted", TRUE, tasks) /\ "aborted" \in Errors
    BY <1>7 DEF Abort, Errors
  <2> QED
    BY <1>0, <1>7, <2>1, EndStreamType DEF Abort, TypeOK
<1>8. CASE Close
  <2>1. EndStream("none", TRUE, tasks)
    BY <1>8 DEF Close
  <2> QED
    BY <1>0, <1>8, <2>1, EndStreamType DEF Close, TypeOK
<1>9. ASSUME NEW c \in Consumers, CallNext(c) PROVE TypeOK'
  BY <1>9, CallNextType
<1>10. ASSUME NEW c \in Consumers, Break(c) PROVE TypeOK'
  <2>1. /\ loop' \in [Consumers -> {"body", "awaiting", "finished", "failed", "refused", "broke"}]
        /\ UNCHANGED <<watermark, inData>>
    BY <1>10 DEF Break, TypeOK
  <2>2. CASE closed
    BY <1>10, <2>1, <2>2 DEF Break, sinkVars, historyVars, TypeOK
  <2>3. CASE ~closed
    <3>1. EndStream("none", TRUE, tasks)
      BY <1>10, <2>3 DEF Break
    <3> QED
      BY <1>0, <2>1, <3>1, EndStreamType DEF TypeOK
  <2> QED
    BY <2>2, <2>3
<1>11. ASSUME NEW c \in Consumers, ResumeLoop(c) PROVE TypeOK'
  <2>1. /\ Head(tasks) \in Task /\ Tail(tasks) \in Seq(Task) /\ Head(tasks).run = "loop"
    BY <1>11, TasksHead DEF ResumeLoop
  <2>2. Head(tasks).how \in {"item", "finished", "failed", "refused"}
    BY <2>1 DEF Task, AbortTask
  <2>3. loop' \in [Consumers -> {"body", "awaiting", "finished", "failed", "refused", "broke"}]
    BY <1>11, <2>2 DEF ResumeLoop, TypeOK
  <2> QED
    BY <1>11, <2>1, <2>3 DEF ResumeLoop, sinkVars, baseVars, historyVars, TypeOK
<1>12. CASE RunAbort
  <2>1. Tail(tasks) \in Seq(Task) /\ UNCHANGED <<watermark, loop, inData>>
    BY <1>12, TasksHead DEF RunAbort
  <2>2. CASE closed
    BY <1>12, <2>1, <2>2 DEF RunAbort, sinkVars, historyVars, TypeOK
  <2>3. CASE ~closed
    <3>1. EndStream("aborted", TRUE, Tail(tasks)) /\ "aborted" \in Errors
      BY <1>12, <2>3 DEF RunAbort, Errors
    <3> QED
      BY <1>0, <2>1, <3>1, EndStreamType DEF TypeOK
  <2> QED
    BY <2>2, <2>3
<1>13. CASE UNCHANGED vars
  BY <1>13 DEF vars, sinkVars, baseVars, historyVars, TypeOK
<1> QED
  BY <1>1, <1>2, <1>3, <1>4, <1>5, <1>6, <1>7, <1>8, <1>9, <1>10, <1>11, <1>12, <1>13
  DEF Next, Reader, Microtask

\* Every variable of a stream keeps its type.
THEOREM Typing == Spec => []TypeOK
BY TypeInit, TypeStep, PTL DEF Spec

-----------------------------------------------------------------------------
(* One end.                                                                *)

\* Ending the stream leaves the three flags in agreement.
LEMMA EndStreamFlags ==
  ASSUME TypeOK, NEW error, NEW told, NEW left, EndStream(error, told, left)
  PROVE  pending' = FALSE /\ closed' = TRUE /\ done' = TRUE
<1>1. CASE done
  BY <1>1 DEF EndStream, SinkEnd, sinkVars, TypeOK
<1>2. CASE ~done
  BY <1>2 DEF EndStream, SinkEnd
<1> QED
  BY <1>1, <1>2

\* A step ends the stream, feeds it, calls next(), or leaves the flags alone.
LEMMA StepCases ==
  ASSUME TypeOK, [Next]_vars
  PROVE  \/ EndWith
         \/ /\ UNCHANGED watermark
            /\ \E error \in Errors \cup {"none"}, told \in BOOLEAN, left \in Seq(Task) :
                 EndStream(error, told, left)
         \/ \E n \in Nat : Deliver(n)
         \/ \E c \in Consumers : CallNext(c)
         \/ UNCHANGED <<kind, closed, pending, cancels, watermark, sinkVars, historyVars>>
<1>0. tasks \in Seq(Task)
  BY DEF TypeOK
<1>1. CASE Reader
  <2>1. ASSUME NEW n \in 0 .. MaxFrame, Deliver(n) PROVE \E m \in Nat : Deliver(m)
    BY <2>1, StreamAssumption
  <2>2. CASE EndChunk
    BY <2>2 DEF EndChunk, baseVars
  <2>3. CASE ServerError
    BY <1>0, <2>3 DEF ServerError, Errors
  <2>4. CASE Mismatch
    BY <1>0, <2>4 DEF Mismatch, Errors
  <2>5. CASE ConnectionFails
    BY <1>0, <2>5 DEF ConnectionFails, Errors
  <2> QED
    BY <1>1, <2>1, <2>2, <2>3, <2>4, <2>5 DEF Reader
<1>2. CASE Abort
  BY <1>0, <1>2 DEF Abort, Errors
<1>3. CASE Close
  BY <1>0, <1>3 DEF Close
<1>4. ASSUME NEW c \in Consumers, Break(c)
      PROVE  \/ /\ UNCHANGED watermark
                /\ EndStream("none", TRUE, tasks)
             \/ UNCHANGED <<kind, closed, pending, cancels, watermark, sinkVars, historyVars>>
  BY <1>4 DEF Break
<1>5. ASSUME NEW c \in Consumers, ResumeLoop(c)
      PROVE  UNCHANGED <<kind, closed, pending, cancels, watermark, sinkVars, historyVars>>
  BY <1>5 DEF ResumeLoop, baseVars
<1>6. CASE RunAbort
  <2>1. Tail(tasks) \in Seq(Task)
    BY <1>6, TasksHead DEF RunAbort
  <2> QED
    BY <1>6, <2>1 DEF RunAbort, Errors
<1>7. CASE UNCHANGED vars
  BY <1>7 DEF vars, baseVars
<1> QED
  BY <1>0, <1>1, <1>2, <1>3, <1>4, <1>5, <1>6, <1>7 DEF Next, Microtask

\* No other step touches the flags or the watermark.
LEMMA DeliverFlags ==
  ASSUME NEW n, Deliver(n)
  PROVE  UNCHANGED <<kind, pending, closed, watermark, cancels, done, terminalError>> /\ pending
BY DEF Deliver, Push, FrameDue, baseVars, sinkVars

\* A call of next ends no stream.
LEMMA CallNextFlags ==
  ASSUME NEW c, CallNext(c)
  PROVE  UNCHANGED <<kind, pending, closed, watermark, cancels, done, terminalError>>
BY DEF CallNext, NextItem, NextEnd, NextRefused, NextWaits, baseVars, sinkVars

\* The flags agree, whatever ends the stream and however often it is tried.
LEMMA OneEndStep ==
  ASSUME TypeOK, OneEnd, [Next]_vars
  PROVE  OneEnd'
<1>1. CASE EndWith
  BY <1>1, EndStreamFlags DEF EndWith, OneEnd
<1>2. ASSUME NEW error \in Errors \cup {"none"}, NEW told \in BOOLEAN, NEW left \in Seq(Task),
             EndStream(error, told, left)
      PROVE  OneEnd'
  BY <1>2, EndStreamFlags DEF OneEnd
<1>3. ASSUME NEW n \in Nat, Deliver(n) PROVE OneEnd'
  BY <1>3, DeliverFlags DEF OneEnd
<1>4. ASSUME NEW c \in Consumers, CallNext(c) PROVE OneEnd'
  BY <1>4, CallNextFlags DEF OneEnd
<1>5. CASE UNCHANGED <<kind, closed, pending, cancels, watermark, sinkVars, historyVars>>
  BY <1>5 DEF OneEnd, sinkVars
<1> QED
  BY <1>1, <1>2, <1>3, <1>4, <1>5, StepCases

\* The flags of the stream, the sink and the connection agree on whether it has ended.
THEOREM FlagsAgree == Spec => []OneEnd
<1>1. Init => TypeOK /\ OneEnd
  BY TypeInit DEF Init, OneEnd
<1>2. TypeOK /\ OneEnd /\ [Next]_vars => (TypeOK /\ OneEnd)'
  BY TypeStep, OneEndStep
<1> QED
  BY <1>1, <1>2, PTL DEF Spec

-----------------------------------------------------------------------------
(* The watermark.  A stream that has not ended has sent no cancel and met  *)
(* no error; one that has ended changes no more.                           *)

Fresh == pending => watermark = "undefined" /\ cancels = 0 /\ terminalError = "none"
WatermarkInv == TypeOK /\ OneEnd /\ WatermarkIsFinal /\ Fresh

\* Every step keeps it.
LEMMA WatermarkStep ==
  ASSUME WatermarkInv, [Next]_vars
  PROVE  (WatermarkIsFinal /\ Fresh)'
<1> USE DEF WatermarkInv
<1>1. CASE EndWith
  <2>1. /\ kind = "read" /\ pending /\ ~done /\ watermark' = "set"
        /\ EndStream("none", FALSE, tasks)
    BY <1>1 DEF EndWith, FrameDue, OneEnd
  <2>2. terminalError' = "none" /\ cancels' = 0 /\ kind' = "read"
    BY <2>1 DEF EndStream, SinkEnd, Fresh
  <2> QED
    BY <2>1, <2>2, EndStreamFlags DEF WatermarkIsFinal, Fresh
<1>2. ASSUME NEW error \in Errors \cup {"none"}, NEW told \in BOOLEAN, NEW left \in Seq(Task),
             EndStream(error, told, left), UNCHANGED watermark
      PROVE  (WatermarkIsFinal /\ Fresh)'
  <2>1. /\ pending' = FALSE /\ done' = TRUE
    BY <1>2, EndStreamFlags
  <2>2. CASE watermark = "set"
    <3>1. kind = "read" /\ done /\ terminalError = "none" /\ cancels = 0 /\ ~pending
      BY <2>2 DEF WatermarkIsFinal, OneEnd, TypeOK
    <3>2. UNCHANGED <<kind, terminalError, cancels>>
      BY <1>2, <3>1 DEF EndStream, SinkEnd, sinkVars
    <3> QED
      BY <2>1, <3>1, <3>2 DEF WatermarkIsFinal, Fresh
  <2>3. CASE watermark # "set"
    BY <1>2, <2>1, <2>3 DEF WatermarkIsFinal, Fresh
  <2> QED
    BY <2>2, <2>3
<1>3. CASE UNCHANGED <<kind, pending, watermark, cancels, done, terminalError>>
  BY <1>3 DEF WatermarkIsFinal, Fresh
<1>4. ASSUME NEW n \in Nat, Deliver(n) PROVE (WatermarkIsFinal /\ Fresh)'
  BY <1>3, <1>4, DeliverFlags
<1>5. ASSUME NEW c \in Consumers, CallNext(c) PROVE (WatermarkIsFinal /\ Fresh)'
  BY <1>3, <1>5, CallNextFlags
<1>6. CASE UNCHANGED <<kind, closed, pending, cancels, watermark, sinkVars, historyVars>>
  BY <1>3, <1>6 DEF sinkVars
<1> QED
  BY <1>1, <1>2, <1>4, <1>5, <1>6, StepCases

\* A read has its watermark only after an end by the server's word, with no error and
\* no cancel before or after it.
THEOREM WatermarkFinal == Spec => []WatermarkIsFinal
<1>1. Init => WatermarkInv
  BY TypeInit DEF Init, WatermarkInv, OneEnd, WatermarkIsFinal, Fresh
<1>2. WatermarkInv /\ [Next]_vars => WatermarkInv'
  BY TypeStep, OneEndStep, WatermarkStep DEF WatermarkInv
<1>3. WatermarkInv => WatermarkIsFinal
  BY DEF WatermarkInv
<1> QED
  BY <1>1, <1>2, <1>3, PTL DEF Spec

-----------------------------------------------------------------------------
(* Every item once.  What was yielded and what is buffered, in this order, *)
(* is what arrived; the sink buffers nothing while a loop waits.           *)

\* Moving the head of one sequence to the end of another keeps their concatenation.
LEMMA MoveHead ==
  ASSUME NEW s \in Seq(Nat), NEW t \in Seq(Nat), t # <<>>
  PROVE  Append(s, Head(t)) \o Tail(t) = s \o t
<1>1. Head(t) \in Nat /\ Tail(t) \in Seq(Nat) /\ t = <<Head(t)>> \o Tail(t)
  BY HeadTailProperties
<1>2. Append(s, Head(t)) = s \o <<Head(t)>> /\ <<Head(t)>> \in Seq(Nat)
  BY <1>1, AppendIsConcat
<1>3. (s \o <<Head(t)>>) \o Tail(t) = s \o (<<Head(t)>> \o Tail(t))
  BY <1>1, <1>2, ConcatAssociative, SMTT(30)
<1> QED
  BY <1>1, <1>2, <1>3

\* Concatenation of sequences of items is associative.
LEMMA ConcatNat == \A s, t, u \in Seq(Nat) : (s \o t) \o u = s \o (t \o u)
<1> SUFFICES ASSUME NEW s \in Seq(Nat), NEW t \in Seq(Nat), NEW u \in Seq(Nat)
             PROVE  (s \o t) \o u = s \o (t \o u)
  OBVIOUS
<1> QED
  BY ConcatAssociative, SMTT(30)

\* The items of a frame continue the numbering.
LEMMA Numbered ==
  ASSUME NEW k \in Nat, NEW n \in Nat
  PROVE  [i \in 1 .. k |-> i] \o [i \in 1 .. n |-> k + i] = [i \in 1 .. k + n |-> i]
<1> DEFINE s == [i \in 1 .. k |-> i]
           t == [i \in 1 .. n |-> k + i]
           u == [i \in 1 .. k + n |-> i]
<1>1. s \in Seq(Nat) /\ Len(s) = k /\ \A i \in 1 .. k : s[i] = i
  OBVIOUS
<1>2. t \in Seq(Nat) /\ Len(t) = n /\ \A i \in 1 .. n : t[i] = k + i
  OBVIOUS
<1>3. u \in Seq(Nat) /\ Len(u) = k + n /\ \A i \in 1 .. k + n : u[i] = i
  OBVIOUS
<1> HIDE DEF s, t, u
<1>4. /\ s \o t \in Seq(Nat) /\ Len(s \o t) = k + n
      /\ \A i \in 1 .. k + n : (s \o t)[i] = IF i <= k THEN s[i] ELSE t[i - k]
  BY <1>1, <1>2, ConcatProperties
<1>5. ASSUME NEW i \in 1 .. k + n PROVE (s \o t)[i] = u[i]
  <2>1. CASE i <= k
    BY <1>1, <1>3, <1>4, <2>1
  <2>2. CASE ~(i <= k)
    <3>1. i - k \in 1 .. n
      BY <2>2
    <3>2. t[i - k] = i
      BY <1>2, <3>1
    <3> QED
      BY <1>3, <1>4, <2>2, <3>2
  <2> QED
    BY <2>1, <2>2
<1>6. s \o t = u
  BY <1>3, <1>4, <1>5, SeqEqual
<1> QED
  BY <1>6 DEF s, t, u

WaitsEmpty == waiting # {} => queue = <<>>
OrderInv == TypeOK /\ OneEnd /\ EveryItemOnce /\ WaitsEmpty

\* Ending the stream moves no item.
LEMMA EndStreamOrder ==
  ASSUME OrderInv, NEW error, NEW told, NEW left, EndStream(error, told, left)
  PROVE  (EveryItemOnce /\ WaitsEmpty)'
<1>1. UNCHANGED <<arrived, yielded>>
  BY DEF EndStream, historyVars
<1>2. CASE done
  BY <1>1, <1>2 DEF EndStream, SinkEnd, sinkVars, OrderInv, EveryItemOnce, WaitsEmpty
<1>3. CASE ~done
  BY <1>1, <1>3 DEF EndStream, SinkEnd, OrderInv, EveryItemOnce, WaitsEmpty
<1> QED
  BY <1>2, <1>3

\* A frame adds its items at the end, the first to the loop that waits.
LEMMA DeliverOrder ==
  ASSUME OrderInv, NEW n \in Nat, Deliver(n)
  PROVE  (EveryItemOnce /\ WaitsEmpty)'
<1> DEFINE items == [i \in 1 .. n |-> arrived + i]
           before == [i \in 1 .. arrived |-> i]
<1> USE DEF OrderInv
<1>1. /\ arrived \in Nat /\ queue \in Seq(Nat) /\ yielded \in Seq(Nat)
      /\ yielded \o queue = before
  BY DEF TypeOK, EveryItemOnce
<1>2. ~done /\ Push(n) /\ arrived' = arrived + n
  BY DEF Deliver, FrameDue, OneEnd
<1>3. items \in Seq(Nat) /\ Len(items) = n
  BY <1>1
<1>4. before \o items = [i \in 1 .. arrived + n |-> i]
  BY <1>1, Numbered
<1>5. CASE n = 0
  <2>1. UNCHANGED <<queue, waiting, yielded>> /\ arrived' = arrived
    BY <1>1, <1>2, <1>5 DEF Push, sinkVars
  <2> QED
    BY <2>1 DEF EveryItemOnce, WaitsEmpty
<1>6. CASE n > 0 /\ waiting = {}
  <2>1. queue' = queue \o items /\ UNCHANGED <<waiting, yielded>>
    BY <1>2, <1>6 DEF Push
  <2> HIDE DEF items, before
  <2>2. (yielded \o queue) \o items = yielded \o (queue \o items)
    BY <1>1, <1>3, ConcatNat
  <2>3. yielded' \o queue' = [i \in 1 .. arrived' |-> i]
    BY <1>1, <1>2, <1>4, <2>1, <2>2
  <2> QED
    BY <1>6, <2>1, <2>3 DEF EveryItemOnce, WaitsEmpty
<1>7. CASE n > 0 /\ waiting # {}
  <2>0. n # 0
    BY <1>7
  <2>1. /\ queue' = queue \o Tail(items) /\ waiting' = {}
        /\ yielded' = Append(yielded, Head(items))
    BY <1>2, <1>7, <2>0, Zenon DEF Push
  <2>2. items # <<>>
    BY <1>3, <2>0
  <2> HIDE DEF items, before
  <2>3. queue = <<>> /\ Tail(items) \in Seq(Nat)
    BY <1>3, <1>7, <2>2, HeadTailProperties DEF WaitsEmpty
  <2>4. queue' = Tail(items) /\ yielded = before
    BY <1>1, <2>1, <2>3, ConcatEmptySeq
  <2>5. yielded' \o queue' = yielded \o items
    BY <1>1, <1>3, <2>1, <2>2, <2>4, MoveHead
  <2>6. yielded' \o queue' = [i \in 1 .. arrived' |-> i]
    BY <1>2, <1>4, <2>4, <2>5
  <2> QED
    BY <2>1, <2>6 DEF EveryItemOnce, WaitsEmpty
<1> QED
  BY <1>5, <1>6, <1>7

\* A next() takes the head of the buffer, or nothing.
LEMMA CallNextOrder ==
  ASSUME OrderInv, NEW c \in Consumers, CallNext(c)
  PROVE  (EveryItemOnce /\ WaitsEmpty)'
<1> USE DEF OrderInv
<1>0. arrived' = arrived /\ queue \in Seq(Nat) /\ yielded \in Seq(Nat)
  BY DEF CallNext, TypeOK
<1>1. CASE NextItem(c)
  <2>1. yielded' \o queue' = yielded \o queue
    BY <1>0, <1>1, MoveHead DEF NextItem
  <2>2. waiting' = {}
    BY <1>1 DEF NextItem, WaitsEmpty
  <2> QED
    BY <1>0, <2>1, <2>2 DEF EveryItemOnce, WaitsEmpty
<1>2. CASE NextEnd(c) \/ NextRefused(c)
  BY <1>0, <1>2 DEF NextEnd, NextRefused, sinkVars, EveryItemOnce, WaitsEmpty
<1>3. CASE NextWaits(c)
  BY <1>0, <1>3 DEF NextWaits, EveryItemOnce, WaitsEmpty
<1> QED
  BY <1>1, <1>2, <1>3 DEF CallNext

\* Every step keeps the order.
LEMMA OrderStep ==
  ASSUME OrderInv, [Next]_vars
  PROVE  (EveryItemOnce /\ WaitsEmpty)'
<1>0. TypeOK
  BY DEF OrderInv
<1>1. CASE EndWith
  BY <1>1, EndStreamOrder DEF EndWith
<1>2. ASSUME NEW error \in Errors \cup {"none"}, NEW told \in BOOLEAN, NEW left \in Seq(Task),
             EndStream(error, told, left)
      PROVE  (EveryItemOnce /\ WaitsEmpty)'
  BY <1>2, EndStreamOrder
<1>3. ASSUME NEW n \in Nat, Deliver(n) PROVE (EveryItemOnce /\ WaitsEmpty)'
  BY <1>3, DeliverOrder
<1>4. ASSUME NEW c \in Consumers, CallNext(c) PROVE (EveryItemOnce /\ WaitsEmpty)'
  BY <1>4, CallNextOrder
<1>5. CASE UNCHANGED <<kind, closed, pending, cancels, watermark, sinkVars, historyVars>>
  BY <1>5 DEF OrderInv, EveryItemOnce, WaitsEmpty, sinkVars, historyVars
<1> QED
  BY <1>0, <1>1, <1>2, <1>3, <1>4, <1>5, StepCases

\* No item is lost, duplicated or reordered between the wire and the loops.
THEOREM ItemsInOrder == Spec => []EveryItemOnce
<1>1. Init => OrderInv
  <2> SUFFICES ASSUME Init PROVE EveryItemOnce /\ WaitsEmpty /\ OneEnd
    BY TypeInit DEF OrderInv
  <2>1. <<>> \o <<>> = <<>> /\ [i \in 1 .. 0 |-> i] = <<>>
    OBVIOUS
  <2> QED
    BY <2>1 DEF Init, EveryItemOnce, WaitsEmpty, OneEnd
<1>2. OrderInv /\ [Next]_vars => OrderInv'
  BY TypeStep, OneEndStep, OrderStep DEF OrderInv
<1>3. OrderInv => EveryItemOnce
  BY DEF OrderInv
<1> QED
  BY <1>1, <1>2, <1>3, PTL DEF Spec

-----------------------------------------------------------------------------
(* Loops.  A loop awaits exactly when it is the one the sink will settle   *)
(* or a microtask will resume it, never both and never two; and a          *)
(* microtask that tells a loop of the end says how the stream ended, after *)
(* the buffer was drained.                                                 *)

IsDue(task, c) == task.run = "loop" /\ task.who = c

\* "w" the loops that wait, "l" where each is, "t" the microtasks.
Matched(w, l, t) ==
  /\ \A a, b \in w : a = b
  /\ \A c \in Consumers : \A i, j \in 1 .. Len(t) : IsDue(t[i], c) /\ IsDue(t[j], c) => i = j
  /\ \A c \in Consumers :
       (l[c] = "awaiting") <=> (c \in w \/ \E i \in 1 .. Len(t) : IsDue(t[i], c))
  /\ \A c \in w : \A i \in 1 .. Len(t) : ~IsDue(t[i], c)

\* A task that brings an end to a loop brings the end "e" of a sink that is done and drained.
Honest(task, d, q, e) ==
  task.run = "loop" /\ task.how \in {"finished", "failed"} =>
    d /\ q = <<>> /\ (task.how = "finished" <=> e = "none")

AllHonest(t, d, q, e) == \A i \in 1 .. Len(t) : Honest(t[i], d, q, e)

LoopInv ==
  /\ OrderInv
  /\ waiting # {} => ~done
  /\ Matched(waiting, loop, tasks)
  /\ AllHonest(tasks, done, queue, terminalError)

\* The elements of a sequence with one more at its end.
LEMMA AppendAt ==
  ASSUME NEW t \in Seq(Task), NEW x \in Task
  PROVE  /\ Len(Append(t, x)) = Len(t) + 1 /\ Len(t) \in Nat
         /\ \A i \in 1 .. Len(t) : Append(t, x)[i] = t[i]
         /\ Append(t, x)[Len(t) + 1] = x
BY AppendProperties

\* The elements of a tail.
LEMMA TailAt ==
  ASSUME NEW t \in Seq(Task), t # <<>>
  PROVE  /\ Len(t) \in Nat \ {0} /\ Len(Tail(t)) = Len(t) - 1 /\ t[1] = Head(t)
         /\ \A i \in 1 .. Len(t) - 1 : Tail(t)[i] = t[i + 1]
<1>1. Len(t) \in Nat /\ Len(t) # 0
  BY EmptySeq
<1>2. Len(Tail(t)) = Len(t) - 1 /\ \A i \in 1 .. Len(Tail(t)) : Tail(t)[i] = t[i + 1]
  BY HeadTailProperties
<1> QED
  BY <1>1, <1>2

\* What a settled next() says, and to whom.
LEMMA SettledIsDue ==
  ASSUME NEW c, NEW how
  PROVE  /\ \A d : IsDue(Settled(c, how), d) <=> d = c
         /\ Settled(c, how).how = how
BY DEF Settled, IsDue

\* The sink settles the loop that waits.
LEMMA SettlesMatched ==
  ASSUME NEW w \in SUBSET Consumers, NEW l, NEW t \in Seq(Task), Matched(w, l, t), NEW c \in w,
         NEW how \in {"item", "finished", "failed", "refused"}
  PROVE  Matched({}, l, Append(t, Settled(c, how)))
<1> DEFINE x == Settled(c, how)
           u == Append(t, x)
<1>0. x \in Task
  BY DEF Settled, Task
<1>1. \A d : IsDue(x, d) <=> d = c
  BY SettledIsDue
<1> HIDE DEF x
<1>2. /\ Len(u) = Len(t) + 1 /\ Len(t) \in Nat
      /\ \A i \in 1 .. Len(t) : u[i] = t[i]
      /\ u[Len(t) + 1] = x
  BY <1>0, AppendAt
<1> HIDE DEF u
<1>3. \A d \in Consumers : \A i, j \in 1 .. Len(u) : IsDue(u[i], d) /\ IsDue(u[j], d) => i = j
  <2> SUFFICES ASSUME NEW d \in Consumers, NEW i \in 1 .. Len(u), NEW j \in 1 .. Len(u),
                      IsDue(u[i], d), IsDue(u[j], d)
               PROVE  i = j
    OBVIOUS
  <2>1. CASE d = c
    <3>1. \A k \in 1 .. Len(t) : ~IsDue(t[k], d)
      BY <2>1 DEF Matched
    <3> QED
      BY <1>2, <3>1
  <2>2. CASE d # c
    <3>1. ~IsDue(x, d)
      BY <1>1, <2>2
    <3>2. i \in 1 .. Len(t) /\ j \in 1 .. Len(t)
      BY <1>2, <3>1
    <3> QED
      BY <1>2, <3>2 DEF Matched
  <2> QED
    BY <2>1, <2>2
<1>4. ASSUME NEW d \in Consumers
      PROVE  (l[d] = "awaiting") <=> \E i \in 1 .. Len(u) : IsDue(u[i], d)
  <2>1. (l[d] = "awaiting") <=> (d \in w \/ \E i \in 1 .. Len(t) : IsDue(t[i], d))
    BY DEF Matched
  <2>2. d \in w <=> d = c
    BY DEF Matched
  <2>3. (\E i \in 1 .. Len(u) : IsDue(u[i], d))
          <=> (IsDue(x, d) \/ \E i \in 1 .. Len(t) : IsDue(t[i], d))
    BY <1>2
  <2> QED
    BY <1>1, <2>1, <2>2, <2>3
<1>5. Matched({}, l, u)
  BY <1>3, <1>4 DEF Matched
<1> QED
  BY <1>5 DEF u, x

\* A call of next() that is settled at once.
LEMMA AnswersMatched ==
  ASSUME NEW w \in SUBSET Consumers, NEW l, NEW t \in Seq(Task), Matched(w, l, t),
         NEW c \in Consumers, l[c] # "awaiting",
         NEW m, m[c] = "awaiting", \A d \in Consumers \ {c} : m[d] = l[d],
         NEW how \in {"item", "finished", "failed", "refused"}
  PROVE  Matched(w, m, Append(t, Settled(c, how)))
<1> DEFINE x == Settled(c, how)
           u == Append(t, x)
<1>0. x \in Task
  BY DEF Settled, Task
<1>1. \A d : IsDue(x, d) <=> d = c
  BY SettledIsDue
<1> HIDE DEF x
<1>2. /\ Len(u) = Len(t) + 1 /\ Len(t) \in Nat
      /\ \A i \in 1 .. Len(t) : u[i] = t[i]
      /\ u[Len(t) + 1] = x
  BY <1>0, AppendAt
<1> HIDE DEF u
<1>3. c \notin w /\ \A i \in 1 .. Len(t) : ~IsDue(t[i], c)
  BY DEF Matched
<1>4. \A d \in Consumers : \A i, j \in 1 .. Len(u) : IsDue(u[i], d) /\ IsDue(u[j], d) => i = j
  <2> SUFFICES ASSUME NEW d \in Consumers, NEW i \in 1 .. Len(u), NEW j \in 1 .. Len(u),
                      IsDue(u[i], d), IsDue(u[j], d)
               PROVE  i = j
    OBVIOUS
  <2>1. CASE d = c
    BY <1>2, <1>3, <2>1
  <2>2. CASE d # c
    <3>1. ~IsDue(x, d)
      BY <1>1, <2>2
    <3>2. i \in 1 .. Len(t) /\ j \in 1 .. Len(t)
      BY <1>2, <3>1
    <3> QED
      BY <1>2, <3>2 DEF Matched
  <2> QED
    BY <2>1, <2>2
<1>5. ASSUME NEW d \in Consumers
      PROVE  (m[d] = "awaiting") <=> (d \in w \/ \E i \in 1 .. Len(u) : IsDue(u[i], d))
  <2>1. (l[d] = "awaiting") <=> (d \in w \/ \E i \in 1 .. Len(t) : IsDue(t[i], d))
    BY DEF Matched
  <2>2. (\E i \in 1 .. Len(u) : IsDue(u[i], d))
          <=> (IsDue(x, d) \/ \E i \in 1 .. Len(t) : IsDue(t[i], d))
    BY <1>2
  <2> QED
    BY <1>1, <2>1, <2>2
<1>6. \A d \in w : \A i \in 1 .. Len(u) : ~IsDue(u[i], d)
  BY <1>1, <1>2, <1>3 DEF Matched
<1>7. Matched(w, m, u)
  BY <1>4, <1>5, <1>6 DEF Matched
<1> QED
  BY <1>7 DEF u, x

\* A call of next() that is left waiting, and a break.
LEMMA WaitsMatched ==
  ASSUME NEW l, NEW t, Matched({}, l, t), NEW c \in Consumers, l[c] # "awaiting",
         NEW m, m[c] = "awaiting", \A d \in Consumers \ {c} : m[d] = l[d]
  PROVE  Matched({c}, m, t)
BY DEF Matched

\* A loop that is left awaits nothing.
LEMMA BreaksMatched ==
  ASSUME NEW w, NEW l, NEW t, Matched(w, l, t), NEW c \in Consumers, l[c] # "awaiting",
         NEW m, m[c] # "awaiting", \A d \in Consumers \ {c} : m[d] = l[d]
  PROVE  Matched(w, m, t)
BY DEF Matched

\* A microtask that is no loop's leaves the queue.
LEMMA SkipsMatched ==
  ASSUME NEW w \in SUBSET Consumers, NEW l, NEW t \in Seq(Task), Matched(w, l, t), t # <<>>,
         \A d \in Consumers : ~IsDue(Head(t), d)
  PROVE  Matched(w, l, Tail(t))
<1> DEFINE u == Tail(t)
<1>1. /\ Len(t) \in Nat \ {0} /\ Len(u) = Len(t) - 1 /\ t[1] = Head(t)
      /\ \A i \in 1 .. Len(t) - 1 : u[i] = t[i + 1]
  BY TailAt
<1> HIDE DEF u
<1>2. \A d \in Consumers : \A i, j \in 1 .. Len(u) : IsDue(u[i], d) /\ IsDue(u[j], d) => i = j
  <2> SUFFICES ASSUME NEW d \in Consumers, NEW i \in 1 .. Len(u), NEW j \in 1 .. Len(u),
                      IsDue(u[i], d), IsDue(u[j], d)
               PROVE  i = j
    OBVIOUS
  <2>1. i + 1 \in 1 .. Len(t) /\ j + 1 \in 1 .. Len(t) /\ IsDue(t[i + 1], d) /\ IsDue(t[j + 1], d)
    BY <1>1
  <2>2. i + 1 = j + 1
    BY <2>1 DEF Matched
  <2> QED
    BY <1>1, <2>2
<1>3. ASSUME NEW d \in Consumers
      PROVE  (\E i \in 1 .. Len(u) : IsDue(u[i], d)) <=> (\E i \in 1 .. Len(t) : IsDue(t[i], d))
  <2>1. ASSUME NEW i \in 1 .. Len(u), IsDue(u[i], d) PROVE \E j \in 1 .. Len(t) : IsDue(t[j], d)
    <3>1. i + 1 \in 1 .. Len(t) /\ IsDue(t[i + 1], d)
      BY <1>1, <2>1
    <3> QED
      BY <3>1
  <2>2. ASSUME NEW i \in 1 .. Len(t), IsDue(t[i], d) PROVE \E j \in 1 .. Len(u) : IsDue(u[j], d)
    <3>1. i # 1
      BY <1>1, <2>2
    <3>2. i - 1 \in 1 .. Len(u) /\ u[i - 1] = t[i]
      BY <1>1, <3>1
    <3> QED
      BY <2>2, <3>2
  <2> QED
    BY <2>1, <2>2
<1>4. \A d \in w : \A i \in 1 .. Len(u) : ~IsDue(u[i], d)
  BY <1>3 DEF Matched
<1>5. Matched(w, l, u)
  BY <1>2, <1>3, <1>4 DEF Matched
<1> QED
  BY <1>5 DEF u

\* A loop resumes.
LEMMA ResumesMatched ==
  ASSUME NEW w \in SUBSET Consumers, NEW l, NEW t \in Seq(Task), Matched(w, l, t), t # <<>>,
         NEW c \in Consumers, IsDue(Head(t), c),
         NEW m, m[c] # "awaiting", \A d \in Consumers \ {c} : m[d] = l[d]
  PROVE  Matched(w, m, Tail(t))
<1> DEFINE u == Tail(t)
<1>1. /\ Len(t) \in Nat \ {0} /\ Len(u) = Len(t) - 1 /\ t[1] = Head(t)
      /\ \A i \in 1 .. Len(t) - 1 : u[i] = t[i + 1]
  BY TailAt
<1> HIDE DEF u
<1>2. \A d \in Consumers : IsDue(t[1], d) <=> d = c
  BY <1>1 DEF IsDue
<1>3. 1 \in 1 .. Len(t)
  BY <1>1
<1>4. c \notin w
  BY <1>2, <1>3 DEF Matched
<1>5. \A i \in 1 .. Len(t) : IsDue(t[i], c) => i = 1
  BY <1>2, <1>3 DEF Matched
<1>6. \A d \in Consumers : \A i, j \in 1 .. Len(u) : IsDue(u[i], d) /\ IsDue(u[j], d) => i = j
  <2> SUFFICES ASSUME NEW d \in Consumers, NEW i \in 1 .. Len(u), NEW j \in 1 .. Len(u),
                      IsDue(u[i], d), IsDue(u[j], d)
               PROVE  i = j
    OBVIOUS
  <2>1. i + 1 \in 1 .. Len(t) /\ j + 1 \in 1 .. Len(t) /\ IsDue(t[i + 1], d) /\ IsDue(t[j + 1], d)
    BY <1>1
  <2>2. i + 1 = j + 1
    BY <2>1 DEF Matched
  <2> QED
    BY <1>1, <2>2
<1>7. \A i \in 1 .. Len(u) : ~IsDue(u[i], c)
  <2> SUFFICES ASSUME NEW i \in 1 .. Len(u), IsDue(u[i], c) PROVE FALSE
    OBVIOUS
  <2>1. i + 1 \in 1 .. Len(t) /\ IsDue(t[i + 1], c)
    BY <1>1
  <2> QED
    BY <1>1, <1>5, <2>1
<1>8. ASSUME NEW d \in Consumers, d # c
      PROVE  (\E i \in 1 .. Len(u) : IsDue(u[i], d)) <=> (\E i \in 1 .. Len(t) : IsDue(t[i], d))
  <2>1. ASSUME NEW i \in 1 .. Len(u), IsDue(u[i], d) PROVE \E j \in 1 .. Len(t) : IsDue(t[j], d)
    <3>1. i + 1 \in 1 .. Len(t) /\ IsDue(t[i + 1], d)
      BY <1>1, <2>1
    <3> QED
      BY <3>1
  <2>2. ASSUME NEW i \in 1 .. Len(t), IsDue(t[i], d) PROVE \E j \in 1 .. Len(u) : IsDue(u[j], d)
    <3>1. i # 1
      BY <1>2, <1>8, <2>2
    <3>2. i - 1 \in 1 .. Len(u) /\ u[i - 1] = t[i]
      BY <1>1, <3>1
    <3> QED
      BY <2>2, <3>2
  <2> QED
    BY <2>1, <2>2
<1>9. ASSUME NEW d \in Consumers
      PROVE  (m[d] = "awaiting") <=> (d \in w \/ \E i \in 1 .. Len(u) : IsDue(u[i], d))
  <2>1. CASE d = c
    BY <1>4, <1>7, <2>1
  <2>2. CASE d # c
    <3>1. (l[d] = "awaiting") <=> (d \in w \/ \E i \in 1 .. Len(t) : IsDue(t[i], d))
      BY DEF Matched
    <3> QED
      BY <1>8, <2>2, <3>1
  <2> QED
    BY <2>1, <2>2
<1>10. \A d \in w : \A i \in 1 .. Len(u) : ~IsDue(u[i], d)
  BY <1>4, <1>8 DEF Matched
<1>11. Matched(w, m, u)
  BY <1>6, <1>9, <1>10 DEF Matched
<1> QED
  BY <1>11 DEF u

\* A stream that has ended and is drained stays so, and what its tasks say of it true.
LEMMA HonestStays ==
  ASSUME NEW t, AllHonest(t, done, queue, terminalError),
         done => UNCHANGED <<done, terminalError>> /\ (queue = <<>> => queue' = <<>>)
  PROVE  AllHonest(t, done', queue', terminalError')
BY DEF AllHonest, Honest

\* One more honest task.
LEMMA HonestAppend ==
  ASSUME NEW t \in Seq(Task), NEW c \in Consumers,
         NEW how \in {"item", "finished", "failed", "refused"}, NEW d, NEW q, NEW e,
         AllHonest(t, d, q, e),
         how \in {"finished", "failed"} => d /\ q = <<>> /\ (how = "finished" <=> e = "none")
  PROVE  AllHonest(Append(t, Settled(c, how)), d, q, e)
<1> DEFINE x == Settled(c, how)
           u == Append(t, x)
<1>1. x \in Task /\ x.how = how
  BY DEF Settled, Task
<1> HIDE DEF x
<1>2. /\ Len(u) = Len(t) + 1 /\ Len(t) \in Nat
      /\ \A i \in 1 .. Len(t) : u[i] = t[i]
      /\ u[Len(t) + 1] = x
  BY <1>1, AppendAt
<1> HIDE DEF u
<1>3. Honest(x, d, q, e)
  BY <1>1 DEF Honest
<1>4. AllHonest(u, d, q, e)
  BY <1>2, <1>3 DEF AllHonest
<1> QED
  BY <1>4 DEF u, x

\* One less.
LEMMA HonestTail ==
  ASSUME NEW t \in Seq(Task), t # <<>>, NEW d, NEW q, NEW e, AllHonest(t, d, q, e)
  PROVE  AllHonest(Tail(t), d, q, e) /\ Honest(Head(t), d, q, e)
BY TailAt DEF AllHonest

\* The microtask of the loop that waits, if one does.
LEMMA WokenIs ==
  ASSUME LoopInv, NEW how
  PROVE  \/ waiting = {} /\ Woken(how) = <<>>
         \/ \E c \in Consumers : waiting = {c} /\ Woken(how) = <<Settled(c, how)>>
<1>1. CASE waiting = {}
  BY <1>1 DEF Woken
<1>2. CASE waiting # {}
  <2>1. PICK c \in waiting : TRUE
    BY <1>2
  <2>2. waiting = {c} /\ c \in Consumers
    BY <2>1 DEF LoopInv, OrderInv, TypeOK, Matched
  <2>3. (CHOOSE d \in waiting : TRUE) = c
    BY <2>2
  <2> QED
    BY <1>2, <2>2, <2>3 DEF Woken
<1> QED
  BY <1>1, <1>2

\* Settling the loop that waits, on top of the microtasks left.
LEMMA WokenMatched ==
  ASSUME LoopInv, NEW left \in Seq(Task), Matched(waiting, loop, left),
         NEW how \in {"item", "finished", "failed", "refused"}
  PROVE  Matched({}, loop, left \o Woken(how))
<1>1. CASE waiting = {} /\ Woken(how) = <<>>
  BY <1>1
<1>2. ASSUME NEW c \in Consumers, waiting = {c}, Woken(how) = <<Settled(c, how)>>
      PROVE  Matched({}, loop, left \o Woken(how))
  <2>1. Settled(c, how) \in Task
    BY DEF Settled, Task
  <2>2. left \o Woken(how) = Append(left, Settled(c, how))
    BY <1>2, <2>1, AppendIsConcat
  <2>3. c \in waiting /\ waiting \in SUBSET Consumers
    BY <1>2
  <2>4. Matched({}, loop, Append(left, Settled(c, how)))
    BY <2>3, SettlesMatched
  <2> QED
    BY <2>2, <2>4
<1> QED
  BY <1>1, <1>2, WokenIs

\* The task that settles it is honest when what it says is.
LEMMA WokenHonest ==
  ASSUME LoopInv, NEW left \in Seq(Task), NEW how \in {"item", "finished", "failed", "refused"},
         NEW d, NEW q, NEW e, AllHonest(left, d, q, e),
         how \in {"finished", "failed"} /\ waiting # {} =>
           d /\ q = <<>> /\ (how = "finished" <=> e = "none")
  PROVE  AllHonest(left \o Woken(how), d, q, e)
<1>1. CASE waiting = {} /\ Woken(how) = <<>>
  BY <1>1
<1>2. ASSUME NEW c \in Consumers, waiting = {c}, Woken(how) = <<Settled(c, how)>>
      PROVE  AllHonest(left \o Woken(how), d, q, e)
  <2>1. Settled(c, how) \in Task
    BY DEF Settled, Task
  <2>2. left \o Woken(how) = Append(left, Settled(c, how))
    BY <1>2, <2>1, AppendIsConcat
  <2>3. how \in {"finished", "failed"} => d /\ q = <<>> /\ (how = "finished" <=> e = "none")
    BY <1>2
  <2>4. AllHonest(Append(left, Settled(c, how)), d, q, e)
    BY <2>3, HonestAppend
  <2> QED
    BY <2>2, <2>4
<1> QED
  BY <1>1, <1>2, WokenIs

\* Ending the stream settles the loop that waits, with how it ended.
LEMMA EndStreamLoops ==
  ASSUME LoopInv, NEW error \in Errors \cup {"none"}, NEW told, NEW left \in Seq(Task),
         Matched(waiting, loop, left), AllHonest(left, done, queue, terminalError),
         EndStream(error, told, left)
  PROVE  /\ (waiting # {} => ~done)'
         /\ Matched(waiting', loop, tasks')
         /\ AllHonest(tasks', done', queue', terminalError')
<1>1. SinkEnd(error, left)
  BY DEF EndStream
<1>2. CASE done
  <2>1. tasks' = left /\ UNCHANGED <<queue, waiting, done, terminalError>> /\ waiting = {}
    BY <1>1, <1>2 DEF SinkEnd, sinkVars, LoopInv
  <2> QED
    BY <2>1
<1>3. CASE ~done
  <2> DEFINE how == IF error = "none" THEN "finished" ELSE "failed"
  <2>1. /\ done' = TRUE /\ terminalError' = error /\ waiting' = {} /\ queue' = queue
        /\ tasks' = left \o Woken(how)
    BY <1>1, <1>3 DEF SinkEnd
  <2>2. how \in {"item", "finished", "failed", "refused"}
    OBVIOUS
  <2>3. how = "finished" <=> terminalError' = "none"
    BY <2>1
  <2> HIDE DEF how
  <2>4. Matched({}, loop, left \o Woken(how))
    BY <2>2, WokenMatched
  <2>5. AllHonest(left, done', queue', terminalError')
    BY <1>3, HonestStays
  <2>6. waiting # {} => done' /\ queue' = <<>> /\ (how = "finished" <=> terminalError' = "none")
    BY <2>1, <2>3 DEF LoopInv, OrderInv, WaitsEmpty
  <2>7. AllHonest(left \o Woken(how), done', queue', terminalError')
    BY <2>2, <2>5, <2>6, WokenHonest
  <2> QED
    BY <2>1, <2>4, <2>7
<1> QED
  BY <1>2, <1>3

\* A frame settles the loop that waits, with its first item.
LEMMA DeliverLoops ==
  ASSUME LoopInv, NEW n \in Nat, Deliver(n)
  PROVE  /\ (waiting # {} => ~done)'
         /\ Matched(waiting', loop, tasks')
         /\ AllHonest(tasks', done', queue', terminalError')
<1>1. ~done /\ Push(n) /\ UNCHANGED <<done, terminalError>> /\ tasks \in Seq(Task)
  BY DeliverFlags DEF Deliver, FrameDue, LoopInv, OrderInv, OneEnd, TypeOK
<1>2. AllHonest(tasks, done', queue', terminalError')
  BY <1>1, HonestStays DEF LoopInv
<1>3. CASE n = 0 \/ waiting = {}
  <2>1. UNCHANGED <<waiting, tasks>>
    BY <1>1, <1>3 DEF Push, sinkVars
  <2> QED
    BY <1>1, <1>2, <2>1 DEF LoopInv
<1>4. CASE n # 0 /\ waiting # {}
  <2>1. waiting' = {} /\ tasks' = tasks \o Woken("item")
    BY <1>1, <1>4, Zenon DEF Push
  <2>2. Matched({}, loop, tasks \o Woken("item"))
    BY <1>1, WokenMatched DEF LoopInv
  <2>3. AllHonest(tasks \o Woken("item"), done', queue', terminalError')
    BY <1>1, <1>2, WokenHonest
  <2> QED
    BY <2>1, <2>2, <2>3
<1> QED
  BY <1>3, <1>4

\* A call of next() makes its loop await, and settles it at once or leaves it to the sink.
LEMMA CallNextLoops ==
  ASSUME LoopInv, NEW c \in Consumers, CallNext(c)
  PROVE  /\ (waiting # {} => ~done)'
         /\ Matched(waiting', loop', tasks')
         /\ AllHonest(tasks', done', queue', terminalError')
<1>1. /\ loop[c] = "body" /\ loop'[c] = "awaiting" /\ \A d \in Consumers \ {c} : loop'[d] = loop[d]
      /\ UNCHANGED <<done, terminalError>>
  BY CallNextFlags DEF CallNext, LoopInv, OrderInv, TypeOK
<1>2. /\ tasks \in Seq(Task) /\ waiting \in SUBSET Consumers
      /\ Matched(waiting, loop, tasks) /\ (waiting # {} => ~done)
  BY DEF LoopInv, OrderInv, TypeOK
<1>3. queue = <<>> => queue' = <<>>
  BY DEF CallNext, NextItem, NextEnd, NextRefused, NextWaits, sinkVars
<1>4. AllHonest(tasks, done', queue', terminalError')
  BY <1>1, <1>3, HonestStays DEF LoopInv
<1>5. ASSUME NEW how \in {"item", "finished", "failed", "refused"},
             tasks' = Append(tasks, Settled(c, how)), waiting' = waiting,
             how \in {"finished", "failed"} =>
               done' /\ queue' = <<>> /\ (how = "finished" <=> terminalError' = "none")
      PROVE  /\ (waiting # {} => ~done)'
             /\ Matched(waiting', loop', tasks')
             /\ AllHonest(tasks', done', queue', terminalError')
  <2>1. Matched(waiting, loop', Append(tasks, Settled(c, how)))
    BY <1>1, <1>2, AnswersMatched
  <2>2. AllHonest(Append(tasks, Settled(c, how)), done', queue', terminalError')
    BY <1>2, <1>4, <1>5, HonestAppend
  <2> QED
    BY <1>1, <1>2, <1>5, <2>1, <2>2
<1>6. CASE NextItem(c)
  BY <1>5, <1>6 DEF NextItem
<1>7. CASE NextEnd(c)
  <2> DEFINE how == IF terminalError = "none" THEN "finished" ELSE "failed"
  <2>1. how \in {"item", "finished", "failed", "refused"} /\ (how = "finished" <=> terminalError = "none")
    OBVIOUS
  <2>2. tasks' = Append(tasks, Settled(c, how)) /\ UNCHANGED <<waiting, queue>> /\ done /\ queue = <<>>
    BY <1>7 DEF NextEnd, sinkVars
  <2> HIDE DEF how
  <2> QED
    BY <1>1, <1>5, <2>1, <2>2
<1>8. CASE NextRefused(c)
  BY <1>5, <1>8 DEF NextRefused, sinkVars
<1>9. CASE NextWaits(c)
  <2>1. ~done /\ waiting = {} /\ waiting' = {c} /\ tasks' = tasks
    BY <1>9 DEF NextWaits
  <2>2. loop[c] # "awaiting" /\ Matched({}, loop, tasks)
    BY <1>1, <1>2, <2>1
  <2>3. Matched({c}, loop', tasks)
    BY <1>1, <2>2, WaitsMatched
  <2> QED
    BY <1>1, <1>4, <2>1, <2>3
<1> QED
  BY <1>6, <1>7, <1>8, <1>9 DEF CallNext

\* A step delivers a frame, ends the stream, is a loop's, or touches no loop: what each
\* leaves of the microtasks and of the loops.
LEMMA LoopCases ==
  ASSUME TypeOK, [Next]_vars
  PROVE  \/ \E n \in Nat : Deliver(n) /\ UNCHANGED loop
         \/ /\ \E error \in Errors \cup {"none"}, told \in BOOLEAN :
                 \/ EndStream(error, told, tasks)
                 \/ /\ tasks # <<>> /\ Head(tasks) = AbortTask
                    /\ EndStream(error, told, Tail(tasks))
            /\ UNCHANGED loop
         \/ \E c \in Consumers : CallNext(c)
         \/ \E c \in Consumers : Break(c)
         \/ \E c \in Consumers : ResumeLoop(c)
         \/ /\ tasks' = tasks \/ (tasks # <<>> /\ Head(tasks) = AbortTask /\ tasks' = Tail(tasks))
            /\ UNCHANGED <<sinkVars, historyVars, loop>>
<1>1. CASE Reader
  <2>1. ASSUME NEW n \in 0 .. MaxFrame, Deliver(n)
        PROVE  \E m \in Nat : Deliver(m) /\ UNCHANGED loop
    BY <2>1, StreamAssumption DEF Deliver
  <2>2. CASE EndChunk
    BY <2>2 DEF EndChunk
  <2>3. CASE EndWith
    BY <2>3 DEF EndWith
  <2>4. CASE ServerError
    BY <2>4 DEF ServerError, Errors
  <2>5. CASE Mismatch
    BY <2>5 DEF Mismatch, Errors
  <2>6. CASE ConnectionFails
    BY <2>6 DEF ConnectionFails, Errors
  <2> QED
    BY <1>1, <2>1, <2>2, <2>3, <2>4, <2>5, <2>6 DEF Reader
<1>2. CASE Abort
  BY <1>2 DEF Abort, Errors
<1>3. CASE Close
  BY <1>3 DEF Close
<1>4. CASE RunAbort
  BY <1>4 DEF RunAbort, Errors
<1>5. CASE UNCHANGED vars
  BY <1>5 DEF vars
<1> QED
  BY <1>1, <1>2, <1>3, <1>4, <1>5 DEF Next, Microtask

\* An abort that was due is no loop's.
LEMMA AbortSkipped ==
  ASSUME LoopInv, tasks # <<>>, Head(tasks) = AbortTask
  PROVE  /\ Tail(tasks) \in Seq(Task)
         /\ Matched(waiting, loop, Tail(tasks))
         /\ AllHonest(Tail(tasks), done, queue, terminalError)
<1>1. /\ tasks \in Seq(Task) /\ waiting \in SUBSET Consumers
      /\ Matched(waiting, loop, tasks) /\ AllHonest(tasks, done, queue, terminalError)
  BY DEF LoopInv, OrderInv, TypeOK
<1>2. \A d \in Consumers : ~IsDue(Head(tasks), d)
  BY DEF IsDue, AbortTask
<1> QED
  BY <1>1, <1>2, SkipsMatched, HonestTail, HeadTailProperties

\* The loop that a microtask resumes was awaiting.
LEMMA ResumedAwaits ==
  ASSUME LoopInv, NEW c \in Consumers, ResumeLoop(c)
  PROVE  /\ loop[c] = "awaiting" /\ Head(tasks).how \in {"item", "finished", "failed", "refused"}
         /\ Honest(Head(tasks), done, queue, terminalError)
         /\ IsDue(Head(tasks), c)
<1>1. /\ tasks \in Seq(Task) /\ tasks # <<>> /\ Head(tasks).run = "loop" /\ Head(tasks).who = c
      /\ Matched(waiting, loop, tasks) /\ AllHonest(tasks, done, queue, terminalError)
  BY DEF ResumeLoop, LoopInv, OrderInv, TypeOK
<1>2. Head(tasks) \in Task
  BY <1>1, HeadTailProperties
<1>3. Head(tasks).how \in {"item", "finished", "failed", "refused"}
  BY <1>1, <1>2 DEF Task, AbortTask
<1>4. 1 \in 1 .. Len(tasks) /\ IsDue(tasks[1], c)
  BY <1>1, TailAt DEF IsDue
<1>5. loop[c] = "awaiting"
  BY <1>1, <1>4 DEF Matched
<1> QED
  BY <1>1, <1>3, <1>5, HonestTail DEF IsDue

\* Every step keeps loops and microtasks matched.
LEMMA LoopStep ==
  ASSUME LoopInv, [Next]_vars
  PROVE  LoopInv'
<1>0. OrderInv'
  BY TypeStep, OneEndStep, OrderStep DEF LoopInv, OrderInv
<1>1. /\ TypeOK /\ tasks \in Seq(Task) /\ waiting \in SUBSET Consumers
      /\ (waiting # {} => ~done) /\ Matched(waiting, loop, tasks)
      /\ AllHonest(tasks, done, queue, terminalError)
      /\ loop \in [Consumers -> {"body", "awaiting", "finished", "failed", "refused", "broke"}]
  BY DEF LoopInv, OrderInv, TypeOK
<1>2. SUFFICES /\ (waiting # {} => ~done)'
               /\ Matched(waiting', loop', tasks')
               /\ AllHonest(tasks', done', queue', terminalError')
  BY <1>0 DEF LoopInv
<1>3. ASSUME NEW n \in Nat, Deliver(n), loop' = loop
      PROVE  /\ (waiting # {} => ~done)'
             /\ Matched(waiting', loop', tasks')
             /\ AllHonest(tasks', done', queue', terminalError')
  BY <1>3, DeliverLoops
<1>4. ASSUME NEW error \in Errors \cup {"none"}, NEW told \in BOOLEAN,
             EndStream(error, told, tasks)
      PROVE  /\ (waiting # {} => ~done)'
             /\ Matched(waiting', loop, tasks')
             /\ AllHonest(tasks', done', queue', terminalError')
  BY <1>1, <1>4, EndStreamLoops
<1>5. ASSUME NEW error \in Errors \cup {"none"}, NEW told \in BOOLEAN,
             tasks # <<>>, Head(tasks) = AbortTask, EndStream(error, told, Tail(tasks))
      PROVE  /\ (waiting # {} => ~done)'
             /\ Matched(waiting', loop, tasks')
             /\ AllHonest(tasks', done', queue', terminalError')
  <2>1. /\ Tail(tasks) \in Seq(Task) /\ Matched(waiting, loop, Tail(tasks))
        /\ AllHonest(Tail(tasks), done, queue, terminalError)
    BY <1>5, AbortSkipped
  <2> QED
    BY <1>5, <2>1, EndStreamLoops
<1>6. ASSUME NEW c \in Consumers, CallNext(c)
      PROVE  /\ (waiting # {} => ~done)'
             /\ Matched(waiting', loop', tasks')
             /\ AllHonest(tasks', done', queue', terminalError')
  BY <1>6, CallNextLoops
<1>7. ASSUME NEW c \in Consumers, Break(c)
      PROVE  /\ (waiting # {} => ~done)'
             /\ Matched(waiting', loop', tasks')
             /\ AllHonest(tasks', done', queue', terminalError')
  <2>1. loop[c] # "awaiting" /\ loop'[c] # "awaiting" /\ \A d \in Consumers \ {c} : loop'[d] = loop[d]
    BY <1>1, <1>7 DEF Break
  <2>2. /\ (waiting # {} => ~done)'
        /\ Matched(waiting', loop, tasks')
        /\ AllHonest(tasks', done', queue', terminalError')
    <3>1. CASE closed
      BY <1>1, <1>7, <3>1 DEF Break, sinkVars
    <3>2. CASE ~closed
      BY <1>4, <1>7, <3>2 DEF Break
    <3> QED
      BY <3>1, <3>2
  <2>3. Matched(waiting', loop', tasks')
    BY <2>1, <2>2, BreaksMatched
  <2> QED
    BY <2>2, <2>3
<1>8. ASSUME NEW c \in Consumers, ResumeLoop(c)
      PROVE  /\ (waiting # {} => ~done)'
             /\ Matched(waiting', loop', tasks')
             /\ AllHonest(tasks', done', queue', terminalError')
  <2>1. /\ tasks' = Tail(tasks) /\ tasks # <<>>
        /\ UNCHANGED <<queue, waiting, done, terminalError>>
        /\ loop'[c] = (IF Head(tasks).how = "item" THEN "body" ELSE Head(tasks).how)
        /\ \A d \in Consumers \ {c} : loop'[d] = loop[d]
    BY <1>1, <1>8 DEF ResumeLoop, sinkVars
  <2>2. IsDue(Head(tasks), c) /\ loop'[c] # "awaiting"
    BY <1>8, <2>1, ResumedAwaits
  <2>3. Matched(waiting, loop', Tail(tasks))
    BY <1>1, <2>1, <2>2, ResumesMatched
  <2>4. AllHonest(Tail(tasks), done, queue, terminalError)
    BY <1>1, <2>1, HonestTail
  <2> QED
    BY <1>1, <2>1, <2>3, <2>4
<1>9. ASSUME tasks # <<>>, Head(tasks) = AbortTask, tasks' = Tail(tasks),
             UNCHANGED <<sinkVars, historyVars, loop>>
      PROVE  /\ (waiting # {} => ~done)'
             /\ Matched(waiting', loop', tasks')
             /\ AllHonest(tasks', done', queue', terminalError')
  BY <1>1, <1>9, AbortSkipped DEF sinkVars
<1>10. CASE tasks' = tasks /\ UNCHANGED <<sinkVars, historyVars, loop>>
  BY <1>1, <1>10 DEF sinkVars
<1>11. CASE /\ \E error \in Errors \cup {"none"}, told \in BOOLEAN :
                 \/ EndStream(error, told, tasks)
                 \/ /\ tasks # <<>> /\ Head(tasks) = AbortTask
                    /\ EndStream(error, told, Tail(tasks))
            /\ UNCHANGED loop
  BY <1>4, <1>5, <1>11
<1> QED
  BY <1>1, <1>3, <1>6, <1>7, <1>8, <1>9, <1>10, <1>11, LoopCases

\* At first no loop awaits.
LEMMA LoopInit == Init => LoopInv
<1> SUFFICES ASSUME Init PROVE LoopInv
  OBVIOUS
<1>1. OrderInv
  <2>1. <<>> \o <<>> = <<>> /\ [i \in 1 .. 0 |-> i] = <<>>
    OBVIOUS
  <2> QED
    BY <2>1, TypeInit DEF Init, OrderInv, EveryItemOnce, WaitsEmpty, OneEnd
<1>2. \A i \in 1 .. Len(tasks) : tasks[i].run # "loop"
  BY DEF Init, AbortTask
<1>3. waiting = {} /\ \A c \in Consumers : loop[c] = "body"
  BY DEF Init
<1> QED
  BY <1>1, <1>2, <1>3 DEF LoopInv, Matched, IsDue, AllHonest, Honest

\* The matching, counted: a loop that awaits has one settlement to come, any other none.
LEMMA MatchedCount ==
  ASSUME NEW w, NEW l, NEW t, Matched(w, l, t), NEW c \in Consumers
  PROVE  Cardinality({i \in 1 .. Len(t) : t[i].run = "loop" /\ t[i].who = c})
           + (IF c \in w THEN 1 ELSE 0) = IF l[c] = "awaiting" THEN 1 ELSE 0
<1> DEFINE due == {i \in 1 .. Len(t) : t[i].run = "loop" /\ t[i].who = c}
<1>1. \A i, j \in due : i = j
  BY DEF Matched, IsDue
<1>2. (l[c] = "awaiting") <=> (c \in w \/ due # {})
  BY DEF Matched, IsDue
<1>3. c \in w => due = {}
  BY DEF Matched, IsDue
<1> HIDE DEF due
<1>4. CASE due = {}
  <2>1. Cardinality(due) = 0
    BY <1>4, FS_EmptySet
  <2>2. Cardinality(due) + (IF c \in w THEN 1 ELSE 0) = IF l[c] = "awaiting" THEN 1 ELSE 0
    BY <1>2, <1>4, <2>1
  <2> QED
    BY <2>2 DEF due
<1>5. CASE due # {}
  <2>1. PICK i \in due : TRUE
    BY <1>5
  <2>2. due = {i}
    BY <1>1, <2>1
  <2>3. Cardinality(due) = 1
    BY <2>2, FS_Singleton
  <2>4. Cardinality(due) + (IF c \in w THEN 1 ELSE 0) = IF l[c] = "awaiting" THEN 1 ELSE 0
    BY <1>2, <1>3, <1>5, <2>3
  <2> QED
    BY <2>4 DEF due
<1> QED
  BY <1>4, <1>5

\* A loop that awaits will be resumed by the sink or by a microtask, never by both, and
\* the sink lets no loop wait for what it holds or for an end that has come.
THEOREM LoopsMatched == Spec => []LoopAwaited
<1>1. LoopInv => LoopAwaited
  <2> SUFFICES ASSUME LoopInv PROVE LoopAwaited
    OBVIOUS
  <2>1. waiting # {} => queue = <<>> /\ ~done
    BY DEF LoopInv, OrderInv, WaitsEmpty
  <2>2. Matched(waiting, loop, tasks)
    BY DEF LoopInv
  <2>3. \A c \in Consumers :
          Cardinality({i \in 1 .. Len(tasks) : tasks[i].run = "loop" /\ tasks[i].who = c})
            + (IF c \in waiting THEN 1 ELSE 0) = IF loop[c] = "awaiting" THEN 1 ELSE 0
    BY <2>2, MatchedCount
  <2> QED
    BY <2>1, <2>3 DEF LoopAwaited
<1>2. LoopInv /\ [Next]_vars => LoopInv'
  BY LoopStep
<1> QED
  BY <1>1, <1>2, LoopInit, PTL DEF Spec

-----------------------------------------------------------------------------
(* The promise.  An item that arrives is taken in; one that leaves the     *)
(* sink is given; the first end decides, and a loop is told it when its    *)
(* microtask runs.                                                         *)

\* Two parts of the items up to k have k items between them.
LEMMA SplitCount ==
  ASSUME NEW y \in Seq(Nat), NEW q \in Seq(Nat), NEW k \in Nat, y \o q = [i \in 1 .. k |-> i]
  PROVE  Len(y) \in Nat /\ Len(q) \in Nat /\ Len(y) + Len(q) = k
<1>1. Len(y \o q) = Len(y) + Len(q)
  BY ConcatProperties
<1>2. Len([i \in 1 .. k |-> i]) = k
  OBVIOUS
<1> QED
  BY <1>1, <1>2

\* What was given and what is buffered make up what was taken.
LEMMA GivenCount ==
  ASSUME OrderInv
  PROVE  /\ Len(yielded) \in Nat /\ Len(queue) \in Nat /\ arrived \in Nat
         /\ Len(yielded) + Len(queue) = arrived
BY SplitCount DEF OrderInv, TypeOK, EveryItemOnce

\* A loop that moves between places that are no end has been told nothing new.
LEMMA ToldSame ==
  ASSUME \A c \in Consumers : ToldOf(loop'[c]) = ToldOf(loop[c])
  PROVE  [c \in Consumers |-> ToldOf(loop'[c])] = [c \in Consumers |-> ToldOf(loop[c])]
OBVIOUS

\* Ending the stream finishes the feed, or does nothing to it.
LEMMA EndStreamKeeps ==
  ASSUME LoopInv, NEW error \in Errors \cup {"none"}, NEW told, NEW left,
         EndStream(error, told, left),
         \A c \in Consumers : ToldOf(loop'[c]) = ToldOf(loop[c])
  PROVE  [Promise!Next]_<<arrived, Len(yielded), Ended, [c \in Consumers |-> ToldOf(loop[c])]>>
<1>1. UNCHANGED <<arrived, yielded>> /\ SinkEnd(error, left)
  BY DEF EndStream, historyVars
<1>2. [c \in Consumers |-> ToldOf(loop'[c])] = [c \in Consumers |-> ToldOf(loop[c])]
  BY ToldSame
<1>3. CASE done
  <2>1. Ended' = Ended
    BY <1>1, <1>3 DEF SinkEnd, sinkVars, Ended
  <2> QED
    BY <1>1, <1>2, <2>1
<1>4. CASE ~done
  <2>1. Ended = "open" /\ Ended' \in {"clean", "failed"}
    BY <1>1, <1>4 DEF SinkEnd, Ended
  <2> QED
    BY <1>1, <1>2, <2>1 DEF Promise!Next, Promise!Finish
<1> QED
  BY <1>3, <1>4

\* A frame is taken in, its first item given at once when a loop waits for it.
LEMMA DeliverKeeps ==
  ASSUME LoopInv, LoopInv', NEW n \in Nat, Deliver(n), loop' = loop
  PROVE  [Promise!Next]_<<arrived, Len(yielded), Ended, [c \in Consumers |-> ToldOf(loop[c])]>>
<1>1. /\ ~done /\ Push(n) /\ UNCHANGED <<done, terminalError>> /\ arrived' = arrived + n
  BY DeliverFlags DEF Deliver, FrameDue, LoopInv, OrderInv, OneEnd
<1>2. Ended = "open" /\ Ended' = Ended
  BY <1>1 DEF Ended
<1>3. /\ Len(yielded) \in Nat /\ arrived \in Nat
      /\ Len(yielded') \in Nat /\ Len(queue') \in Nat /\ Len(yielded') + Len(queue') = arrived'
  <2>1. /\ yielded' \in Seq(Nat) /\ queue' \in Seq(Nat) /\ arrived' \in Nat
        /\ yielded' \o queue' = [i \in 1 .. arrived' |-> i]
    BY DEF LoopInv, OrderInv, TypeOK, EveryItemOnce
  <2> QED
    BY <2>1, GivenCount, SplitCount DEF LoopInv
<1>4. CASE n = 0
  <2>1. yielded' = yielded /\ arrived' = arrived
    BY <1>1, <1>3, <1>4 DEF Push
  <2> QED
    BY <1>2, <2>1
<1>5. CASE n # 0
  <2>1. Len(yielded') \in {Len(yielded), Len(yielded) + 1}
    <3>1. yielded \in Seq(Nat) /\ arrived \in Nat
      BY DEF LoopInv, OrderInv, TypeOK
    <3>2. CASE waiting = {}
      BY <1>1, <1>5, <3>2 DEF Push
    <3>3. CASE waiting # {}
      <4>1. yielded' = Append(yielded, Head([i \in 1 .. n |-> arrived + i]))
        BY <1>1, <1>5, <3>3, Zenon DEF Push
      <4> QED
        BY <3>1, <4>1, AppendProperties
    <3> QED
      BY <3>2, <3>3
  <2>2. arrived' > arrived /\ Len(yielded') <= arrived'
    BY <1>1, <1>3, <1>5
  <2> QED
    BY <1>2, <2>1, <2>2 DEF Promise!Next, Promise!Take
<1> QED
  BY <1>4, <1>5

\* A call of next() gives the head of the buffer, or nothing.
LEMMA CallNextKeeps ==
  ASSUME LoopInv, NEW c \in Consumers, CallNext(c)
  PROVE  [Promise!Next]_<<arrived, Len(yielded), Ended, [d \in Consumers |-> ToldOf(loop[d])]>>
<1>1. /\ loop[c] = "body" /\ loop' = [loop EXCEPT ![c] = "awaiting"] /\ arrived' = arrived
      /\ UNCHANGED <<done, terminalError>>
  BY CallNextFlags DEF CallNext
<1>2. \A d \in Consumers : ToldOf(loop'[d]) = ToldOf(loop[d])
  BY <1>1 DEF ToldOf, LoopInv, OrderInv, TypeOK
<1>3. [d \in Consumers |-> ToldOf(loop'[d])] = [d \in Consumers |-> ToldOf(loop[d])]
  BY <1>2, ToldSame
<1>4. Ended' = Ended
  BY <1>1 DEF Ended
<1>5. CASE NextItem(c)
  <2>1. Len(yielded) < arrived
    <3>1. Len(queue) # 0
      BY <1>5, EmptySeq DEF NextItem, LoopInv, OrderInv, TypeOK
    <3> QED
      BY <3>1, GivenCount DEF LoopInv
  <2>2. Len(yielded') = Len(yielded) + 1
    BY <1>5, AppendProperties, HeadTailProperties DEF NextItem, LoopInv, OrderInv, TypeOK
  <2> QED
    BY <1>1, <1>3, <1>4, <2>1, <2>2 DEF Promise!Next, Promise!Give
<1>6. CASE NextEnd(c) \/ NextRefused(c) \/ NextWaits(c)
  <2>1. yielded' = yielded
    BY <1>6 DEF NextEnd, NextRefused, NextWaits
  <2> QED
    BY <1>1, <1>3, <1>4, <2>1
<1> QED
  BY <1>5, <1>6 DEF CallNext

\* A loop that resumes with an end is told the end of the feed, when all was given.
LEMMA ResumeKeeps ==
  ASSUME LoopInv, NEW c \in Consumers, ResumeLoop(c)
  PROVE  [Promise!Next]_<<arrived, Len(yielded), Ended, [d \in Consumers |-> ToldOf(loop[d])]>>
<1> DEFINE how == Head(tasks).how
<1>1. /\ loop' = [loop EXCEPT ![c] = IF how = "item" THEN "body" ELSE how]
      /\ UNCHANGED <<arrived, yielded, done, terminalError>>
      /\ loop \in [Consumers -> {"body", "awaiting", "finished", "failed", "refused", "broke"}]
  BY DEF ResumeLoop, sinkVars, historyVars, LoopInv, OrderInv, TypeOK
<1>2. /\ loop[c] = "awaiting" /\ how \in {"item", "finished", "failed", "refused"}
      /\ Honest(Head(tasks), done, queue, terminalError) /\ Head(tasks).run = "loop"
  BY ResumedAwaits DEF IsDue
<1>3. Ended' = Ended
  BY <1>1 DEF Ended
<1>4. CASE how \in {"item", "refused"}
  <2>1. \A d \in Consumers : ToldOf(loop'[d]) = ToldOf(loop[d])
    BY <1>1, <1>2, <1>4 DEF ToldOf
  <2>2. [d \in Consumers |-> ToldOf(loop'[d])] = [d \in Consumers |-> ToldOf(loop[d])]
    BY <2>1, ToldSame
  <2> QED
    BY <1>1, <1>3, <2>2
<1>5. CASE how \in {"finished", "failed"}
  <2>1. done /\ queue = <<>> /\ (how = "finished" <=> terminalError = "none")
    BY <1>2, <1>5 DEF Honest
  <2>2. Ended # "open" /\ ToldOf(how) = Ended
    BY <1>5, <2>1 DEF Ended, ToldOf
  <2>3. Len(yielded) = arrived
    BY <2>1, GivenCount DEF LoopInv
  <2>4. [d \in Consumers |-> ToldOf(loop'[d])]
          = [[d \in Consumers |-> ToldOf(loop[d])] EXCEPT ![c] = Ended]
    BY <1>1, <1>5, <2>2
  <2>5. Promise!Tell(c)
    BY <1>1, <1>3, <2>2, <2>3, <2>4 DEF Promise!Tell
  <2> QED
    BY <2>5 DEF Promise!Next
<1> QED
  BY <1>2, <1>4, <1>5

\* Every step is a step of the feed, or none.
LEMMA PromiseStep ==
  ASSUME LoopInv, LoopInv', [Next]_vars
  PROVE  [Promise!Next]_<<arrived, Len(yielded), Ended, [c \in Consumers |-> ToldOf(loop[c])]>>
<1>1. ASSUME UNCHANGED <<sinkVars, historyVars>>,
             \A c \in Consumers : ToldOf(loop'[c]) = ToldOf(loop[c])
      PROVE  [Promise!Next]_<<arrived, Len(yielded), Ended, [c \in Consumers |-> ToldOf(loop[c])]>>
  <2>1. [c \in Consumers |-> ToldOf(loop'[c])] = [c \in Consumers |-> ToldOf(loop[c])]
    BY <1>1, ToldSame
  <2>2. Ended' = Ended /\ UNCHANGED <<arrived, yielded>>
    BY <1>1 DEF Ended, sinkVars, historyVars
  <2> QED
    BY <2>1, <2>2
<1>2. ASSUME NEW n \in Nat, Deliver(n), loop' = loop
      PROVE  [Promise!Next]_<<arrived, Len(yielded), Ended, [c \in Consumers |-> ToldOf(loop[c])]>>
  BY <1>2, DeliverKeeps
<1>3. CASE /\ \E error \in Errors \cup {"none"}, told \in BOOLEAN :
                \/ EndStream(error, told, tasks)
                \/ /\ tasks # <<>> /\ Head(tasks) = AbortTask
                   /\ EndStream(error, told, Tail(tasks))
           /\ UNCHANGED loop
  <2>1. \A c \in Consumers : ToldOf(loop'[c]) = ToldOf(loop[c])
    BY <1>3
  <2> QED
    BY <1>3, <2>1, EndStreamKeeps
<1>4. ASSUME NEW c \in Consumers, Break(c)
      PROVE  [Promise!Next]_<<arrived, Len(yielded), Ended, [d \in Consumers |-> ToldOf(loop[d])]>>
  <2>1. loop[c] = "body" /\ loop' = [loop EXCEPT ![c] = "broke"]
    BY <1>4 DEF Break
  <2>2. \A d \in Consumers : ToldOf(loop'[d]) = ToldOf(loop[d])
    BY <2>1 DEF ToldOf, LoopInv, OrderInv, TypeOK
  <2>3. CASE closed
    BY <1>1, <1>4, <2>2, <2>3 DEF Break
  <2>4. CASE ~closed
    <3>1. EndStream("none", TRUE, tasks)
      BY <1>4, <2>4 DEF Break
    <3> QED
      BY <2>2, <3>1, EndStreamKeeps
  <2> QED
    BY <2>3, <2>4
<1>5. CASE UNCHANGED <<sinkVars, historyVars, loop>>
  BY <1>1, <1>5
<1>6. TypeOK
  BY DEF LoopInv, OrderInv
<1> QED
  BY <1>2, <1>3, <1>4, <1>5, <1>6, LoopCases, CallNextKeeps, ResumeKeeps

\* A stream keeps the promise of Feed: it takes items in until its one end, gives each out
\* once, and tells every loop the same end, only when all is given.
THEOREM PromiseKept == Spec => KeepsPromise
<1>1. Init => Promise!Init
  BY DEF Init, Promise!Init, Ended, ToldOf
<1>2. LoopInv /\ [Next]_vars => LoopInv'
  BY LoopStep
<1>3. LoopInv /\ LoopInv' /\ [Next]_vars =>
        [Promise!Next]_<<arrived, Len(yielded), Ended, [c \in Consumers |-> ToldOf(loop[c])]>>
  BY PromiseStep
<1> QED
  BY <1>1, <1>2, <1>3, LoopInit, PTL DEF Spec, KeepsPromise, Promise!Spec
=============================================================================
