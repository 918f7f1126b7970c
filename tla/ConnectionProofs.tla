-------------------------- MODULE ConnectionProofs --------------------------
(***************************************************************************)
(* Theorems about Connection for every in-flight budget, queue depth,      *)
(* bound on the ids, set of operations and any server: types, the table    *)
(* of requests, silence after death, and the in-flight budget.             *)
(***************************************************************************)
EXTENDS Connection, FiniteSetTheorems, SequenceTheorems, TLAPS

-----------------------------------------------------------------------------
(* The operators the connection is built from return what TypeOK expects.  *)

\* Taking a permit, or queueing for one, keeps a semaphore well formed.
LEMMA AcquireType ==
  ASSUME NEW s \in SemaphoreState, NEW who \in Nat
  PROVE  /\ Acquire(s, who) \in SemaphoreState
         /\ Granted(s, who) \in Seq(Nat)
<1>1. s.permits \in Nat /\ s.waiters \in Seq(Nat)
  BY DEF SemaphoreState
<1>2. CASE s.permits > 0
  BY <1>1, <1>2 DEF Acquire, Granted, SemaphoreState
<1>3. CASE ~(s.permits > 0)
  <2>1. Append(s.waiters, who) \in Seq(Nat)
    BY <1>1
  <2> QED
    BY <1>1, <1>3, <2>1, SMTT(30) DEF Acquire, Granted, SemaphoreState
<1> QED
  BY <1>2, <1>3

\* So does returning one.
LEMMA ReleaseType ==
  ASSUME NEW s \in SemaphoreState
  PROVE  /\ Release(s) \in SemaphoreState
         /\ Woken(s) \in Seq(Nat)
<1>1. s.permits \in Nat /\ s.waiters \in Seq(Nat)
  BY DEF SemaphoreState
<1>2. CASE s.waiters = <<>>
  BY <1>1, <1>2 DEF Release, Woken, SemaphoreState
<1>3. CASE s.waiters # <<>>
  <2>1. Head(s.waiters) \in Nat /\ Tail(s.waiters) \in Seq(Nat)
    BY <1>1, <1>3, HeadTailProperties
  <2>2. Release(s) = [s EXCEPT !.waiters = Tail(@)] /\ Woken(s) = <<Head(s.waiters)>>
    BY <1>3 DEF Release, Woken
  <2>3. [s EXCEPT !.waiters = Tail(@)] \in SemaphoreState
    BY <1>1, <2>1 DEF SemaphoreState
  <2>4. <<Head(s.waiters)>> \in Seq(Nat)
    BY <2>1
  <2> QED
    BY <2>2, <2>3, <2>4
<1> QED
  BY <1>2, <1>3

\* So does returning several.
LEMMA ReleaseNType ==
  ASSUME NEW s \in SemaphoreState, NEW n \in Nat
  PROVE  /\ ReleaseN(s, n) \in SemaphoreState
         /\ WokenN(s, n) \in Seq(Nat)
<1> DEFINE k == HandedOver(s, n)
<1>1. s.permits \in Nat /\ s.waiters \in Seq(Nat) /\ Len(s.waiters) \in Nat
  BY LenProperties DEF SemaphoreState
<1>2. k \in Nat /\ k <= n /\ k <= Len(s.waiters)
  BY <1>1 DEF HandedOver
<1> HIDE DEF k
<1>3. \A i \in 1 .. Len(s.waiters) : s.waiters[i] \in Nat
  BY <1>1, ElementOfSeq
<1>4. SubSeq(s.waiters, k + 1, Len(s.waiters)) \in Seq(Nat)
  BY <1>1, <1>2, <1>3, SubSeqProperties
<1>5. SubSeq(s.waiters, 1, k) \in Seq(Nat)
  BY <1>1, <1>2, <1>3, SubSeqProperties
<1>6. s.permits + (n - k) \in Nat
  BY <1>1, <1>2
<1> QED
  BY <1>4, <1>5, <1>6 DEF ReleaseN, WokenN, SemaphoreState, k

\* So does letting every waiter go.
LEMMA DrainType ==
  ASSUME NEW s \in SemaphoreState
  PROVE  /\ DrainWaiters(s) \in SemaphoreState
         /\ Drained(s) \in Seq(Nat)
<1>1. s.permits \in Nat /\ s.waiters \in Seq(Nat) /\ <<>> \in Seq(Nat)
  BY DEF SemaphoreState
<1> QED
  BY <1>1 DEF DrainWaiters, Drained, SemaphoreState

\* Coroutines named by numbers make a well-formed list of microtasks.
LEMMA TasksType ==
  ASSUME NEW ids \in Seq(Nat)
  PROVE  SendTasks(ids) \in Seq(Task)
  BY DEF SendTasks, SendTask, Task

LEMMA FramesType ==
  ASSUME NEW ids \in Seq(Nat)
  PROVE  /\ RequestFrames(ids) \in Seq(Frame)
         /\ CancelFrames(ids) \in Seq(Frame)
  BY DEF RequestFrames, CancelFrames, RequestFrame, CancelFrame, Frame

\* A function extended by one argument.
LEMMA WithType ==
  ASSUME NEW D, NEW R, NEW f \in [D -> R], NEW id, NEW v \in R
  PROVE  With(f, id, v) \in [D \cup {id} -> R]
  BY DEF With

-----------------------------------------------------------------------------
(* Type correctness.  One lemma per group of actions.                      *)

\* What a call of Finalize, or of sendCancel and Finalize, makes of the types.
LEMMA FinalizeType ==
  ASSUME TypeOK, NEW id, Finalize(id)
  PROVE  /\ pending' \subseteq Issued /\ permitted' \subseteq Issued
         /\ inflight' \in SemaphoreState
         /\ FinalizeWakes(id) \in Seq(Task)
<1>1. Release(inflight) \in SemaphoreState /\ Woken(inflight) \in Seq(Nat)
  BY ReleaseType DEF TypeOK
<1>2. SendTasks(Woken(inflight)) \in Seq(Task)
  BY <1>1, TasksType
<1>3. FinalizeWakes(id) \in Seq(Task)
  BY <1>2 DEF FinalizeWakes
<1>4. pending' \subseteq Issued /\ permitted' \subseteq Issued
  BY DEF TypeOK, Finalize
<1>5. inflight' \in SemaphoreState
  BY <1>1 DEF TypeOK, Finalize
<1> QED
  BY <1>3, <1>4, <1>5

LEMMA WriterTaskType == WriterTask \in Task /\ SignalWakes \in Seq(Task)
<1>1. WriterTask \in Task
  BY DEF WriterTask, Task
<1>2. <<WriterTask>> \in Seq(Task) /\ <<>> \in Seq(Task)
  BY <1>1
<1> QED
  BY <1>1, <1>2 DEF SignalWakes

LEMMA SettleType ==
  ASSUME TypeOK, NEW id, NEW result \in Outcomes, Settle(id, result)
  PROVE  outcome' \in [Issued -> Outcomes]
  BY DEF TypeOK, Settle, Issued

\* Cancelling a request keeps the types, whatever was left to run.
LEMMA CancelType ==
  ASSUME TypeOK, NEW id \in Issued, NEW result \in Outcomes, NEW queue \in Seq(Task),
         Cancel(id, result, queue), UNCHANGED <<dead, socket, released>>,
         inData' \in BOOLEAN
  PROVE  TypeOK'
<1>1. outcome' \in [Issued -> Outcomes]
  BY SettleType DEF Cancel
<1>2. CASE id \in pending
  <2>1. /\ pending' \subseteq Issued /\ permitted' \subseteq Issued
        /\ inflight' \in SemaphoreState /\ FinalizeWakes(id) \in Seq(Task)
    BY <1>2, FinalizeType DEF Cancel
  <2>2. tasks' \in Seq(Task)
    <3>1. CancelWakes \in Seq(Task)
      BY WriterTaskType DEF CancelWakes
    <3>2. tasks' = queue \o CancelWakes \o FinalizeWakes(id)
      BY <1>2 DEF Cancel
    <3> QED
      BY <2>1, <3>1, <3>2, ConcatProperties
  <2>3. /\ idCounter' \in Nat \ {0} /\ Issued \subseteq 1 .. idCounter'
        /\ priority' \in Seq(Nat)
        /\ writer' \in {"waiting", "resumed", "draining", "exited"}
        /\ signalled' \in BOOLEAN
    <3>1. SendCancel(id) /\ id \in Nat
      BY <1>2 DEF Cancel, TypeOK
    <3>2. Append(priority, id) \in Seq(Nat)
      BY <3>1 DEF TypeOK
    <3>3. /\ idCounter \in Nat \ {0} /\ Issued \subseteq 1 .. idCounter
          /\ priority \in Seq(Nat) /\ signalled \in BOOLEAN
          /\ writer \in {"waiting", "resumed", "draining", "exited"}
      BY DEF TypeOK
    <3>4. CASE dead
      BY <3>1, <3>3, <3>4 DEF SendCancel
    <3>5. CASE ~dead
      <4>1. idCounter' = idCounter + 1 /\ priority' = Append(priority, id) /\ Signal
        BY <3>1, <3>5 DEF SendCancel
      <4>2. idCounter' \in Nat \ {0} /\ Issued \subseteq 1 .. idCounter'
        BY <3>3, <4>1
      <4> QED
        BY <3>2, <3>3, <4>1, <4>2 DEF Signal
    <3> QED
      BY <3>4, <3>5
  <2> QED
    BY <1>1, <2>1, <2>2, <2>3 DEF Cancel, TypeOK, Issued
<1>3. CASE id \notin pending
  BY <1>1, <1>3 DEF Cancel, TypeOK, Issued, tableVars
<1> QED
  BY <1>2, <1>3

\* Failing the connection keeps the types.
LEMMA FailConnectionType ==
  ASSUME TypeOK, NEW roused, FailConnection(roused),
         socket' \in {"open", "destroyed", "closed"},
         released' \in BOOLEAN, inData' \in BOOLEAN
  PROVE  TypeOK'
<1>1. outcome' \in [Issued -> Outcomes]
  BY DEF FailConnection, TypeOK, Issued, Outcomes
<1>2. queueSlots' \in SemaphoreState /\ Drained(queueSlots) \in Seq(Nat)
  BY DrainType DEF FailConnection, TypeOK
<1>3. tasks' \in Seq(Task)
  <2>1. SendTasks(Drained(queueSlots)) \in Seq(Task) /\ <<>> \in Seq(Task)
    BY <1>2, TasksType
  <2>2. SignalWakes \o SendTasks(Drained(queueSlots)) \in Seq(Task)
    BY <2>1, WriterTaskType, ConcatProperties
  <2>3. (IF dead THEN <<>> ELSE SignalWakes \o SendTasks(Drained(queueSlots))) \in Seq(Task)
    BY <2>1, <2>2
  <2>4. (IF writer \in roused THEN <<WriterTask>> ELSE <<>>) \in Seq(Task)
    BY <2>1, WriterTaskType
  <2>5. tasks \in Seq(Task)
    BY DEF TypeOK
  <2> QED
    BY <2>3, <2>4, <2>5, ConcatProperties DEF FailConnection
<1>4. /\ writer' \in {"waiting", "resumed", "draining", "exited"}
      /\ signalled' \in BOOLEAN /\ dead' \in BOOLEAN
  BY DEF FailConnection, TypeOK
<1> QED
  BY <1>1, <1>2, <1>3, <1>4 DEF FailConnection, TypeOK, Issued

\* Registering a request keeps the types; "first" is what its abort signal queued.
LEMMA RegisterType ==
  ASSUME TypeOK, NEW k \in Kinds, NEW result \in Outcomes,
         Register(idCounter + 1, k, result)
  PROVE  /\ kind' \in [Issued' -> Kinds] /\ outcome' \in [Issued' -> Outcomes]
         /\ pc' \in [Issued' -> {"inflight", "slot", "queued", "dropped"}]
         /\ Issued' = Issued \cup {idCounter + 1}
         /\ inflight' \in SemaphoreState
         /\ RegisterWakes(idCounter + 1) \in Seq(Task)
<1> DEFINE id == idCounter + 1
<1>1. id \in Nat
  BY DEF TypeOK
<1>2. Issued' = Issued \cup {id}
  BY DEF Register, With, Issued
<1>3. inflight' \in SemaphoreState /\ Granted(inflight, id) \in Seq(Nat)
  BY <1>1, AcquireType DEF Register, TypeOK
<1>4. RegisterWakes(id) \in Seq(Task)
  BY <1>3, TasksType DEF RegisterWakes
<1>5. kind' \in [Issued' -> Kinds]
  BY <1>2, WithType DEF Register, TypeOK
<1>6. outcome' \in [Issued' -> Outcomes]
  BY <1>2, WithType DEF Register, TypeOK
<1>7. pc' \in [Issued' -> {"inflight", "slot", "queued", "dropped"}]
  BY <1>2, WithType DEF Register, TypeOK
<1> QED
  BY <1>2, <1>3, <1>4, <1>5, <1>6, <1>7

LEMMA OpenType ==
  ASSUME TypeOK, NEW k \in Kinds, NEW first \in Seq(Task), Open(k, first)
  PROVE  TypeOK'
<1>1. Register(idCounter + 1, k, "open") /\ "open" \in Outcomes
  BY DEF Open, Outcomes
<1>2. /\ kind' \in [Issued' -> Kinds] /\ outcome' \in [Issued' -> Outcomes]
      /\ pc' \in [Issued' -> {"inflight", "slot", "queued", "dropped"}]
      /\ Issued' = Issued \cup {idCounter + 1}
      /\ inflight' \in SemaphoreState
      /\ RegisterWakes(idCounter + 1) \in Seq(Task)
  BY <1>1, RegisterType
<1>3. tasks' \in Seq(Task)
  <2>1. tasks \in Seq(Task) /\ tasks' = tasks \o first \o RegisterWakes(idCounter + 1)
    BY DEF Open, TypeOK
  <2> QED
    BY <1>2, <2>1, ConcatProperties
<1>4. idCounter' = idCounter + 1 /\ idCounter' \in Nat \ {0} /\ Issued' \subseteq 1 .. idCounter'
  BY <1>2 DEF Open, TypeOK
<1>5. pending' \subseteq Issued' /\ permitted' \subseteq Issued'
  BY <1>2 DEF Open, TypeOK
<1> QED
  BY <1>1, <1>2, <1>3, <1>4, <1>5 DEF Open, Register, eventVars, TypeOK

LEMMA UnaryPreAbortedType ==
  ASSUME TypeOK, NEW k \in Kinds, UnaryPreAborted(k)
  PROVE  TypeOK'
<1>1. Register(idCounter + 1, k, "aborted") /\ "aborted" \in Outcomes
  BY DEF UnaryPreAborted, Outcomes
<1>2. /\ kind' \in [Issued' -> Kinds] /\ outcome' \in [Issued' -> Outcomes]
      /\ pc' \in [Issued' -> {"inflight", "slot", "queued", "dropped"}]
      /\ Issued' = Issued \cup {idCounter + 1}
      /\ inflight' \in SemaphoreState
      /\ RegisterWakes(idCounter + 1) \in Seq(Task)
  BY <1>1, RegisterType
<1>3. tasks' \in Seq(Task)
  <2>1. /\ tasks \in Seq(Task)
        /\ tasks' = tasks \o SignalWakes \o RegisterWakes(idCounter + 1)
    BY DEF UnaryPreAborted, TypeOK
  <2> QED
    BY <1>2, <2>1, WriterTaskType, ConcatProperties
<1>4. idCounter' \in Nat \ {0} /\ Issued' \subseteq 1 .. idCounter'
  <2>1. idCounter' = (idCounter + 1) + 1 /\ idCounter \in Nat /\ Issued \subseteq 1 .. idCounter
    BY DEF UnaryPreAborted, TypeOK
  <2> QED
    BY <1>2, <2>1
<1>5. pending' \subseteq Issued' /\ permitted' \subseteq Issued'
  BY <1>2 DEF UnaryPreAborted, TypeOK
<1>6. priority' \in Seq(Nat)
  BY DEF UnaryPreAborted, TypeOK
<1>7. writer' \in {"waiting", "resumed", "draining", "exited"} /\ signalled' \in BOOLEAN
  BY DEF UnaryPreAborted, Signal, TypeOK
<1> QED
  BY <1>1, <1>2, <1>3, <1>4, <1>5, <1>6, <1>7
     DEF UnaryPreAborted, Register, eventVars, TypeOK

\* What is left of the microtask queue while its head runs.
LEMMA RunningType ==
  ASSUME TypeOK, NEW run, NEW id, Running(run, id)
  PROVE  Tail(tasks) \in Seq(Task)
  BY HeadTailProperties DEF Running, TypeOK

LEMMA GiveUpType ==
  ASSUME TypeOK, NEW id \in Issued, NEW result \in Outcomes, Running("send", id),
         GiveUp(id, result)
  PROVE  TypeOK'
<1>1. Release(inflight) \in SemaphoreState /\ SendTasks(Woken(inflight)) \in Seq(Task)
  BY ReleaseType, TasksType DEF TypeOK
<1>2. tasks' \in Seq(Task)
  BY <1>1, RunningType, ConcatProperties DEF GiveUp
<1>3. outcome' \in [Issued -> Outcomes]
  BY SettleType DEF GiveUp, TypeOK
<1>4. /\ pc' \in [Issued -> {"inflight", "slot", "queued", "dropped"}]
      /\ Issued' = Issued
  BY DEF GiveUp, TypeOK, Issued
<1> QED
  BY <1>1, <1>2, <1>3, <1>4 DEF GiveUp, TypeOK, writerVars, eventVars

LEMMA TakePermitType ==
  ASSUME TypeOK, NEW id \in Issued, Running("send", id), TakePermit(id)
  PROVE  TypeOK'
<1>1. id \in Nat
  BY DEF TypeOK
<1>2. Acquire(queueSlots, id) \in SemaphoreState /\ SendTasks(Granted(queueSlots, id)) \in Seq(Task)
  BY <1>1, AcquireType, TasksType DEF TypeOK
<1>3. tasks' \in Seq(Task)
  BY <1>2, RunningType, ConcatProperties DEF TakePermit
<1>4. /\ pc' \in [Issued -> {"inflight", "slot", "queued", "dropped"}]
      /\ Issued' = Issued
  BY DEF TakePermit, TypeOK, Issued
<1> QED
  BY <1>2, <1>3, <1>4 DEF TakePermit, TypeOK, eventVars

LEMMA ResumeQueuedType ==
  ASSUME TypeOK, NEW id \in Issued, ResumeQueued(id)
  PROVE  TypeOK'
<1>1. Append(outbound, id) \in Seq(Nat)
  BY DEF TypeOK
<1>2. tasks' \in Seq(Task)
  BY RunningType, WriterTaskType, ConcatProperties DEF ResumeQueued
<1>3. /\ pc' \in [Issued -> {"inflight", "slot", "queued", "dropped"}]
      /\ Issued' = Issued
  BY DEF ResumeQueued, TypeOK, Issued
<1>4. writer' \in {"waiting", "resumed", "draining", "exited"} /\ signalled' \in BOOLEAN
  BY DEF ResumeQueued, Signal, TypeOK
<1> QED
  BY <1>1, <1>2, <1>3, <1>4 DEF ResumeQueued, TypeOK, eventVars, tableVars

LEMMA ResumeSlotDeadType ==
  ASSUME TypeOK, NEW id \in Issued, ResumeSlotDead(id)
  PROVE  TypeOK'
<1>1. Release(queueSlots) \in SemaphoreState /\ SendTasks(Woken(queueSlots)) \in Seq(Task)
  BY ReleaseType, TasksType DEF TypeOK
<1>2. tasks' \in Seq(Task)
  BY <1>1, RunningType, ConcatProperties DEF ResumeSlotDead
<1>3. /\ pc' \in [Issued -> {"inflight", "slot", "queued", "dropped"}]
      /\ Issued' = Issued
  BY DEF ResumeSlotDead, TypeOK, Issued
<1> QED
  BY <1>1, <1>2, <1>3 DEF ResumeSlotDead, TypeOK, eventVars, tableVars

LEMMA RunAbortType ==
  ASSUME TypeOK, NEW id \in Issued, RunAbort(id)
  PROVE  TypeOK'
<1>1. Tail(tasks) \in Seq(Task) /\ "aborted" \in Outcomes
  BY RunningType DEF RunAbort, Outcomes
<1>2. CASE outcome[id] = "open"
  BY <1>1, <1>2, CancelType DEF RunAbort, eventVars, TypeOK
<1>3. CASE outcome[id] # "open"
  BY <1>1, <1>3 DEF RunAbort, TypeOK, Issued, requestVars, tableVars, writerVars, eventVars
<1> QED
  BY <1>2, <1>3

\* The three steps of the writer.
LEMMA GateWaitType ==
  ASSUME TypeOK, NEW queue \in Seq(Task), GateWait(queue)
  PROVE  /\ writer' \in {"waiting", "resumed", "draining", "exited"}
         /\ signalled' \in BOOLEAN
         /\ tasks' \in Seq(Task)
<1>1. Append(queue, WriterTask) \in Seq(Task)
  BY WriterTaskType
<1> QED
  BY <1>1 DEF GateWait

LEMMA WriterType ==
  ASSUME TypeOK, NEW buffered \in BOOLEAN,
         WriterExits \/ WriterIdles \/ WriterWrites(buffered)
  PROVE  TypeOK'
<1>1. CASE WriterExits
  <2>1. tasks' \in Seq(Task)
    BY <1>1, RunningType DEF WriterExits
  <2> QED
    BY <1>1, <2>1 DEF WriterExits, TypeOK, Issued, requestVars, tableVars, eventVars
<1>2. CASE WriterIdles
  <2>1. /\ writer' \in {"waiting", "resumed", "draining", "exited"}
        /\ signalled' \in BOOLEAN /\ tasks' \in Seq(Task)
    BY <1>2, RunningType, GateWaitType DEF WriterIdles
  <2> QED
    BY <1>2, <2>1 DEF WriterIdles, TypeOK, Issued, requestVars, tableVars, eventVars
<1>3. CASE WriterWrites(buffered)
  <2> DEFINE left == Tail(tasks) \o SendTasks(WokenN(queueSlots, Len(outbound)))
  <2>1. Write(Len(outbound), buffered) /\ Len(outbound) \in Nat
    BY <1>3 DEF WriterWrites, TypeOK
  <2>2. /\ ReleaseN(queueSlots, Len(outbound)) \in SemaphoreState
        /\ SendTasks(WokenN(queueSlots, Len(outbound))) \in Seq(Task)
    BY <2>1, ReleaseNType, TasksType DEF TypeOK
  <2>3. left \in Seq(Task)
    BY <2>1, <2>2, RunningType, ConcatProperties DEF Write
  <2>4. wire' \in Seq(Frame)
    <3>1. /\ wire \in Seq(Frame) /\ CancelFrames(priority) \in Seq(Frame)
          /\ RequestFrames(outbound) \in Seq(Frame)
      BY FramesType DEF TypeOK
    <3> QED
      BY <2>1, <3>1, ConcatProperties DEF Write
  <2>5. /\ writer' \in {"waiting", "resumed", "draining", "exited"}
        /\ signalled' \in BOOLEAN /\ tasks' \in Seq(Task)
    <3>1. CASE buffered
      BY <2>1, <2>3, <3>1, GateWaitType DEF Write
    <3>2. CASE ~buffered
      BY <2>1, <2>3, <3>2 DEF Write, TypeOK
    <3> QED
      BY <3>1, <3>2
  <2>6. outbound' \in Seq(Nat) /\ priority' \in Seq(Nat)
    BY <2>1 DEF Write
  <2> QED
    BY <2>1, <2>2, <2>4, <2>5, <2>6
       DEF Write, TypeOK, Issued, requestVars, tableVars, eventVars
<1> QED
  BY <1>1, <1>2, <1>3

\* Routing a response: an answer settles its request, an item changes nothing, and
\* a mismatch cancels.
LEMMA AnswerType ==
  ASSUME TypeOK, NEW id \in Issued, NEW result \in Outcomes, Answer(id, result),
         UNCHANGED <<dead, socket, released>>, inData' \in BOOLEAN
  PROVE  TypeOK'
<1>1. /\ pending' \subseteq Issued /\ permitted' \subseteq Issued
      /\ inflight' \in SemaphoreState /\ FinalizeWakes(id) \in Seq(Task)
  BY FinalizeType DEF Answer
<1>2. outcome' \in [Issued -> Outcomes]
  BY SettleType DEF Answer
<1>3. tasks' \in Seq(Task)
  <2>1. tasks \in Seq(Task)
    BY DEF TypeOK
  <2> QED
    BY <1>1, <2>1, ConcatProperties DEF Answer
<1> QED
  BY <1>1, <1>2, <1>3 DEF Answer, TypeOK, Issued, writerVars

\* How a response settles its request, if it does.
LEMMA RouteCases ==
  ASSUME TypeOK, NEW id, NEW response \in Responses, Route(id, response)
  PROVE  /\ id \in Issued /\ id \in pending
         /\ UNCHANGED <<dead, socket, released>> /\ inData' = TRUE
         /\ \/ \E result \in Outcomes \ {"open"} : Answer(id, result)
            \/ UNCHANGED <<requestVars, tableVars, writerVars, tasks>>
            \/ Cancel(id, "protocolError", tasks)
<1>1. id \in Issued /\ id \in pending /\ inData' = TRUE /\ UNCHANGED <<dead, socket, released>>
  BY DEF Route, TypeOK
<1>2. CASE RouteHello(id, response)
  <2> DEFINE result == CASE response = "helloAck" -> "ok"
                         [] response = "error"    -> "serverError"
                         [] OTHER                 -> "protocolError"
  <2>1. result \in Outcomes \ {"open"} /\ Answer(id, result)
    BY <1>2 DEF RouteHello, Outcomes
  <2> QED
    BY <1>1, <2>1
<1>3. CASE RouteUnary(id, response)
  <2> DEFINE result == CASE response = "error"  -> "serverError"
                         [] response = kind[id] -> "ok"
                         [] OTHER               -> "protocolError"
  <2>0. kind[id] # "error"
    BY <1>3 DEF RouteUnary, UnaryKinds
  <2>1. result \in Outcomes \ {"open"}
    BY <2>0 DEF Outcomes
  <2>2. Answer(id, result)
    BY <1>3 DEF RouteUnary
  <2> QED
    BY <1>1, <2>1, <2>2
<1>4. CASE RouteItem(id, response)
  BY <1>1, <1>4 DEF RouteItem
<1>5. CASE RouteEnd(id, response)
  BY <1>1, <1>5 DEF RouteEnd, Outcomes
<1>6. CASE RouteMismatch(id, response)
  BY <1>1, <1>6 DEF RouteMismatch
<1> QED
  BY <1>2, <1>3, <1>4, <1>5, <1>6 DEF Route

LEMMA RouteType ==
  ASSUME TypeOK, NEW id, NEW response \in Responses, Route(id, response)
  PROVE  TypeOK'
<1>1. /\ id \in Issued /\ UNCHANGED <<dead, socket, released>> /\ inData' = TRUE
      /\ \/ \E result \in Outcomes \ {"open"} : Answer(id, result)
         \/ UNCHANGED <<requestVars, tableVars, writerVars, tasks>>
         \/ Cancel(id, "protocolError", tasks)
  BY RouteCases
<1>2. ASSUME NEW result \in Outcomes \ {"open"}, Answer(id, result)
      PROVE  TypeOK'
  BY <1>1, <1>2, AnswerType
<1>3. CASE UNCHANGED <<requestVars, tableVars, writerVars, tasks>>
  BY <1>1, <1>3 DEF TypeOK, Issued, requestVars, tableVars, writerVars
<1>4. CASE Cancel(id, "protocolError", tasks)
  BY <1>1, <1>4, CancelType DEF TypeOK, Outcomes
<1> QED
  BY <1>1, <1>2, <1>3, <1>4

LEMMA InitType == Init => TypeOK
<1> SUFFICES ASSUME Init PROVE TypeOK
  OBVIOUS
<1>1. NewSemaphore(MaxInflightRequests) \in SemaphoreState
      /\ NewSemaphore(RequestQueueDepth) \in SemaphoreState
  BY ConfigAssumption DEF NewSemaphore, SemaphoreState
<1>2. HelloId \in Nat
  BY DEF HelloId
<1>3. inflight \in SemaphoreState
  BY <1>1, <1>2, AcquireType DEF Init
<1>4. tasks \in Seq(Task)
  <2>1. SendTask(HelloId) \in Task
    BY <1>2 DEF SendTask, Task
  <2> QED
    BY <2>1 DEF Init
<1>5. Issued = {1} /\ Issued \subseteq 1 .. idCounter
  BY DEF Init, Issued, HelloId
<1>6. /\ kind \in [Issued -> Kinds] /\ outcome \in [Issued -> Outcomes]
      /\ pc \in [Issued -> {"inflight", "slot", "queued", "dropped"}]
  BY <1>5 DEF Init, HelloId, Kinds, Outcomes
<1>7. /\ idCounter \in Nat \ {0} /\ pending \subseteq Issued /\ permitted \subseteq Issued
      /\ queueSlots \in SemaphoreState
  BY <1>1, <1>5 DEF Init, HelloId
<1>8. outbound \in Seq(Nat) /\ priority \in Seq(Nat) /\ wire \in Seq(Frame)
  BY DEF Init
<1>9. /\ writer \in {"waiting", "resumed", "draining", "exited"}
      /\ signalled \in BOOLEAN /\ dead \in BOOLEAN
      /\ socket \in {"open", "destroyed", "closed"}
      /\ released \in BOOLEAN /\ inData \in BOOLEAN
  BY DEF Init
<1> QED
  BY <1>3, <1>4, <1>5, <1>6, <1>7, <1>8, <1>9 DEF TypeOK

\* A step of the user, of the event loop or of the socket keeps the types.
LEMMA UserCallType ==
  ASSUME TypeOK, UserCall
  PROVE  TypeOK'
<1>0. "aborted" \in Outcomes /\ "ended" \in Outcomes /\ tasks \in Seq(Task)
  BY DEF Outcomes, TypeOK
<1>1. ASSUME NEW k \in UserKinds,
             Unary(k) \/ UnaryPreAborted(k) \/ Stream(k) \/ StreamPreAborted(k)
      PROVE  TypeOK'
  <2>1. k \in Kinds
    BY ConfigAssumption DEF Kinds
  <2>2. CASE Unary(k) \/ Stream(k)
    <3>1. <<>> \in Seq(Task) /\ Open(k, <<>>)
      BY <2>2 DEF Unary, Stream
    <3> QED
      BY <2>1, <3>1, OpenType
  <2>3. CASE UnaryPreAborted(k)
    BY <2>1, <2>3, UnaryPreAbortedType
  <2>4. CASE StreamPreAborted(k)
    <3>1. AbortTask(idCounter + 1) \in Task
      BY DEF AbortTask, Task, TypeOK
    <3>2. <<AbortTask(idCounter + 1)>> \in Seq(Task)
      BY <3>1
    <3> QED
      BY <2>1, <2>4, <3>2, OpenType DEF StreamPreAborted
  <2> QED
    BY <1>1, <2>2, <2>3, <2>4
<1>2. ASSUME NEW id \in Issued, NEW result \in {"aborted", "ended"},
             AbortUnary(id) \/ StopStream(id, result)
      PROVE  TypeOK'
  <2>1. Cancel(id, "aborted", tasks) \/ Cancel(id, result, tasks)
    BY <1>2 DEF AbortUnary, StopStream
  <2>2. UNCHANGED <<dead, socket, released>> /\ inData' \in BOOLEAN
    BY <1>2 DEF AbortUnary, StopStream, eventVars, TypeOK
  <2> QED
    BY <1>0, <2>1, <2>2, CancelType
<1>3. CASE Close \/ ConnectFails
  <2>1. Destroy
    BY <1>3 DEF Close, ConnectFails
  <2>2. /\ FailConnection({}) /\ socket' \in {"open", "destroyed", "closed"}
        /\ released' \in BOOLEAN /\ inData' \in BOOLEAN
    BY <2>1 DEF Destroy, TypeOK
  <2> QED
    BY <2>2, FailConnectionType
<1> QED
  BY <1>1, <1>2, <1>3 DEF UserCall

LEMMA MicrotaskType ==
  ASSUME TypeOK, Microtask
  PROVE  TypeOK'
<1>1. ASSUME NEW id \in Issued,
             ResumeGone(id) \/ ResumeDead(id) \/ ResumeTooLarge(id)
      PROVE  TypeOK'
  <2>1. /\ Running("send", id) /\ "connError" \in Outcomes /\ "tooLarge" \in Outcomes
        /\ GiveUp(id, "connError") \/ GiveUp(id, "tooLarge")
    BY <1>1 DEF ResumeGone, ResumeDead, ResumeTooLarge, Outcomes
  <2> QED
    BY <2>1, GiveUpType
<1>2. ASSUME NEW id \in Issued, ResumePermitted(id)
      PROVE  TypeOK'
  BY <1>2, TakePermitType DEF ResumePermitted
<1>3. ASSUME NEW id \in Issued, ResumeQueued(id) \/ ResumeSlotDead(id) \/ RunAbort(id)
      PROVE  TypeOK'
  BY <1>3, ResumeQueuedType, ResumeSlotDeadType, RunAbortType
<1>4. ASSUME NEW buffered \in BOOLEAN, WriterExits \/ WriterIdles \/ WriterWrites(buffered)
      PROVE  TypeOK'
  BY <1>4, WriterType
<1> QED
  BY <1>1, <1>2, <1>3, <1>4 DEF Microtask

LEMMA EventType ==
  ASSUME TypeOK, RouteUnknown \/ RouteUnattributed \/ BadFrame \/ LocalEvent
  PROVE  TypeOK'
<1>1. CASE RouteUnknown \/ EndChunk
  BY <1>1 DEF RouteUnknown, EndChunk, TypeOK, Issued, requestVars, tableVars, writerVars
<1>2. CASE RouteUnattributed \/ BadFrame \/ SocketError \/ SocketClose
  <2>1. /\ FailConnection({}) \/ FailConnection({"draining"})
        /\ socket' \in {"open", "destroyed", "closed"}
        /\ released' \in BOOLEAN /\ inData' \in BOOLEAN
    BY <1>2 DEF RouteUnattributed, BadFrame, SocketError, SocketClose, TypeOK
  <2> QED
    BY <2>1, FailConnectionType
<1>3. CASE DrainEvent
  <2>1. <<WriterTask>> \in Seq(Task)
    BY WriterTaskType
  <2> QED
    BY <1>3, <2>1 DEF DrainEvent, TypeOK, Issued, requestVars, tableVars, eventVars
<1> QED
  BY <1>1, <1>2, <1>3 DEF LocalEvent

LEMMA StepType == TypeOK /\ [Next]_vars => TypeOK'
<1> SUFFICES ASSUME TypeOK, [Next]_vars
             PROVE  TypeOK'
  OBVIOUS
<1>1. CASE UserCall
  BY <1>1, UserCallType
<1>2. CASE Microtask
  BY <1>2, MicrotaskType
<1>3. CASE \E id \in pending, response \in Responses : Route(id, response)
  BY <1>3, RouteType
<1>4. CASE RouteUnknown \/ RouteUnattributed \/ BadFrame \/ LocalEvent
  BY <1>4, EventType
<1>5. CASE UNCHANGED vars
  BY <1>5 DEF vars, requestVars, tableVars, writerVars, eventVars, TypeOK, Issued
<1> QED
  BY <1>1, <1>2, <1>3, <1>4, <1>5 DEF Next

\* Every variable of the connection keeps its type, for every budget and depth.
THEOREM Typing == Spec => []TypeOK
<1>1. Init => TypeOK
  BY InitType
<1>2. TypeOK /\ [Next]_vars => TypeOK'
  BY StepType
<1> QED
  BY <1>1, <1>2, PTL DEF Spec

-----------------------------------------------------------------------------
(* The pending map and the outcomes.  The two invariants about them are    *)
(* inductive with the types.                                               *)

TableInv == TypeOK /\ PendingIsOpen /\ DeadPendingUnsent

\* A step that keeps who is pending, what is settled and who is sent.
LEMMA TableUnchanged ==
  ASSUME TableInv, UNCHANGED <<outcome, pending, dead>>,
         Issued' = Issued, \A i \in pending : pc'[i] = pc[i] \/ ~dead
  PROVE  PendingIsOpen' /\ DeadPendingUnsent'
  BY DEF TableInv, PendingIsOpen, DeadPendingUnsent

\* One request is settled, for good, and leaves the map.
LEMMA TableSettles ==
  ASSUME TableInv, NEW id \in Issued, NEW result \in Outcomes \ {"open"},
         Settle(id, result), pending' = pending \ {id}, UNCHANGED dead,
         Issued' = Issued, \A i \in pending \ {id} : pc'[i] = pc[i]
  PROVE  PendingIsOpen' /\ DeadPendingUnsent'
<1>1. /\ outcome'[id] # "open"
      /\ \A i \in Issued \ {id} : outcome'[i] = outcome[i]
  BY DEF Settle, TableInv, TypeOK
<1>2. PendingIsOpen'
  BY <1>1 DEF TableInv, PendingIsOpen
<1>3. DeadPendingUnsent'
  BY DEF TableInv, DeadPendingUnsent
<1> QED
  BY <1>2, <1>3

\* A cancelled request was open and in the map, or neither.
LEMMA TableCancels ==
  ASSUME TableInv, NEW id \in Issued, NEW result \in Outcomes \ {"open"}, NEW queue,
         Cancel(id, result, queue), UNCHANGED dead
  PROVE  PendingIsOpen' /\ DeadPendingUnsent'
<1>1. Settle(id, result) /\ UNCHANGED pc /\ Issued' = Issued
  BY DEF Cancel, Issued
<1>2. pending' = pending \ {id}
  BY DEF Cancel, Finalize, tableVars
<1> QED
  BY <1>1, <1>2, TableSettles

\* All that are pending fail together, once.
LEMMA TableFails ==
  ASSUME TableInv, NEW roused, FailConnection(roused)
  PROVE  PendingIsOpen' /\ DeadPendingUnsent'
<1>1. /\ Issued' = Issued /\ UNCHANGED pc /\ pending' = pending \ Failed /\ dead'
      /\ outcome' = [i \in DOMAIN outcome |->
                       IF i \in Failed /\ outcome[i] = "open" THEN "connError" ELSE outcome[i]]
      /\ DOMAIN outcome = Issued
  BY DEF FailConnection, Issued, TableInv, TypeOK
<1>2. PendingIsOpen'
  BY <1>1 DEF PendingIsOpen, TableInv
<1>3. DeadPendingUnsent'
  BY <1>1 DEF DeadPendingUnsent, TableInv, Failed
<1> QED
  BY <1>2, <1>3

\* A new request is in the map exactly if it is not settled from the start.
LEMMA TableRegisters ==
  ASSUME TableInv, NEW k, NEW result, Register(idCounter + 1, k, result),
         pending' = IF result = "open" THEN pending \cup {idCounter + 1} ELSE pending
  PROVE  PendingIsOpen' /\ DeadPendingUnsent'
<1> DEFINE id == idCounter + 1
<1>1. id \notin Issued /\ pending \subseteq Issued /\ DOMAIN outcome = Issued
  BY DEF TableInv, TypeOK
<1>2. /\ Issued' = Issued \cup {id} /\ UNCHANGED dead
      /\ outcome'[id] = result /\ pc'[id] = "inflight"
      /\ \A i \in Issued : outcome'[i] = outcome[i] /\ pc'[i] = pc[i]
  BY <1>1 DEF Register, With, Issued, eventVars
<1> HIDE DEF id
<1>3. pending' = IF result = "open" THEN pending \cup {id} ELSE pending
  BY DEF id
<1>4. PendingIsOpen'
  BY <1>1, <1>2, <1>3 DEF PendingIsOpen, TableInv
<1>5. DeadPendingUnsent'
  BY <1>1, <1>2, <1>3 DEF DeadPendingUnsent, TableInv
<1> QED
  BY <1>4, <1>5

LEMMA TableUserCall ==
  ASSUME TableInv, UserCall
  PROVE  PendingIsOpen' /\ DeadPendingUnsent'
<1>1. ASSUME NEW k \in UserKinds,
             Unary(k) \/ UnaryPreAborted(k) \/ Stream(k) \/ StreamPreAborted(k)
      PROVE  PendingIsOpen' /\ DeadPendingUnsent'
  <2>1. CASE UnaryPreAborted(k)
    BY <2>1, TableRegisters DEF UnaryPreAborted
  <2>2. ASSUME NEW first, Open(k, first)
        PROVE  PendingIsOpen' /\ DeadPendingUnsent'
    BY <2>2, TableRegisters DEF Open
  <2> QED
    BY <1>1, <2>1, <2>2 DEF Unary, Stream, StreamPreAborted
<1>2. ASSUME NEW id \in Issued, NEW result \in {"aborted", "ended"},
             AbortUnary(id) \/ StopStream(id, result)
      PROVE  PendingIsOpen' /\ DeadPendingUnsent'
  <2>1. /\ Cancel(id, "aborted", tasks) \/ Cancel(id, result, tasks)
        /\ UNCHANGED dead
    BY <1>2 DEF AbortUnary, StopStream, eventVars
  <2> QED
    BY <2>1, TableCancels DEF Outcomes
<1>3. CASE Close \/ ConnectFails
  BY <1>3, TableFails DEF Close, ConnectFails, Destroy
<1> QED
  BY <1>1, <1>2, <1>3 DEF UserCall

LEMMA TableMicrotask ==
  ASSUME TableInv, Microtask
  PROVE  PendingIsOpen' /\ DeadPendingUnsent'
<1>1. ASSUME NEW id \in Issued, NEW result \in Outcomes \ {"open"}, GiveUp(id, result)
      PROVE  PendingIsOpen' /\ DeadPendingUnsent'
  <2>1. /\ pending' = pending \ {id} /\ UNCHANGED dead /\ Issued' = Issued
        /\ \A i \in Issued \ {id} : pc'[i] = pc[i]
        /\ pending \subseteq Issued
    BY <1>1 DEF GiveUp, eventVars, Issued, TableInv, TypeOK
  <2>2. CASE id \in pending
    BY <1>1, <2>1, <2>2, TableSettles DEF GiveUp
  <2>3. CASE id \notin pending
    <3>1. UNCHANGED <<outcome, pending>>
      BY <1>1, <2>1, <2>3 DEF GiveUp
    <3> QED
      BY <2>1, <2>3, <3>1, TableUnchanged
  <2> QED
    BY <2>2, <2>3
<1>2. ASSUME NEW id \in Issued, ResumePermitted(id)
      PROVE  PendingIsOpen' /\ DeadPendingUnsent'
  <2>1. UNCHANGED <<outcome, pending, dead>> /\ ~dead /\ Issued' = Issued
    BY <1>2 DEF ResumePermitted, TakePermit, eventVars, Issued, TableInv, TypeOK
  <2> QED
    BY <2>1, TableUnchanged
<1>3. ASSUME NEW id \in Issued, ResumeQueued(id) \/ ResumeSlotDead(id)
      PROVE  PendingIsOpen' /\ DeadPendingUnsent'
  <2>1. /\ UNCHANGED <<outcome, pending, dead>> /\ Issued' = Issued /\ pc[id] = "slot"
        /\ \A i \in Issued \ {id} : pc'[i] = pc[i]
        /\ pending \subseteq Issued
    BY <1>3 DEF ResumeQueued, ResumeSlotDead, tableVars, eventVars, Issued, TableInv, TypeOK
  <2>2. dead => id \notin pending
    BY <2>1 DEF TableInv, DeadPendingUnsent
  <2> QED
    BY <2>1, <2>2, TableUnchanged
<1>4. ASSUME NEW id \in Issued, RunAbort(id)
      PROVE  PendingIsOpen' /\ DeadPendingUnsent'
  <2>1. CASE outcome[id] = "open"
    BY <1>4, <2>1, TableCancels DEF RunAbort, eventVars, Outcomes
  <2>2. CASE outcome[id] # "open"
    <3>1. UNCHANGED <<outcome, pending, dead, pc>>
      BY <1>4, <2>2 DEF RunAbort, requestVars, tableVars, eventVars
    <3> QED
      BY <3>1, TableUnchanged DEF Issued
  <2> QED
    BY <2>1, <2>2
<1>5. ASSUME NEW buffered \in BOOLEAN, WriterExits \/ WriterIdles \/ WriterWrites(buffered)
      PROVE  PendingIsOpen' /\ DeadPendingUnsent'
  <2>1. UNCHANGED <<outcome, pending, dead, pc>>
    BY <1>5 DEF WriterExits, WriterIdles, WriterWrites, Write, requestVars, tableVars, eventVars
  <2> QED
    BY <2>1, TableUnchanged DEF Issued
<1> QED
  BY <1>1, <1>2, <1>3, <1>4, <1>5
     DEF Microtask, ResumeGone, ResumeDead, ResumeTooLarge, Outcomes

LEMMA TableEvent ==
  ASSUME TableInv,
         \/ \E id \in pending, response \in Responses : Route(id, response)
         \/ RouteUnknown \/ RouteUnattributed \/ BadFrame \/ LocalEvent
  PROVE  PendingIsOpen' /\ DeadPendingUnsent'
<1>1. ASSUME NEW id \in pending, NEW response \in Responses, Route(id, response)
      PROVE  PendingIsOpen' /\ DeadPendingUnsent'
  <2>1. /\ id \in Issued /\ UNCHANGED dead
        /\ \/ \E result \in Outcomes \ {"open"} : Answer(id, result)
           \/ UNCHANGED <<requestVars, tableVars, writerVars, tasks>>
           \/ Cancel(id, "protocolError", tasks)
    BY <1>1, RouteCases DEF TableInv
  <2>2. CASE UNCHANGED <<requestVars, tableVars, writerVars, tasks>>
    BY <2>1, <2>2, TableUnchanged DEF requestVars, tableVars, Issued
  <2>3. CASE Cancel(id, "protocolError", tasks)
    BY <2>1, <2>3, TableCancels DEF Outcomes
  <2>4. ASSUME NEW result \in Outcomes \ {"open"}, Answer(id, result)
        PROVE  PendingIsOpen' /\ DeadPendingUnsent'
    <3>1. /\ Settle(id, result) /\ pending' = pending \ {id} /\ UNCHANGED pc
          /\ Issued' = Issued
      BY <2>4 DEF Answer, Finalize, Issued
    <3> QED
      BY <2>1, <3>1, TableSettles
  <2> QED
    BY <2>1, <2>2, <2>3, <2>4
<1>2. CASE RouteUnknown \/ EndChunk \/ DrainEvent
  <2>1. UNCHANGED <<outcome, pending, dead, pc>>
    BY <1>2 DEF RouteUnknown, EndChunk, DrainEvent, requestVars, tableVars, eventVars
  <2> QED
    BY <2>1, TableUnchanged DEF Issued
<1>3. CASE RouteUnattributed \/ BadFrame \/ SocketError \/ SocketClose
  BY <1>3, TableFails DEF RouteUnattributed, BadFrame, SocketError, SocketClose
<1> QED
  BY <1>1, <1>2, <1>3 DEF LocalEvent

LEMMA InitTable == Init => TableInv
<1> SUFFICES ASSUME Init PROVE TableInv
  OBVIOUS
<1>1. Issued = {HelloId} /\ pending = {HelloId} /\ outcome[HelloId] = "open" /\ ~dead
  BY DEF Init, Issued
<1> QED
  BY <1>1, InitType DEF TableInv, PendingIsOpen, DeadPendingUnsent

LEMMA StepTable == TableInv /\ [Next]_vars => TableInv'
<1> SUFFICES ASSUME TableInv, [Next]_vars
             PROVE  TableInv'
  OBVIOUS
<1>1. TypeOK'
  BY StepType DEF TableInv
<1>2. CASE Next
  BY <1>1, <1>2, TableUserCall, TableMicrotask, TableEvent DEF Next, TableInv
<1>3. CASE UNCHANGED vars
  BY <1>1, <1>3, TableUnchanged DEF vars, requestVars, tableVars, eventVars, TableInv, Issued
<1> QED
  BY <1>2, <1>3

\* The table and the outcomes agree: an unsettled request can still be answered or
\* failed, a settled one is forgotten.
THEOREM TableAgrees == Spec => []PendingIsOpen
<1>1. Init => TableInv
  BY InitTable
<1>2. TableInv /\ [Next]_vars => TableInv'
  BY StepTable
<1>3. TableInv => PendingIsOpen
  BY DEF TableInv
<1> QED
  BY <1>1, <1>2, <1>3, PTL DEF Spec

\* What is registered on a dead connection stays behind its first await, so that the
\* catch block of a send coroutine finds nothing to clean up there.
THEOREM NothingSentAfterDeath == Spec => []DeadPendingUnsent
<1>1. Init => TableInv
  BY InitTable
<1>2. TableInv /\ [Next]_vars => TableInv'
  BY StepTable
<1>3. TableInv => DeadPendingUnsent
  BY DEF TableInv
<1> QED
  BY <1>1, <1>2, <1>3, PTL DEF Spec

\* How far one step takes a send coroutine.
LEMMA Progress ==
  ASSUME TypeOK, Next, NEW id \in Issued
  PROVE  /\ id \in Issued'
         /\ \/ pc'[id] = pc[id]
            \/ pc[id] = "inflight" /\ pc'[id] = "dropped"
            \/ pc[id] = "inflight" /\ pc'[id] = "slot" /\ id \in pending /\ ~dead
            \/ pc[id] = "slot" /\ pc'[id] \in {"queued", "dropped"}
<1> DEFINE Stays == id \in Issued' /\ pc'[id] = pc[id]
           Moves == /\ id \in Issued'
                    /\ \/ pc'[id] = pc[id]
                       \/ pc[id] = "inflight" /\ pc'[id] = "dropped"
                       \/ pc[id] = "inflight" /\ pc'[id] = "slot" /\ id \in pending /\ ~dead
                       \/ pc[id] = "slot" /\ pc'[id] \in {"queued", "dropped"}
<1>1. ASSUME UNCHANGED pc
      PROVE  Stays
  BY <1>1 DEF Issued
<1>2. ASSUME NEW other, NEW result, NEW queue, Cancel(other, result, queue)
      PROVE  Stays
  BY <1>1, <1>2 DEF Cancel
<1>3. ASSUME NEW roused, FailConnection(roused)
      PROVE  Stays
  BY <1>1, <1>3 DEF FailConnection
<1>4. ASSUME NEW k, NEW result, Register(idCounter + 1, k, result)
      PROVE  Stays
  <2>1. id # idCounter + 1
    BY DEF TypeOK
  <2> QED
    BY <1>4, <2>1 DEF Register, With, Issued
<1>5. CASE UserCall
  <2>1. ASSUME NEW k \in UserKinds,
               Unary(k) \/ UnaryPreAborted(k) \/ Stream(k) \/ StreamPreAborted(k)
        PROVE  Stays
    BY <2>1, <1>4 DEF Unary, UnaryPreAborted, Stream, StreamPreAborted, Open
  <2>2. ASSUME NEW other \in Issued, NEW result, AbortUnary(other) \/ StopStream(other, result)
        PROVE  Stays
    BY <2>2, <1>2 DEF AbortUnary, StopStream
  <2>3. CASE Close \/ ConnectFails
    BY <2>3, <1>3 DEF Close, ConnectFails, Destroy
  <2> QED
    BY <1>5, <2>1, <2>2, <2>3 DEF UserCall
<1>6. CASE Microtask
  <2>1. ASSUME NEW other \in Issued, NEW result,
               GiveUp(other, result), pc[other] = "inflight"
        PROVE  Moves
    BY <2>1 DEF GiveUp, Issued, TypeOK
  <2>2. ASSUME NEW other \in Issued, ResumePermitted(other)
        PROVE  Moves
    BY <2>2 DEF ResumePermitted, TakePermit, Issued, TypeOK
  <2>3. ASSUME NEW other \in Issued, ResumeQueued(other) \/ ResumeSlotDead(other)
        PROVE  Moves
    BY <2>3 DEF ResumeQueued, ResumeSlotDead, Issued, TypeOK
  <2>4. ASSUME NEW other \in Issued, RunAbort(other)
        PROVE  Stays
    BY <2>4, <1>1, <1>2 DEF RunAbort, requestVars
  <2>5. ASSUME NEW buffered \in BOOLEAN, WriterExits \/ WriterIdles \/ WriterWrites(buffered)
        PROVE  Stays
    BY <2>5, <1>1 DEF WriterExits, WriterIdles, WriterWrites, Write, requestVars
  <2> QED
    BY <1>6, <2>1, <2>2, <2>3, <2>4, <2>5
       DEF Microtask, ResumeGone, ResumeDead, ResumeTooLarge
<1>7. ASSUME NEW other \in pending, NEW response \in Responses, Route(other, response)
      PROVE  Stays
  <2>1. \/ \E result \in Outcomes \ {"open"} : Answer(other, result)
        \/ UNCHANGED <<requestVars, tableVars, writerVars, tasks>>
        \/ Cancel(other, "protocolError", tasks)
    BY <1>7, RouteCases
  <2> QED
    BY <2>1, <1>1, <1>2 DEF Answer, requestVars
<1>8. CASE RouteUnknown \/ EndChunk \/ DrainEvent
  BY <1>8, <1>1 DEF RouteUnknown, EndChunk, DrainEvent, requestVars
<1>9. CASE RouteUnattributed \/ BadFrame \/ SocketError \/ SocketClose
  BY <1>9, <1>3 DEF RouteUnattributed, BadFrame, SocketError, SocketClose
<1> QED
  BY <1>5, <1>6, <1>7, <1>8, <1>9 DEF Next, LocalEvent

\* Whom one step registers: its number is new, and it is at the first await.
LEMMA NewIds ==
  ASSUME TypeOK, Next, NEW id \in Issued', id \notin Issued
  PROVE  id = idCounter + 1 /\ pc'[id] = "inflight"
<1> DEFINE New == id = idCounter + 1 /\ pc'[id] = "inflight"
           Same == Issued' = Issued
<1>1. ASSUME UNCHANGED pc
      PROVE  Same
  BY <1>1 DEF Issued
<1>2. ASSUME NEW other, NEW result, NEW queue, Cancel(other, result, queue)
      PROVE  Same
  BY <1>1, <1>2 DEF Cancel
<1>3. ASSUME NEW roused, FailConnection(roused)
      PROVE  Same
  BY <1>1, <1>3 DEF FailConnection
<1>4. ASSUME NEW k, NEW result, Register(idCounter + 1, k, result)
      PROVE  New
  BY <1>4 DEF Register, With, Issued
<1>5. CASE UserCall
  <2>1. ASSUME NEW k \in UserKinds,
               Unary(k) \/ UnaryPreAborted(k) \/ Stream(k) \/ StreamPreAborted(k)
        PROVE  New
    BY <2>1, <1>4 DEF Unary, UnaryPreAborted, Stream, StreamPreAborted, Open
  <2>2. ASSUME NEW other \in Issued, NEW result, AbortUnary(other) \/ StopStream(other, result)
        PROVE  Same
    BY <2>2, <1>2 DEF AbortUnary, StopStream
  <2>3. CASE Close \/ ConnectFails
    BY <2>3, <1>3 DEF Close, ConnectFails, Destroy
  <2> QED
    BY <1>5, <2>1, <2>2, <2>3 DEF UserCall
<1>6. CASE Microtask
  <2>1. ASSUME NEW other \in Issued,
               \/ ResumeGone(other) \/ ResumeDead(other) \/ ResumeTooLarge(other)
               \/ ResumePermitted(other) \/ ResumeQueued(other) \/ ResumeSlotDead(other)
        PROVE  Same
    BY <2>1 DEF ResumeGone, ResumeDead, ResumeTooLarge, GiveUp, ResumePermitted, TakePermit,
                ResumeQueued, ResumeSlotDead, Issued
  <2>2. ASSUME NEW other \in Issued, RunAbort(other)
        PROVE  Same
    BY <2>2, <1>1, <1>2 DEF RunAbort, requestVars
  <2>3. ASSUME NEW buffered \in BOOLEAN, WriterExits \/ WriterIdles \/ WriterWrites(buffered)
        PROVE  Same
    BY <2>3, <1>1 DEF WriterExits, WriterIdles, WriterWrites, Write, requestVars
  <2> QED
    BY <1>6, <2>1, <2>2, <2>3 DEF Microtask
<1>7. ASSUME NEW other \in pending, NEW response \in Responses, Route(other, response)
      PROVE  Same
  <2>1. \/ \E result \in Outcomes \ {"open"} : Answer(other, result)
        \/ UNCHANGED <<requestVars, tableVars, writerVars, tasks>>
        \/ Cancel(other, "protocolError", tasks)
    BY <1>7, RouteCases
  <2> QED
    BY <2>1, <1>1, <1>2 DEF Answer, requestVars
<1>8. CASE RouteUnknown \/ EndChunk \/ DrainEvent
  BY <1>8, <1>1 DEF RouteUnknown, EndChunk, DrainEvent, requestVars
<1>9. CASE RouteUnattributed \/ BadFrame \/ SocketError \/ SocketClose
  BY <1>9, <1>3 DEF RouteUnattributed, BadFrame, SocketError, SocketClose
<1> QED
  BY <1>5, <1>6, <1>7, <1>8, <1>9 DEF Next, LocalEvent

\* What one step does to the outbound queue and its slots.  While the connection lives
\* only a send coroutine and the writer touch them.
LEMMA QueueEffect ==
  ASSUME TypeOK, Next
  PROVE  /\ dead => dead'
         /\ \/ /\ UNCHANGED <<wire, outbound, queueSlots>>
               /\ {i \in Issued' : pc'[i] = "slot"} = {i \in Issued : pc[i] = "slot"}
            \/ dead' /\ UNCHANGED <<wire, outbound>>
            \/ \E id \in Issued : ResumePermitted(id) \/ ResumeQueued(id)
            \/ ~dead /\ \E buffered \in BOOLEAN : WriterWrites(buffered)
<1> DEFINE Quiet == /\ UNCHANGED <<wire, outbound, queueSlots>> /\ (dead => dead')
                    /\ {i \in Issued' : pc'[i] = "slot"} = {i \in Issued : pc[i] = "slot"}
           Dead == dead' /\ UNCHANGED <<wire, outbound>>
<1>1. ASSUME UNCHANGED <<pc, wire, outbound, queueSlots, dead>>
      PROVE  Quiet
  BY <1>1 DEF Issued
<1>2. ASSUME NEW id, NEW result, NEW queue, Cancel(id, result, queue), UNCHANGED dead
      PROVE  Quiet
  BY <1>1, <1>2 DEF Cancel
<1>3. ASSUME NEW roused, FailConnection(roused)
      PROVE  Dead
  BY <1>3 DEF FailConnection
<1>4. ASSUME NEW k, NEW result, Register(idCounter + 1, k, result)
      PROVE  Quiet
  <2>1. /\ UNCHANGED <<wire, outbound, queueSlots, dead>>
        /\ Issued' = Issued \cup {idCounter + 1} /\ idCounter + 1 \notin Issued
        /\ pc'[idCounter + 1] = "inflight"
        /\ \A i \in Issued : pc'[i] = pc[i]
    BY <1>4 DEF Register, With, Issued, eventVars, TypeOK
  <2> QED
    BY <2>1
<1>5. CASE UserCall
  <2>1. ASSUME NEW k \in UserKinds,
               Unary(k) \/ UnaryPreAborted(k) \/ Stream(k) \/ StreamPreAborted(k)
        PROVE  Quiet
    BY <2>1, <1>4 DEF Unary, UnaryPreAborted, Stream, StreamPreAborted, Open
  <2>2. ASSUME NEW id \in Issued, NEW result, AbortUnary(id) \/ StopStream(id, result)
        PROVE  Quiet
    BY <2>2, <1>2 DEF AbortUnary, StopStream, eventVars
  <2>3. CASE Close \/ ConnectFails
    BY <2>3, <1>3 DEF Close, ConnectFails, Destroy
  <2> QED
    BY <1>5, <2>1, <2>2, <2>3 DEF UserCall
<1>6. ASSUME NEW id \in Issued, ResumeGone(id) \/ ResumeDead(id) \/ ResumeTooLarge(id)
      PROVE  Quiet
  <2>1. /\ UNCHANGED <<wire, outbound, queueSlots, dead>>
        /\ pc[id] = "inflight" /\ pc' = [pc EXCEPT ![id] = "dropped"]
    BY <1>6 DEF ResumeGone, ResumeDead, ResumeTooLarge, GiveUp, writerVars, eventVars
  <2> QED
    BY <2>1 DEF Issued, TypeOK
<1>7. ASSUME NEW id \in Issued, ResumeSlotDead(id)
      PROVE  Dead
  BY <1>7 DEF ResumeSlotDead, eventVars
<1>8. ASSUME NEW id \in Issued, RunAbort(id)
      PROVE  Quiet
  BY <1>8, <1>1, <1>2 DEF RunAbort, requestVars, writerVars, eventVars
<1>9. CASE WriterExits \/ WriterIdles
  BY <1>9, <1>1 DEF WriterExits, WriterIdles, requestVars, eventVars
<1>10. ASSUME NEW id \in pending, NEW response \in Responses, Route(id, response)
       PROVE  Quiet
  <2>1. /\ UNCHANGED dead
        /\ \/ \E result \in Outcomes \ {"open"} : Answer(id, result)
           \/ UNCHANGED <<requestVars, tableVars, writerVars, tasks>>
           \/ Cancel(id, "protocolError", tasks)
    BY <1>10, RouteCases
  <2> QED
    BY <2>1, <1>1, <1>2 DEF Answer, requestVars, writerVars
<1>11. CASE RouteUnknown \/ EndChunk \/ DrainEvent
  BY <1>11, <1>1 DEF RouteUnknown, EndChunk, DrainEvent, requestVars, writerVars, eventVars
<1>12. CASE RouteUnattributed \/ BadFrame \/ SocketError \/ SocketClose
  BY <1>12, <1>3 DEF RouteUnattributed, BadFrame, SocketError, SocketClose
<1>13. ASSUME NEW id \in Issued, ResumePermitted(id) \/ ResumeQueued(id)
       PROVE  dead => dead'
  BY <1>13 DEF ResumePermitted, ResumeQueued
<1>14. ASSUME NEW buffered \in BOOLEAN, WriterWrites(buffered)
       PROVE  ~dead
  BY <1>14 DEF WriterWrites
<1>15. CASE Microtask
  BY <1>15, <1>6, <1>7, <1>8, <1>9, <1>13, <1>14 DEF Microtask
<1> QED
  BY <1>5, <1>10, <1>11, <1>12, <1>15 DEF Next, LocalEvent

\* No wake-up of the writer is lost.
LEMMA AsleepUserCall ==
  ASSUME TypeOK, WriterAsleepIdle, UserCall
  PROVE  WriterAsleepIdle'
<1>1. ASSUME NEW id, NEW result, NEW queue, Cancel(id, result, queue), UNCHANGED dead
      PROVE  WriterAsleepIdle'
  BY <1>1 DEF Cancel, SendCancel, Signal, WriterAsleepIdle
<1>2. ASSUME NEW k \in UserKinds,
             Unary(k) \/ UnaryPreAborted(k) \/ Stream(k) \/ StreamPreAborted(k)
      PROVE  WriterAsleepIdle'
  BY <1>2 DEF Unary, UnaryPreAborted, Stream, StreamPreAborted, Open, Register, Signal,
              eventVars, WriterAsleepIdle
<1>3. ASSUME NEW id \in Issued, NEW result, AbortUnary(id) \/ StopStream(id, result)
      PROVE  WriterAsleepIdle'
  BY <1>1, <1>3 DEF AbortUnary, StopStream, eventVars
<1>4. CASE Close \/ ConnectFails
  BY <1>4 DEF Close, ConnectFails, Destroy, FailConnection, WriterAsleepIdle
<1> QED
  BY <1>2, <1>3, <1>4 DEF UserCall

LEMMA AsleepMicrotask ==
  ASSUME TypeOK, WriterAsleepIdle, Microtask
  PROVE  WriterAsleepIdle'
<1>1. ASSUME NEW id \in Issued,
             \/ ResumeGone(id) \/ ResumeDead(id) \/ ResumeTooLarge(id)
             \/ ResumePermitted(id) \/ ResumeSlotDead(id)
      PROVE  WriterAsleepIdle'
  BY <1>1 DEF ResumeGone, ResumeDead, ResumeTooLarge, GiveUp, ResumePermitted, TakePermit,
              ResumeSlotDead, writerVars, eventVars, WriterAsleepIdle
<1>2. ASSUME NEW id \in Issued, ResumeQueued(id)
      PROVE  WriterAsleepIdle'
  BY <1>2 DEF ResumeQueued, Signal, WriterAsleepIdle
<1>3. ASSUME NEW id \in Issued, RunAbort(id)
      PROVE  WriterAsleepIdle'
  BY <1>3 DEF RunAbort, Cancel, SendCancel, Signal, writerVars, eventVars, WriterAsleepIdle
<1>4. CASE WriterExits
  BY <1>4 DEF WriterExits, WriterAsleepIdle
<1>5. CASE WriterIdles
  BY <1>5 DEF WriterIdles, eventVars, WriterAsleepIdle
<1>6. ASSUME NEW buffered \in BOOLEAN, WriterWrites(buffered)
      PROVE  WriterAsleepIdle'
  BY <1>6 DEF WriterWrites, Write, eventVars, WriterAsleepIdle
<1> QED
  BY <1>1, <1>2, <1>3, <1>4, <1>5, <1>6 DEF Microtask

LEMMA AsleepEvent ==
  ASSUME TypeOK, WriterAsleepIdle,
         \/ \E id \in pending, response \in Responses : Route(id, response)
         \/ RouteUnknown \/ RouteUnattributed \/ BadFrame \/ LocalEvent
  PROVE  WriterAsleepIdle'
<1>1. ASSUME NEW id \in pending, NEW response \in Responses, Route(id, response)
      PROVE  WriterAsleepIdle'
  <2>1. /\ UNCHANGED dead
        /\ \/ \E result \in Outcomes \ {"open"} : Answer(id, result)
           \/ UNCHANGED <<requestVars, tableVars, writerVars, tasks>>
           \/ Cancel(id, "protocolError", tasks)
    BY <1>1, RouteCases
  <2> QED
    BY <2>1 DEF Answer, Cancel, SendCancel, Signal, writerVars, WriterAsleepIdle
<1>2. CASE RouteUnknown \/ EndChunk \/ DrainEvent
  BY <1>2 DEF RouteUnknown, EndChunk, DrainEvent, writerVars, eventVars, WriterAsleepIdle
<1>3. CASE RouteUnattributed \/ BadFrame \/ SocketError \/ SocketClose
  BY <1>3 DEF RouteUnattributed, BadFrame, SocketError, SocketClose, FailConnection,
              WriterAsleepIdle
<1> QED
  BY <1>1, <1>2, <1>3 DEF LocalEvent

\* The writer sleeps only when there is nothing to write, and never on a dead
\* connection: every enqueue and the death signal the gate, and going to sleep
\* consumes a signal that came while it was awake.
THEOREM AsleepOnlyIdle == Spec => []WriterAsleepIdle
<1>1. Init => TypeOK /\ WriterAsleepIdle
  BY InitType DEF Init, WriterAsleepIdle
<1>2. TypeOK /\ WriterAsleepIdle /\ [Next]_vars => TypeOK' /\ WriterAsleepIdle'
  <2> SUFFICES ASSUME TypeOK, WriterAsleepIdle, [Next]_vars
               PROVE  TypeOK' /\ WriterAsleepIdle'
    OBVIOUS
  <2>1. TypeOK'
    BY StepType
  <2>2. CASE Next
    BY <2>1, <2>2, AsleepUserCall, AsleepMicrotask, AsleepEvent DEF Next
  <2>3. CASE UNCHANGED vars
    BY <2>1, <2>3 DEF vars, writerVars, eventVars, WriterAsleepIdle
  <2> QED
    BY <2>2, <2>3
<1> QED
  BY <1>1, <1>2, PTL DEF Spec

\* The re-check after the await of the in-flight permit works: a coroutine whose
\* request is gone by then goes no further.
THEOREM GoneStaysUnsent == Spec => GoneIsNotSent
<1> DEFINE Gone == \A id \in Issued : pc[id] = "inflight" /\ outcome[id] # "open"
                                        => pc'[id] \in {"inflight", "dropped"}
<1>1. Init => TableInv
  BY InitTable
<1>2. TableInv /\ [Next]_vars => TableInv'
  BY StepTable
<1>3. TableInv /\ [Next]_vars => [Gone]_vars
  <2>1. ASSUME TableInv, Next
        PROVE  Gone
    BY <2>1, Progress DEF TableInv, PendingIsOpen
  <2> QED
    BY <2>1
<1> QED
  BY <1>1, <1>2, <1>3, PTL DEF Spec, GoneIsNotSent

\* Death silences the writer, whatever it was doing.
THEOREM DeathSilences == Spec => SilentWhenDead
<1>1. Init => TypeOK
  BY InitType
<1>2. TypeOK /\ [Next]_vars => TypeOK'
  BY StepType
<1>3. TypeOK /\ [Next]_vars => [dead => wire' = wire]_vars
  <2>1. ASSUME TypeOK, Next, dead
        PROVE  wire' = wire
    <3>1. ASSUME NEW id \in Issued, ResumePermitted(id) \/ ResumeQueued(id)
          PROVE  ~dead
      BY <3>1 DEF ResumePermitted, ResumeQueued
    <3> QED
      BY <2>1, <3>1, QueueEffect
  <2> QED
    BY <2>1
<1> QED
  BY <1>1, <1>2, <1>3, PTL DEF Spec, SilentWhenDead

-----------------------------------------------------------------------------
(* The budget: facts about the semaphore and the microtask queue.          *)

Members(seq) == {seq[i] : i \in 1 .. Len(seq)}
Distinct(seq) == \A i, j \in 1 .. Len(seq) : seq[i] = seq[j] => i = j

\* Taking a permit, or queueing for one.
LEMMA AcquireEffect ==
  ASSUME NEW s \in SemaphoreState, NEW who \in Nat, who \notin Waiting(s), Distinct(s.waiters)
  PROVE  /\ Distinct(Acquire(s, who).waiters)
         /\ \/ /\ Members(Granted(s, who)) = {who}
               /\ Acquire(s, who).permits = s.permits - 1
               /\ Waiting(Acquire(s, who)) = Waiting(s)
            \/ /\ Members(Granted(s, who)) = {}
               /\ Acquire(s, who).permits = s.permits
               /\ Waiting(Acquire(s, who)) = Waiting(s) \cup {who}
<1>1. s.permits \in Nat /\ s.waiters \in Seq(Nat)
  BY DEF SemaphoreState
<1>2. CASE s.permits > 0
  <2>1. /\ Acquire(s, who).permits = s.permits - 1
        /\ Acquire(s, who).waiters = s.waiters
        /\ Granted(s, who) = <<who>>
    BY <1>1, <1>2 DEF Acquire, Granted, SemaphoreState
  <2> QED
    BY <2>1 DEF Waiting, Members
<1>3. CASE ~(s.permits > 0)
  <2>1. /\ Acquire(s, who).permits = s.permits
        /\ Acquire(s, who).waiters = Append(s.waiters, who)
        /\ Granted(s, who) = <<>>
    BY <1>1, <1>3 DEF Acquire, Granted, SemaphoreState
  <2> DEFINE longer == Append(s.waiters, who)
  <2>2. /\ Len(s.waiters) \in Nat /\ Len(longer) = Len(s.waiters) + 1
        /\ longer[Len(s.waiters) + 1] = who
        /\ \A i \in 1 .. Len(s.waiters) : longer[i] = s.waiters[i]
    BY <1>1, AppendProperties, LenProperties
  <2>3. Members(Granted(s, who)) = {}
    BY <2>1 DEF Members
  <2> HIDE DEF longer
  <2>4. Members(longer) = Waiting(s) \cup {who}
    BY <2>2 DEF Waiting, Members
  <2>5. Distinct(longer)
    BY <2>2, SMTT(30) DEF Distinct, Waiting
  <2> QED
    BY <2>1, <2>3, <2>4, <2>5 DEF longer, Members, Waiting
<1> QED
  BY <1>2, <1>3

\* Returning a permit, to nobody or to the first waiter.
LEMMA ReleaseEffect ==
  ASSUME NEW s \in SemaphoreState, Distinct(s.waiters)
  PROVE  /\ Distinct(Release(s).waiters)
         /\ Waiting(Release(s)) = Waiting(s) \ Members(Woken(s))
         /\ Members(Woken(s)) \subseteq Waiting(s)
         /\ \/ Members(Woken(s)) = {} /\ Release(s).permits = s.permits + 1
            \/ /\ \E w \in Waiting(s) : Members(Woken(s)) = {w}
               /\ Release(s).permits = s.permits
<1>1. s.permits \in Nat /\ s.waiters \in Seq(Nat) /\ Len(s.waiters) \in Nat
  BY LenProperties DEF SemaphoreState
<1>2. CASE s.waiters = <<>>
  <2>1. Release(s).permits = s.permits + 1 /\ Release(s).waiters = <<>> /\ Woken(s) = <<>>
    BY <1>1, <1>2 DEF Release, Woken, SemaphoreState
  <2> QED
    BY <1>2, <2>1 DEF Waiting, Members, Distinct
<1>3. CASE s.waiters # <<>>
  <2> DEFINE rest == Tail(s.waiters)
  <2>1. /\ Release(s).permits = s.permits /\ Release(s).waiters = rest
        /\ Woken(s) = <<Head(s.waiters)>>
    BY <1>1, <1>3 DEF Release, Woken, SemaphoreState
  <2>2. /\ Len(rest) = Len(s.waiters) - 1 /\ Len(s.waiters) > 0
        /\ \A i \in 1 .. Len(rest) : rest[i] = s.waiters[i + 1]
        /\ Head(s.waiters) = s.waiters[1]
    BY <1>1, <1>3, HeadTailProperties, EmptySeq
  <2> HIDE DEF rest
  <2>3. Members(Woken(s)) = {s.waiters[1]}
    BY <2>1, <2>2 DEF Members
  <2>4. Distinct(rest)
    <3>1. ASSUME NEW i \in 1 .. Len(rest), NEW j \in 1 .. Len(rest), rest[i] = rest[j]
          PROVE  i = j
      <4>1. i + 1 \in 1 .. Len(s.waiters) /\ j + 1 \in 1 .. Len(s.waiters)
        BY <1>1, <2>2
      <4>2. s.waiters[i + 1] = s.waiters[j + 1]
        BY <2>2, <3>1
      <4>3. i + 1 = j + 1
        BY <4>1, <4>2 DEF Distinct
      <4> QED
        BY <4>3
    <3> QED
      BY <3>1 DEF Distinct
  <2>5. Members(rest) = Waiting(s) \ {s.waiters[1]}
    <3>1. ASSUME NEW i \in 1 .. Len(rest)
          PROVE  rest[i] \in Waiting(s) \ {s.waiters[1]}
      <4>1. /\ i + 1 \in 1 .. Len(s.waiters) /\ 1 \in 1 .. Len(s.waiters)
            /\ i + 1 # 1 /\ rest[i] = s.waiters[i + 1]
        BY <1>1, <2>2
      <4>2. s.waiters[i + 1] # s.waiters[1]
        BY <4>1 DEF Distinct
      <4> QED
        BY <4>1, <4>2 DEF Waiting
    <3>2. ASSUME NEW i \in 1 .. Len(s.waiters), s.waiters[i] # s.waiters[1]
          PROVE  s.waiters[i] \in Members(rest)
      <4>1. i - 1 \in 1 .. Len(rest) /\ rest[i - 1] = s.waiters[i]
        BY <1>1, <2>2, <3>2
      <4> QED
        BY <4>1 DEF Members
    <3> QED
      BY <3>1, <3>2 DEF Members, Waiting
  <2>6. s.waiters[1] \in Waiting(s)
    BY <1>1, <2>2 DEF Waiting
  <2>7. Waiting(Release(s)) = Members(rest)
    BY <2>1 DEF Waiting, Members
  <2>8. Distinct(Release(s).waiters)
    BY <2>1, <2>4
  <2> QED
    BY <2>1, <2>3, <2>5, <2>6, <2>7, <2>8
<1> QED
  BY <1>2, <1>3

\* The send coroutines a list of microtasks resumes.
LEMMA SendersEffect ==
  /\ Senders(<<>>) = {}
  /\ Senders(<<WriterTask>>) = {}
  /\ Senders(SignalWakes) = {}
  /\ \A id \in Nat : Senders(<<AbortTask(id)>>) = {}
  /\ \A ids \in Seq(Nat) : Senders(SendTasks(ids)) = Members(ids)
  /\ \A p, q \in Seq(Task) : Senders(p \o q) = Senders(p) \cup Senders(q)
  /\ \A q \in Seq(Task) : q # <<>> => Senders(Tail(q)) \subseteq Senders(q)
<1>1. Senders(<<>>) = {} /\ Senders(<<WriterTask>>) = {}
  BY DEF Senders, WriterTask
<1>2. Senders(SignalWakes) = {}
  BY <1>1 DEF SignalWakes
<1>3. \A id \in Nat : Senders(<<AbortTask(id)>>) = {}
  BY DEF Senders, AbortTask
<1>4. ASSUME NEW ids \in Seq(Nat)
      PROVE  Senders(SendTasks(ids)) = Members(ids)
  <2>1. Len(SendTasks(ids)) = Len(ids)
    BY DEF SendTasks
  <2>2. \A i \in 1 .. Len(ids) : SendTasks(ids)[i].run = "send" /\ SendTasks(ids)[i].id = ids[i]
    BY DEF SendTasks, SendTask
  <2> QED
    BY <2>1, <2>2 DEF Senders, Members
<1>5. ASSUME NEW p \in Seq(Task), NEW q \in Seq(Task)
      PROVE  Senders(p \o q) = Senders(p) \cup Senders(q)
  <2>1. /\ Len(p) \in Nat /\ Len(q) \in Nat /\ Len(p \o q) = Len(p) + Len(q)
        /\ \A i \in 1 .. Len(p) + Len(q) :
             (p \o q)[i] = IF i <= Len(p) THEN p[i] ELSE q[i - Len(p)]
    BY ConcatProperties, LenProperties
  <2>2. Senders(p \o q) \subseteq Senders(p) \cup Senders(q)
    BY <2>1 DEF Senders
  <2>3. Senders(p) \subseteq Senders(p \o q)
    BY <2>1 DEF Senders
  <2>4. ASSUME NEW i \in 1 .. Len(q), q[i].run = "send"
        PROVE  q[i].id \in Senders(p \o q)
    <3>1. Len(p) + i \in 1 .. Len(p \o q) /\ (p \o q)[Len(p) + i] = q[i]
      BY <2>1
    <3> QED
      BY <2>4, <3>1 DEF Senders
  <2> QED
    BY <2>2, <2>3, <2>4 DEF Senders
<1>6. ASSUME NEW q \in Seq(Task), q # <<>>
      PROVE  Senders(Tail(q)) \subseteq Senders(q)
  <2>1. /\ Len(q) \in Nat /\ Len(Tail(q)) = Len(q) - 1
        /\ \A i \in 1 .. Len(Tail(q)) : Tail(q)[i] = q[i + 1]
    BY <1>6, HeadTailProperties, LenProperties
  <2> QED
    BY <2>1 DEF Senders
<1> QED
  BY <1>1, <1>2, <1>3, <1>4, <1>5, <1>6

LEMMA SendersConcat ==
  ASSUME NEW p \in Seq(Task), NEW q \in Seq(Task)
  PROVE  p \o q \in Seq(Task) /\ Senders(p \o q) = Senders(p) \cup Senders(q)
  BY SendersEffect, ConcatProperties

LEMMA SendersTail ==
  ASSUME NEW q \in Seq(Task), q # <<>>
  PROVE  Senders(Tail(q)) \subseteq Senders(q)
  BY SendersEffect

\* What the operations of the slot semaphore do to who waits for it.
LEMMA SlotEffect ==
  ASSUME NEW s \in SemaphoreState, NEW who \in Nat, NEW n \in Nat
  PROVE  /\ Waiting(Acquire(s, who)) \subseteq Waiting(s) \cup {who}
         /\ Members(Granted(s, who)) \subseteq {who}
         /\ Waiting(Release(s)) \subseteq Waiting(s)
         /\ Members(Woken(s)) \subseteq Waiting(s)
         /\ Waiting(ReleaseN(s, n)) \subseteq Waiting(s)
         /\ Members(WokenN(s, n)) \subseteq Waiting(s)
         /\ Waiting(DrainWaiters(s)) = {}
         /\ Members(Drained(s)) = Waiting(s)
<1>1. s.permits \in Nat /\ s.waiters \in Seq(Nat) /\ Len(s.waiters) \in Nat
  BY LenProperties DEF SemaphoreState
<1>2. /\ Waiting(Acquire(s, who)) \subseteq Waiting(s) \cup {who}
      /\ Members(Granted(s, who)) \subseteq {who}
  <2>1. CASE s.permits > 0
    <3>1. Acquire(s, who).waiters = s.waiters /\ Granted(s, who) = <<who>>
      BY <1>1, <2>1 DEF Acquire, Granted, SemaphoreState
    <3> QED
      BY <3>1 DEF Waiting, Members
  <2>2. CASE ~(s.permits > 0)
    <3>1. Acquire(s, who).waiters = Append(s.waiters, who) /\ Granted(s, who) = <<>>
      BY <1>1, <2>2 DEF Acquire, Granted, SemaphoreState
    <3>2. /\ Len(Append(s.waiters, who)) = Len(s.waiters) + 1
          /\ \A i \in 1 .. Len(s.waiters) + 1 : Append(s.waiters, who)[i] \in Waiting(s) \cup {who}
      BY <1>1, AppendProperties DEF Waiting
    <3>3. Members(Granted(s, who)) = {}
      BY <3>1 DEF Members
    <3> QED
      BY <3>1, <3>2, <3>3 DEF Waiting
  <2> QED
    BY <2>1, <2>2
<1>3. /\ Waiting(Release(s)) \subseteq Waiting(s)
      /\ Members(Woken(s)) \subseteq Waiting(s)
  <2>1. CASE s.waiters = <<>>
    <3>1. Release(s).waiters = <<>> /\ Woken(s) = <<>>
      BY <1>1, <2>1 DEF Release, Woken, SemaphoreState
    <3> QED
      BY <3>1 DEF Waiting, Members
  <2>2. CASE s.waiters # <<>>
    <3>1. Release(s).waiters = Tail(s.waiters) /\ Woken(s) = <<Head(s.waiters)>>
      BY <1>1, <2>2 DEF Release, Woken, SemaphoreState
    <3>2. /\ Len(Tail(s.waiters)) = Len(s.waiters) - 1 /\ Len(s.waiters) > 0
          /\ \A i \in 1 .. Len(Tail(s.waiters)) : Tail(s.waiters)[i] = s.waiters[i + 1]
          /\ Head(s.waiters) = s.waiters[1]
      BY <1>1, <2>2, HeadTailProperties, EmptySeq
    <3>3. Members(Woken(s)) = {s.waiters[1]} /\ s.waiters[1] \in Waiting(s)
      BY <1>1, <3>1, <3>2 DEF Members, Waiting
    <3>4. Waiting(Release(s)) \subseteq Waiting(s)
      BY <1>1, <3>1, <3>2 DEF Waiting
    <3> QED
      BY <3>3, <3>4
  <2> QED
    BY <2>1, <2>2
<1>4. /\ Waiting(ReleaseN(s, n)) \subseteq Waiting(s)
      /\ Members(WokenN(s, n)) \subseteq Waiting(s)
  <2> DEFINE k == HandedOver(s, n)
  <2>1. k \in Nat /\ k <= Len(s.waiters)
    BY <1>1 DEF HandedOver
  <2>2. /\ ReleaseN(s, n).waiters = SubSeq(s.waiters, k + 1, Len(s.waiters))
        /\ WokenN(s, n) = SubSeq(s.waiters, 1, k)
    BY DEF ReleaseN, WokenN
  <2> HIDE DEF k
  <2>3. \A i \in 1 .. Len(s.waiters) : s.waiters[i] \in Waiting(s)
    BY DEF Waiting
  <2>4. /\ SubSeq(s.waiters, k + 1, Len(s.waiters)) \in Seq(Waiting(s))
        /\ SubSeq(s.waiters, 1, k) \in Seq(Waiting(s))
    BY <1>1, <2>1, <2>3, SubSeqProperties
  <2>5. \A q \in Seq(Waiting(s)) : Members(q) \subseteq Waiting(s)
    BY ElementOfSeq DEF Members
  <2> QED
    BY <2>2, <2>4, <2>5 DEF Waiting, Members
<1>5. Waiting(DrainWaiters(s)) = {} /\ Members(Drained(s)) = Waiting(s)
  <2>1. DrainWaiters(s).waiters = <<>>
    BY <1>1 DEF DrainWaiters, SemaphoreState
  <2> QED
    BY <2>1 DEF Drained, Waiting, Members
<1> QED
  BY <1>2, <1>3, <1>4, <1>5

-----------------------------------------------------------------------------
(* Counting permits.                                                       *)

LEMMA HoldingFinite ==
  ASSUME TypeOK
  PROVE  IsFiniteSet(Holding) /\ Holding \subseteq Issued
<1>1. IsFiniteSet(1 .. idCounter)
  BY FS_Interval DEF TypeOK
<1>2. IsFiniteSet(Issued)
  BY <1>1, FS_Subset DEF TypeOK
<1>3. Holding \subseteq Issued
  BY DEF Holding, Granting, TypeOK
<1> QED
  BY <1>2, <1>3, FS_Subset

\* A holder gives its permit back: it is free again, or somebody else holds it.
LEMMA ReleaseCount ==
  ASSUME NEW s \in SemaphoreState, Distinct(s.waiters),
         NEW H, IsFiniteSet(H), NEW h \in H, H \cap Waiting(s) = {}
  PROVE  Release(s).permits + Cardinality((H \ {h}) \cup Members(Woken(s)))
           = s.permits + Cardinality(H)
<1>1. /\ IsFiniteSet(H \ {h}) /\ Cardinality(H \ {h}) = Cardinality(H) - 1
      /\ Cardinality(H) \in Nat
  BY FS_RemoveElement, FS_CardinalityType
<1>2. s.permits \in Nat
  BY DEF SemaphoreState
<1>3. CASE Members(Woken(s)) = {} /\ Release(s).permits = s.permits + 1
  <2>1. (H \ {h}) \cup Members(Woken(s)) = H \ {h}
    BY <1>3
  <2> QED
    BY <1>1, <1>2, <1>3, <2>1
<1>4. ASSUME NEW w \in Waiting(s), Members(Woken(s)) = {w}, Release(s).permits = s.permits
      PROVE  Release(s).permits + Cardinality((H \ {h}) \cup Members(Woken(s)))
               = s.permits + Cardinality(H)
  <2>1. w \notin H \ {h}
    BY <1>4
  <2>2. Cardinality((H \ {h}) \cup {w}) = Cardinality(H \ {h}) + 1
    BY <1>1, <2>1, FS_AddElement
  <2> QED
    BY <1>1, <1>2, <1>4, <2>2
<1> QED
  BY <1>3, <1>4, ReleaseEffect

\* A newcomer takes a permit, or queues and holds none.
LEMMA AcquireCount ==
  ASSUME NEW s \in SemaphoreState, Distinct(s.waiters), NEW who \in Nat, who \notin Waiting(s),
         NEW H, IsFiniteSet(H), who \notin H
  PROVE  Acquire(s, who).permits + Cardinality(H \cup Members(Granted(s, who)))
           = s.permits + Cardinality(H)
<1>1. Cardinality(H \cup {who}) = Cardinality(H) + 1 /\ Cardinality(H) \in Nat
  BY FS_AddElement, FS_CardinalityType
<1>2. s.permits \in Nat
  BY DEF SemaphoreState
<1>3. CASE Members(Granted(s, who)) = {who} /\ Acquire(s, who).permits = s.permits - 1
  BY <1>1, <1>2, <1>3
<1>4. CASE Members(Granted(s, who)) = {} /\ Acquire(s, who).permits = s.permits
  <2>1. H \cup Members(Granted(s, who)) = H
    BY <1>4
  <2> QED
    BY <1>4, <2>1
<1> QED
  BY <1>3, <1>4, AcquireEffect

-----------------------------------------------------------------------------
(* Steps.  Every lemma assumes the invariant and proves its two parts that *)
(* are not about types.                                                    *)

\* InflightBudget is not inductive: that a released permit finds a coroutine that
\* holds none, and an answered request one permit to release, is PermitOwners.
BudgetInv == TypeOK /\ PermitOwners /\ InflightBudget

\* What PermitOwners says, in the terms of the lemmas above.
LEMMA OwnersFacts ==
  ASSUME BudgetInv
  PROVE  /\ Distinct(inflight.waiters)
         /\ inflight \in SemaphoreState /\ queueSlots \in SemaphoreState
         /\ Waiting(inflight) \subseteq {id \in Issued : pc[id] = "inflight"}
         /\ Waiting(queueSlots) \subseteq {id \in Issued : pc[id] # "inflight"}
         /\ Senders(tasks) \subseteq Issued \ Waiting(inflight)
         /\ permitted \subseteq {id \in pending : pc[id] \in {"slot", "queued"}}
         /\ permitted \subseteq Issued
         /\ IsFiniteSet(Holding) /\ Cardinality(Holding) \in Nat
         /\ Holding \cap Waiting(inflight) = {}
         /\ Waiting(inflight) \cap Waiting(queueSlots) = {}
<1>1. IsFiniteSet(Holding) /\ Cardinality(Holding) \in Nat
  BY HoldingFinite, FS_CardinalityType DEF BudgetInv
<1>2. /\ Waiting(inflight) \subseteq {id \in Issued : pc[id] = "inflight"}
      /\ Waiting(queueSlots) \subseteq {id \in Issued : pc[id] # "inflight"}
      /\ permitted \subseteq {id \in pending : pc[id] \in {"slot", "queued"}}
  BY DEF BudgetInv, PermitOwners
<1>3. Holding \cap Waiting(inflight) = {}
  BY <1>2 DEF Holding, Granting
<1> QED
  BY <1>1, <1>2, <1>3 DEF BudgetInv, PermitOwners, TypeOK, Distinct

\* A step that touches neither permits nor who holds or awaits them.
LEMMA OtherStep ==
  ASSUME BudgetInv,
         UNCHANGED <<pc, pending, permitted, inflight, dead>>,
         Waiting(queueSlots') \subseteq Waiting(queueSlots),
         Senders(tasks') \subseteq Senders(tasks) \cup Waiting(queueSlots)
  PROVE  PermitOwners' /\ InflightBudget'
<1>1. Issued' = Issued /\ Holding' = Holding
  BY DEF Issued, Holding, Granting
<1>2. InflightBudget'
  BY <1>1 DEF InflightBudget, BudgetInv
<1>3. PermitOwners'
  BY <1>1, OwnersFacts DEF PermitOwners, BudgetInv
<1> QED
  BY <1>2, <1>3

\* An entry leaves the pending map, and with it the permit it held.
LEMMA FinalizeStep ==
  ASSUME BudgetInv, NEW id, Finalize(id),
         UNCHANGED <<pc, dead, queueSlots>>,
         Senders(tasks') \subseteq Senders(tasks) \cup Senders(FinalizeWakes(id))
  PROVE  PermitOwners' /\ InflightBudget'
<1>1. Issued' = Issued
  BY DEF Issued
<1>2. CASE id \notin permitted
  <2>1. permitted' = permitted /\ inflight' = inflight /\ pending' = pending \ {id}
    BY <1>2 DEF Finalize
  <2>2. Senders(tasks') \subseteq Senders(tasks)
    BY <1>2, SendersEffect DEF FinalizeWakes
  <2>3. Holding' = Holding
    BY <1>1, <2>1 DEF Holding, Granting
  <2>4. InflightBudget'
    BY <2>1, <2>3 DEF InflightBudget, BudgetInv
  <2>5. PermitOwners'
    BY <1>1, <1>2, <2>1, <2>2, OwnersFacts DEF PermitOwners, BudgetInv
  <2> QED
    BY <2>4, <2>5
<1>3. CASE id \in permitted
  <2> DEFINE W == Members(Woken(inflight))
  <2>1. /\ permitted' = permitted \ {id} /\ pending' = pending \ {id}
        /\ inflight' = Release(inflight)
    BY <1>3 DEF Finalize
  <2>2. /\ Distinct(inflight'.waiters)
        /\ Waiting(inflight') = Waiting(inflight) \ W
        /\ W \subseteq Waiting(inflight)
    BY <2>1, OwnersFacts, ReleaseEffect
  <2>3. Senders(tasks') \subseteq Senders(tasks) \cup W
    <3>1. Woken(inflight) \in Seq(Nat)
      BY OwnersFacts, ReleaseType
    <3>2. Senders(FinalizeWakes(id)) = W
      BY <1>3, <3>1, SendersEffect DEF FinalizeWakes
    <3> QED
      BY <3>2
  <2>4. Holding' = (Holding \ {id}) \cup W
    BY <1>1, <1>3, <2>1, <2>2, OwnersFacts DEF Holding, Granting
  <2>5. inflight'.permits + Cardinality(Holding') = inflight.permits + Cardinality(Holding)
    <3>1. id \in Holding
      BY <1>3 DEF Holding
    <3> QED
      BY <2>1, <2>4, <3>1, OwnersFacts, ReleaseCount
  <2>6. InflightBudget'
    BY <2>5 DEF InflightBudget, BudgetInv
  <2>7. PermitOwners'
    BY <1>1, <2>1, <2>2, <2>3, OwnersFacts DEF PermitOwners, BudgetInv, Distinct
  <2> QED
    BY <2>6, <2>7
<1> QED
  BY <1>2, <1>3

\* Cancelling a request.
LEMMA CancelStep ==
  ASSUME BudgetInv, NEW id, NEW result, NEW queue \in Seq(Task), Cancel(id, result, queue),
         UNCHANGED dead, Senders(queue) \subseteq Senders(tasks)
  PROVE  PermitOwners' /\ InflightBudget'
<1>1. CASE id \in pending
  <2>1. Finalize(id) /\ UNCHANGED <<pc, queueSlots>>
        /\ tasks' = queue \o CancelWakes \o FinalizeWakes(id)
    BY <1>1 DEF Cancel
  <2>2. CancelWakes \in Seq(Task) /\ Senders(CancelWakes) = {}
    BY WriterTaskType, SendersEffect DEF CancelWakes
  <2>3. FinalizeWakes(id) \in Seq(Task)
    BY <2>1, FinalizeType DEF BudgetInv
  <2>4. queue \o CancelWakes \in Seq(Task) /\ Senders(queue \o CancelWakes) = Senders(queue)
    <3>1. /\ queue \o CancelWakes \in Seq(Task)
          /\ Senders(queue \o CancelWakes) = Senders(queue) \cup Senders(CancelWakes)
      BY <2>2, SendersConcat
    <3> QED
      BY <2>2, <3>1
  <2>5. Senders(tasks') \subseteq Senders(tasks) \cup Senders(FinalizeWakes(id))
    <3>1. Senders((queue \o CancelWakes) \o FinalizeWakes(id))
            = Senders(queue) \cup Senders(FinalizeWakes(id))
      BY <2>3, <2>4, SendersConcat
    <3> QED
      BY <2>1, <3>1
  <2> QED
    BY <2>1, <2>5, FinalizeStep
<1>2. CASE id \notin pending
  BY <1>2, OtherStep DEF Cancel, tableVars
<1> QED
  BY <1>1, <1>2

\* An answer.
LEMMA AnswerStep ==
  ASSUME BudgetInv, NEW id, NEW result, Answer(id, result), UNCHANGED dead
  PROVE  PermitOwners' /\ InflightBudget'
<1>1. Finalize(id) /\ UNCHANGED <<pc, queueSlots>> /\ tasks' = tasks \o FinalizeWakes(id)
  BY DEF Answer, writerVars
<1>2. tasks \in Seq(Task) /\ FinalizeWakes(id) \in Seq(Task)
  BY <1>1, FinalizeType DEF BudgetInv, TypeOK
<1>3. Senders(tasks') \subseteq Senders(tasks) \cup Senders(FinalizeWakes(id))
  BY <1>1, <1>2, SendersEffect
<1> QED
  BY <1>1, <1>3, FinalizeStep

\* The death of the connection: nobody gains a permit, and none comes back.
LEMMA FailConnectionStep ==
  ASSUME BudgetInv, NEW roused, FailConnection(roused)
  PROVE  PermitOwners' /\ InflightBudget'
<1>1. /\ UNCHANGED <<pc, inflight>> /\ dead' = TRUE /\ Issued' = Issued
      /\ pending' = pending \ Failed /\ permitted' = permitted \ Failed
  BY DEF FailConnection, Issued
<1>2. permitted' = {}
  BY <1>1, OwnersFacts DEF Failed, BudgetInv, PermitOwners
<1>3. InflightBudget'
  <2>1. Holding' \subseteq Holding
    BY <1>1 DEF Holding, Granting
  <2>2. Cardinality(Holding') <= Cardinality(Holding) /\ Cardinality(Holding') \in Nat
    BY <2>1, OwnersFacts, FS_Subset, FS_CardinalityType
  <2>3. inflight.permits \in Nat /\ MaxInflightRequests \in Nat
    BY ConfigAssumption DEF BudgetInv, TypeOK, SemaphoreState
  <2> QED
    BY <1>1, <2>2, <2>3, OwnersFacts DEF InflightBudget, BudgetInv
<1>4. Waiting(queueSlots') \subseteq Waiting(queueSlots)
  BY OwnersFacts, SlotEffect, ConfigAssumption DEF FailConnection
<1>5. Senders(tasks') \subseteq Senders(tasks) \cup Waiting(queueSlots)
  <2> DEFINE slots == SendTasks(Drained(queueSlots))
             told == IF dead THEN <<>> ELSE SignalWakes \o slots
             ended == IF writer \in roused THEN <<WriterTask>> ELSE <<>>
  <2>1. slots \in Seq(Task) /\ Senders(slots) = Waiting(queueSlots)
    <3>1. Drained(queueSlots) \in Seq(Nat)
      BY OwnersFacts, DrainType
    <3>2. Members(Drained(queueSlots)) = Waiting(queueSlots)
      BY OwnersFacts, SlotEffect, ConfigAssumption
    <3> QED
      BY <3>1, <3>2, TasksType, SendersEffect
  <2>2. SignalWakes \o slots \in Seq(Task) /\ Senders(SignalWakes \o slots) = Waiting(queueSlots)
    <3>1. SignalWakes \in Seq(Task) /\ Senders(SignalWakes) = {}
      BY WriterTaskType, SendersEffect
    <3> HIDE DEF slots
    <3>2. /\ SignalWakes \o slots \in Seq(Task)
          /\ Senders(SignalWakes \o slots) = Senders(SignalWakes) \cup Senders(slots)
      BY <2>1, <3>1, SendersConcat
    <3> QED
      BY <2>1, <3>1, <3>2
  <2>3. <<>> \in Seq(Task) /\ <<WriterTask>> \in Seq(Task)
    BY WriterTaskType
  <2>4. told \in Seq(Task) /\ Senders(told) \subseteq Waiting(queueSlots)
    BY <2>2, <2>3, SendersEffect
  <2>5. ended \in Seq(Task) /\ Senders(ended) = {}
    BY <2>3, SendersEffect
  <2>6. tasks \in Seq(Task) /\ tasks' = tasks \o told \o ended
    BY DEF FailConnection, BudgetInv, TypeOK
  <2> HIDE DEF told, ended
  <2>7. tasks \o told \in Seq(Task) /\ Senders(tasks \o told) = Senders(tasks) \cup Senders(told)
    BY <2>4, <2>6, SendersConcat
  <2>8. Senders((tasks \o told) \o ended) = Senders(tasks \o told) \cup Senders(ended)
    BY <2>5, <2>7, SendersConcat
  <2> QED
    BY <2>4, <2>5, <2>6, <2>7, <2>8
<1> QED
  BY <1>1, <1>2, <1>3, <1>4, <1>5, OwnersFacts DEF PermitOwners, BudgetInv, Distinct

\* Registering a request: the newcomer is nowhere yet.
LEMMA RegisterStep ==
  ASSUME BudgetInv, NEW k, NEW result, Register(idCounter + 1, k, result),
         UNCHANGED permitted, pending \subseteq pending',
         Senders(tasks') \subseteq Senders(tasks) \cup Senders(RegisterWakes(idCounter + 1))
  PROVE  PermitOwners' /\ InflightBudget'
<1> DEFINE id == idCounter + 1
           G == Members(Granted(inflight, id))
<1>1. id \in Nat /\ id \notin Issued
  BY DEF BudgetInv, TypeOK
<1>2. /\ UNCHANGED <<queueSlots, dead>> /\ inflight' = Acquire(inflight, id)
      /\ Issued' = Issued \cup {id} /\ pc'[id] = "inflight"
      /\ \A i \in Issued : pc'[i] = pc[i]
  BY <1>1 DEF Register, With, Issued, eventVars
<1>3. id \notin Waiting(inflight) /\ id \notin Holding /\ id \notin Senders(tasks)
  BY <1>1, OwnersFacts, HoldingFinite DEF BudgetInv
<1> HIDE DEF id
<1>4. /\ Distinct(inflight'.waiters)
      /\ \/ G = {id} /\ Waiting(inflight') = Waiting(inflight)
         \/ G = {} /\ Waiting(inflight') = Waiting(inflight) \cup {id}
  BY <1>1, <1>2, <1>3, OwnersFacts, AcquireEffect
<1>5. Holding' = Holding \cup G
  BY <1>1, <1>2, <1>3, <1>4, OwnersFacts DEF Holding, Granting
<1>6. inflight'.permits + Cardinality(Holding') = inflight.permits + Cardinality(Holding)
  BY <1>1, <1>2, <1>3, <1>5, OwnersFacts, AcquireCount
<1>7. InflightBudget'
  BY <1>2, <1>6 DEF InflightBudget, BudgetInv
<1>8. Senders(tasks') \subseteq Senders(tasks) \cup G
  <2>1. Granted(inflight, id) \in Seq(Nat)
    BY <1>1, OwnersFacts, AcquireType
  <2>2. Senders(RegisterWakes(id)) = G
    BY <2>1, SendersEffect DEF RegisterWakes
  <2> QED
    BY <2>2 DEF id
<1>9. PermitOwners'
  <2>1. Waiting(inflight') \subseteq {i \in Issued' : pc'[i] = "inflight"}
    BY <1>2, <1>4, OwnersFacts
  <2>2. Waiting(queueSlots') \subseteq {i \in Issued' : pc'[i] # "inflight"}
    BY <1>2, OwnersFacts
  <2>3. Senders(tasks') \subseteq Issued' \ Waiting(inflight')
    BY <1>1, <1>2, <1>3, <1>4, <1>8, OwnersFacts
  <2>4. permitted' \subseteq {i \in pending' : pc'[i] \in {"slot", "queued"}}
    BY <1>2, OwnersFacts
  <2>5. dead' => permitted' = {}
    BY <1>2 DEF BudgetInv, PermitOwners
  <2> QED
    BY <1>4, <2>1, <2>2, <2>3, <2>4, <2>5 DEF PermitOwners, Distinct
<1> QED
  BY <1>7, <1>9

\* The coroutine at the head of the microtask queue.
LEMMA RunningFacts ==
  ASSUME BudgetInv, NEW run, NEW id, Running(run, id)
  PROVE  /\ Tail(tasks) \in Seq(Task) /\ Senders(Tail(tasks)) \subseteq Senders(tasks)
         /\ run = "send" => id \in Issued \ Waiting(inflight)
<1>1. tasks \in Seq(Task) /\ tasks # <<>> /\ Head(tasks) = [run |-> run, id |-> id]
  BY DEF Running, BudgetInv, TypeOK
<1>2. Tail(tasks) \in Seq(Task) /\ Senders(Tail(tasks)) \subseteq Senders(tasks)
  BY <1>1, HeadTailProperties, SendersTail
<1>3. ASSUME run = "send"
      PROVE  id \in Senders(tasks)
  <2>1. 1 \in 1 .. Len(tasks) /\ tasks[1] = [run |-> run, id |-> id]
    BY <1>1, EmptySeq
  <2> QED
    BY <1>3, <2>1 DEF Senders
<1> QED
  BY <1>2, <1>3, OwnersFacts

\* A coroutine resumes and gives its permit back.
LEMMA GiveUpStep ==
  ASSUME BudgetInv, NEW id \in Issued, NEW result, Running("send", id), pc[id] = "inflight",
         GiveUp(id, result)
  PROVE  PermitOwners' /\ InflightBudget'
<1> DEFINE W == Members(Woken(inflight))
<1>1. /\ UNCHANGED <<permitted, dead, queueSlots>> /\ pending' = pending \ {id}
      /\ inflight' = Release(inflight) /\ Issued' = Issued
      /\ pc'[id] = "dropped" /\ \A i \in Issued \ {id} : pc'[i] = pc[i]
  BY DEF GiveUp, Issued, writerVars, eventVars, BudgetInv, TypeOK
<1>2. id \notin Waiting(inflight) /\ id \notin permitted /\ id \in Holding
  BY RunningFacts, OwnersFacts DEF Holding, Granting
<1>3. /\ Distinct(inflight'.waiters)
      /\ Waiting(inflight') = Waiting(inflight) \ W
      /\ W \subseteq Waiting(inflight)
  BY <1>1, OwnersFacts, ReleaseEffect
<1>4. Holding' = (Holding \ {id}) \cup W
  BY <1>1, <1>2, <1>3, OwnersFacts DEF Holding, Granting
<1>5. inflight'.permits + Cardinality(Holding') = inflight.permits + Cardinality(Holding)
  BY <1>1, <1>2, <1>4, OwnersFacts, ReleaseCount
<1>6. InflightBudget'
  BY <1>1, <1>5 DEF InflightBudget, BudgetInv
<1>7. Senders(tasks') \subseteq Senders(tasks) \cup W
  <2>1. Woken(inflight) \in Seq(Nat) /\ tasks' = Tail(tasks) \o SendTasks(Woken(inflight))
    BY OwnersFacts, ReleaseType DEF GiveUp
  <2>2. SendTasks(Woken(inflight)) \in Seq(Task) /\ Senders(SendTasks(Woken(inflight))) = W
    BY <2>1, TasksType, SendersEffect
  <2>3. Tail(tasks) \in Seq(Task) /\ Senders(Tail(tasks)) \subseteq Senders(tasks)
    BY RunningFacts
  <2>4. Senders(tasks') = Senders(Tail(tasks)) \cup W
    BY <2>1, <2>2, <2>3, SendersConcat
  <2> QED
    BY <2>3, <2>4
<1>8. PermitOwners'
  <2>1. Waiting(inflight') \subseteq {i \in Issued' : pc'[i] = "inflight"}
    BY <1>1, <1>2, <1>3, OwnersFacts
  <2>2. Waiting(queueSlots') \subseteq {i \in Issued' : pc'[i] # "inflight"}
    BY <1>1, OwnersFacts
  <2>3. Senders(tasks') \subseteq Issued' \ Waiting(inflight')
    BY <1>1, <1>3, <1>7, OwnersFacts
  <2>4. permitted' \subseteq {i \in pending' : pc'[i] \in {"slot", "queued"}}
    BY <1>1, <1>2, OwnersFacts
  <2>5. dead' => permitted' = {}
    BY <1>1 DEF BudgetInv, PermitOwners
  <2> QED
    BY <1>3, <2>1, <2>2, <2>3, <2>4, <2>5 DEF PermitOwners, Distinct
<1> QED
  BY <1>6, <1>8

\* A coroutine resumes and hands its permit over to its entry.
LEMMA TakePermitStep ==
  ASSUME BudgetInv, NEW id \in Issued, ResumePermitted(id)
  PROVE  PermitOwners' /\ InflightBudget'
<1>0. /\ Running("send", id) /\ pc[id] = "inflight" /\ id \in pending /\ ~dead
      /\ TakePermit(id) /\ id \in Nat
  BY DEF ResumePermitted, BudgetInv, TypeOK
<1>1. /\ UNCHANGED <<pending, inflight, dead>> /\ Issued' = Issued
      /\ permitted' = permitted \cup {id} /\ queueSlots' = Acquire(queueSlots, id)
      /\ pc'[id] = "slot" /\ \A i \in Issued \ {id} : pc'[i] = pc[i]
  BY <1>0 DEF TakePermit, Issued, eventVars, BudgetInv, TypeOK
<1>2. id \notin Waiting(inflight)
  BY <1>0, RunningFacts
<1>3. Holding' = Holding
  BY <1>0, <1>1, <1>2, OwnersFacts DEF Holding, Granting
<1>4. InflightBudget'
  BY <1>1, <1>3 DEF InflightBudget, BudgetInv
<1>5. Senders(tasks') \subseteq Senders(tasks) \cup {id}
  <2>1. Granted(queueSlots, id) \in Seq(Nat) /\ Members(Granted(queueSlots, id)) \subseteq {id}
    BY <1>0, OwnersFacts, AcquireType, SlotEffect
  <2>2. /\ SendTasks(Granted(queueSlots, id)) \in Seq(Task)
        /\ Senders(SendTasks(Granted(queueSlots, id))) \subseteq {id}
    BY <2>1, TasksType, SendersEffect
  <2>3. Tail(tasks) \in Seq(Task) /\ Senders(Tail(tasks)) \subseteq Senders(tasks)
    BY <1>0, RunningFacts
  <2>4. Senders(tasks') = Senders(Tail(tasks)) \cup Senders(SendTasks(Granted(queueSlots, id)))
    BY <1>0, <2>2, <2>3, SendersConcat DEF TakePermit
  <2> QED
    BY <2>2, <2>3, <2>4
<1>6. Waiting(queueSlots') \subseteq Waiting(queueSlots) \cup {id}
  BY <1>0, <1>1, OwnersFacts, SlotEffect
<1>7. PermitOwners'
  <2>1. Waiting(inflight') \subseteq {i \in Issued' : pc'[i] = "inflight"}
    BY <1>1, <1>2, OwnersFacts
  <2>2. Waiting(queueSlots') \subseteq {i \in Issued' : pc'[i] # "inflight"}
    BY <1>1, <1>6, OwnersFacts
  <2>3. Senders(tasks') \subseteq Issued' \ Waiting(inflight')
    BY <1>1, <1>2, <1>5, OwnersFacts
  <2>4. permitted' \subseteq {i \in pending' : pc'[i] \in {"slot", "queued"}}
    BY <1>0, <1>1, OwnersFacts
  <2>5. dead' => permitted' = {}
    BY <1>0, <1>1
  <2> QED
    BY <1>1, <2>1, <2>2, <2>3, <2>4, <2>5, OwnersFacts DEF PermitOwners, Distinct
<1> QED
  BY <1>4, <1>7

\* A coroutine resumes with its slot: its frame is queued, or the slot goes back.
LEMMA SlotStep ==
  ASSUME BudgetInv, NEW id \in Issued, ResumeQueued(id) \/ ResumeSlotDead(id)
  PROVE  PermitOwners' /\ InflightBudget'
<1>1. /\ UNCHANGED <<pending, permitted, inflight, dead>> /\ Issued' = Issued
      /\ pc[id] = "slot" /\ pc'[id] \in {"queued", "dropped"}
      /\ dead => permitted = {}
      /\ ~dead => pc'[id] = "queued"
      /\ \A i \in Issued \ {id} : pc'[i] = pc[i]
      /\ Running("send", id)
  BY DEF ResumeQueued, ResumeSlotDead, Issued, tableVars, eventVars, BudgetInv, TypeOK, PermitOwners
<1>2. Holding' = Holding
  BY <1>1 DEF Holding, Granting
<1>3. InflightBudget'
  BY <1>1, <1>2 DEF InflightBudget, BudgetInv
<1>4. Tail(tasks) \in Seq(Task) /\ Senders(Tail(tasks)) \subseteq Senders(tasks)
  BY <1>1, RunningFacts
<1>5. /\ Waiting(queueSlots') \subseteq Waiting(queueSlots)
      /\ Senders(tasks') \subseteq Senders(tasks) \cup Waiting(queueSlots)
  <2>1. CASE ResumeQueued(id)
    <3>1. SignalWakes \in Seq(Task) /\ Senders(SignalWakes) = {}
      BY WriterTaskType, SendersEffect
    <3>2. Senders(Tail(tasks) \o SignalWakes) = Senders(Tail(tasks)) \cup Senders(SignalWakes)
      BY <1>4, <3>1, SendersConcat
    <3> QED
      BY <1>4, <2>1, <3>1, <3>2 DEF ResumeQueued
  <2>2. CASE ResumeSlotDead(id)
    <3>1. /\ Woken(queueSlots) \in Seq(Nat)
          /\ Members(Woken(queueSlots)) \subseteq Waiting(queueSlots)
          /\ Waiting(Release(queueSlots)) \subseteq Waiting(queueSlots)
      BY OwnersFacts, ReleaseType, SlotEffect, ConfigAssumption
    <3>2. /\ SendTasks(Woken(queueSlots)) \in Seq(Task)
          /\ Senders(SendTasks(Woken(queueSlots))) \subseteq Waiting(queueSlots)
      BY <3>1, TasksType, SendersEffect
    <3>3. Senders(Tail(tasks) \o SendTasks(Woken(queueSlots)))
            = Senders(Tail(tasks)) \cup Senders(SendTasks(Woken(queueSlots)))
      BY <1>4, <3>2, SendersConcat
    <3> QED
      BY <1>4, <2>2, <3>1, <3>2, <3>3 DEF ResumeSlotDead
  <2> QED
    BY <2>1, <2>2
<1>6. PermitOwners'
  <2>1. Waiting(inflight') \subseteq {i \in Issued' : pc'[i] = "inflight"}
    BY <1>1, OwnersFacts
  <2>2. Waiting(queueSlots') \subseteq {i \in Issued' : pc'[i] # "inflight"}
    BY <1>1, <1>5, OwnersFacts
  <2>3. Senders(tasks') \subseteq Issued' \ Waiting(inflight')
    BY <1>1, <1>5, OwnersFacts
  <2>4. permitted' \subseteq {i \in pending' : pc'[i] \in {"slot", "queued"}}
    BY <1>1, OwnersFacts
  <2>5. dead' => permitted' = {}
    BY <1>1
  <2> QED
    BY <1>1, <2>1, <2>2, <2>3, <2>4, <2>5, OwnersFacts DEF PermitOwners, Distinct
<1> QED
  BY <1>3, <1>6

\* The writer.
LEMMA WriterStep ==
  ASSUME BudgetInv, NEW buffered \in BOOLEAN,
         WriterExits \/ WriterIdles \/ WriterWrites(buffered)
  PROVE  PermitOwners' /\ InflightBudget'
<1>1. UNCHANGED <<pc, pending, permitted, inflight, dead>> /\ Running("writer", 0)
  BY DEF WriterExits, WriterIdles, WriterWrites, Write, requestVars, tableVars, eventVars
<1>2. Tail(tasks) \in Seq(Task) /\ Senders(Tail(tasks)) \subseteq Senders(tasks)
  BY <1>1, RunningFacts
<1>3. ASSUME NEW queue \in Seq(Task), GateWait(queue)
      PROVE  Senders(tasks') \subseteq Senders(queue)
  <2>1. Append(queue, WriterTask) = queue \o <<WriterTask>>
    BY <1>3, WriterTaskType
  <2>2. <<WriterTask>> \in Seq(Task) /\ Senders(<<WriterTask>>) = {}
    BY WriterTaskType, SendersEffect
  <2>3. Senders(queue \o <<WriterTask>>) = Senders(queue) \cup Senders(<<WriterTask>>)
    BY <2>2, SendersConcat
  <2> QED
    BY <1>3, <2>1, <2>2, <2>3 DEF GateWait
<1>4. CASE WriterExits \/ WriterIdles
  <2>1. Senders(tasks') \subseteq Senders(tasks) /\ queueSlots' = queueSlots
    BY <1>2, <1>3, <1>4 DEF WriterExits, WriterIdles
  <2> QED
    BY <1>1, <2>1, OtherStep
<1>5. CASE WriterWrites(buffered)
  <2> DEFINE n == Len(outbound)
             slots == SendTasks(WokenN(queueSlots, n))
  <2>1. n \in Nat /\ Write(n, buffered)
    BY <1>5 DEF WriterWrites, BudgetInv, TypeOK
  <2> HIDE DEF n
  <2>2. /\ WokenN(queueSlots, n) \in Seq(Nat)
        /\ Members(WokenN(queueSlots, n)) \subseteq Waiting(queueSlots)
        /\ Waiting(ReleaseN(queueSlots, n)) \subseteq Waiting(queueSlots)
    BY <2>1, OwnersFacts, ReleaseNType, SlotEffect
  <2>3. slots \in Seq(Task) /\ Senders(slots) \subseteq Waiting(queueSlots)
    BY <2>2, TasksType, SendersEffect
  <2>4. /\ Tail(tasks) \o slots \in Seq(Task)
        /\ Senders(Tail(tasks) \o slots) = Senders(Tail(tasks)) \cup Senders(slots)
    <3> HIDE DEF slots
    <3> QED
      BY <1>2, <2>3, SendersConcat
  <2>5. Senders(tasks') \subseteq Senders(Tail(tasks) \o slots)
    BY <1>3, <2>1, <2>4 DEF Write
  <2>6. Waiting(queueSlots') \subseteq Waiting(queueSlots)
    BY <2>1, <2>2 DEF Write
  <2>7. Senders(tasks') \subseteq Senders(tasks) \cup Waiting(queueSlots)
    BY <1>2, <2>3, <2>4, <2>5
  <2> QED
    BY <1>1, <2>6, <2>7, OtherStep
<1> QED
  BY <1>4, <1>5

LEMMA UserCallStep ==
  ASSUME BudgetInv, UserCall
  PROVE  PermitOwners' /\ InflightBudget'
<1>0. TypeOK /\ tasks \in Seq(Task)
  BY DEF BudgetInv, TypeOK
<1>1. ASSUME NEW k, NEW first \in Seq(Task), Senders(first) = {}, Open(k, first), k \in Kinds
      PROVE  PermitOwners' /\ InflightBudget'
  <2> DEFINE id == idCounter + 1
  <2>1. /\ Register(id, k, "open") /\ UNCHANGED permitted /\ pending \subseteq pending'
        /\ tasks' = tasks \o first \o RegisterWakes(id)
    BY <1>1 DEF Open
  <2>2. RegisterWakes(id) \in Seq(Task)
    BY <1>0, <1>1, <2>1, RegisterType DEF Outcomes
  <2>3. tasks \o first \in Seq(Task) /\ Senders(tasks \o first) = Senders(tasks) \cup Senders(first)
    BY <1>0, <1>1, SendersConcat
  <2> HIDE DEF id
  <2>4. Senders((tasks \o first) \o RegisterWakes(id))
          = Senders(tasks \o first) \cup Senders(RegisterWakes(id))
    BY <2>2, <2>3, SendersConcat
  <2>5. Senders(tasks') \subseteq Senders(tasks) \cup Senders(RegisterWakes(id))
    BY <1>1, <2>1, <2>3, <2>4
  <2> QED
    BY <2>1, <2>5, RegisterStep DEF id
<1>2. ASSUME NEW k \in UserKinds,
             Unary(k) \/ UnaryPreAborted(k) \/ Stream(k) \/ StreamPreAborted(k)
      PROVE  PermitOwners' /\ InflightBudget'
  <2>0. k \in Kinds
    BY ConfigAssumption DEF Kinds
  <2>1. CASE Unary(k) \/ Stream(k)
    <3>1. <<>> \in Seq(Task) /\ Senders(<<>>) = {} /\ Open(k, <<>>)
      BY <2>1, SendersEffect DEF Unary, Stream
    <3> QED
      BY <1>1, <2>0, <3>1
  <2>2. CASE StreamPreAborted(k)
    <3>1. AbortTask(idCounter + 1) \in Task /\ idCounter + 1 \in Nat
      BY <1>0 DEF AbortTask, Task, TypeOK
    <3>2. <<AbortTask(idCounter + 1)>> \in Seq(Task) /\ Senders(<<AbortTask(idCounter + 1)>>) = {}
      BY <3>1, SendersEffect
    <3>3. Open(k, <<AbortTask(idCounter + 1)>>)
      BY <2>2 DEF StreamPreAborted
    <3> QED
      BY <1>1, <2>0, <3>2, <3>3
  <2>3. CASE UnaryPreAborted(k)
    <3> DEFINE id == idCounter + 1
    <3>1. /\ Register(id, k, "aborted") /\ UNCHANGED <<pending, permitted>>
          /\ tasks' = tasks \o SignalWakes \o RegisterWakes(id)
      BY <2>3 DEF UnaryPreAborted
    <3>2. RegisterWakes(id) \in Seq(Task)
      BY <1>0, <2>0, <3>1, RegisterType DEF Outcomes
    <3>3. SignalWakes \in Seq(Task) /\ Senders(SignalWakes) = {}
      BY WriterTaskType, SendersEffect
    <3>4. /\ tasks \o SignalWakes \in Seq(Task)
          /\ Senders(tasks \o SignalWakes) = Senders(tasks) \cup Senders(SignalWakes)
      BY <1>0, <3>3, SendersConcat
    <3> HIDE DEF id
    <3>5. Senders((tasks \o SignalWakes) \o RegisterWakes(id))
            = Senders(tasks \o SignalWakes) \cup Senders(RegisterWakes(id))
      BY <3>2, <3>4, SendersConcat
    <3>6. Senders(tasks') \subseteq Senders(tasks) \cup Senders(RegisterWakes(id))
      BY <3>1, <3>3, <3>4, <3>5
    <3> QED
      BY <3>1, <3>6, RegisterStep DEF id
  <2> QED
    BY <1>2, <2>1, <2>2, <2>3
<1>3. ASSUME NEW id \in Issued, NEW result \in {"aborted", "ended"},
             AbortUnary(id) \/ StopStream(id, result)
      PROVE  PermitOwners' /\ InflightBudget'
  <2>1. Cancel(id, "aborted", tasks) \/ Cancel(id, result, tasks)
    BY <1>3 DEF AbortUnary, StopStream
  <2>2. UNCHANGED dead
    BY <1>3 DEF AbortUnary, StopStream, eventVars
  <2> QED
    BY <1>0, <2>1, <2>2, CancelStep
<1>4. CASE Close \/ ConnectFails
  BY <1>4, FailConnectionStep DEF Close, ConnectFails, Destroy
<1> QED
  BY <1>2, <1>3, <1>4 DEF UserCall

LEMMA MicrotaskStep ==
  ASSUME BudgetInv, Microtask
  PROVE  PermitOwners' /\ InflightBudget'
<1>1. ASSUME NEW id \in Issued, ResumeGone(id) \/ ResumeDead(id) \/ ResumeTooLarge(id)
      PROVE  PermitOwners' /\ InflightBudget'
  <2>1. /\ Running("send", id) /\ pc[id] = "inflight"
        /\ GiveUp(id, "connError") \/ GiveUp(id, "tooLarge")
    BY <1>1 DEF ResumeGone, ResumeDead, ResumeTooLarge
  <2> QED
    BY <2>1, GiveUpStep
<1>2. ASSUME NEW id \in Issued, ResumePermitted(id) \/ ResumeQueued(id) \/ ResumeSlotDead(id)
      PROVE  PermitOwners' /\ InflightBudget'
  BY <1>2, TakePermitStep, SlotStep
<1>3. ASSUME NEW id \in Issued, RunAbort(id)
      PROVE  PermitOwners' /\ InflightBudget'
  <2>1. /\ Tail(tasks) \in Seq(Task) /\ Senders(Tail(tasks)) \subseteq Senders(tasks)
        /\ UNCHANGED dead
    BY <1>3, RunningFacts DEF RunAbort, eventVars
  <2>2. CASE outcome[id] = "open"
    BY <1>3, <2>1, <2>2, CancelStep DEF RunAbort
  <2>3. CASE outcome[id] # "open"
    <3>1. /\ UNCHANGED <<pc, pending, permitted, inflight, dead, queueSlots>>
          /\ tasks' = Tail(tasks)
      BY <1>3, <2>3 DEF RunAbort, requestVars, tableVars, writerVars, eventVars
    <3> QED
      BY <2>1, <3>1, OtherStep
  <2> QED
    BY <2>2, <2>3
<1>4. ASSUME NEW buffered \in BOOLEAN, WriterExits \/ WriterIdles \/ WriterWrites(buffered)
      PROVE  PermitOwners' /\ InflightBudget'
  BY <1>4, WriterStep
<1> QED
  BY <1>1, <1>2, <1>3, <1>4 DEF Microtask

LEMMA EventStep ==
  ASSUME BudgetInv,
         \/ \E id \in pending, response \in Responses : Route(id, response)
         \/ RouteUnknown \/ RouteUnattributed \/ BadFrame \/ LocalEvent
  PROVE  PermitOwners' /\ InflightBudget'
<1>1. ASSUME NEW id \in pending, NEW response \in Responses, Route(id, response)
      PROVE  PermitOwners' /\ InflightBudget'
  <2>1. /\ UNCHANGED dead
        /\ \/ \E result \in Outcomes \ {"open"} : Answer(id, result)
           \/ UNCHANGED <<requestVars, tableVars, writerVars, tasks>>
           \/ Cancel(id, "protocolError", tasks)
    BY <1>1, RouteCases DEF BudgetInv
  <2>2. CASE UNCHANGED <<requestVars, tableVars, writerVars, tasks>>
    BY <2>1, <2>2, OtherStep DEF requestVars, tableVars, writerVars
  <2>3. CASE Cancel(id, "protocolError", tasks)
    BY <2>1, <2>3, CancelStep DEF BudgetInv, TypeOK
  <2> QED
    BY <2>1, <2>2, <2>3, AnswerStep
<1>2. CASE RouteUnknown \/ EndChunk
  BY <1>2, OtherStep DEF RouteUnknown, EndChunk, requestVars, tableVars, writerVars
<1>3. CASE RouteUnattributed \/ BadFrame \/ SocketError \/ SocketClose
  BY <1>3, FailConnectionStep DEF RouteUnattributed, BadFrame, SocketError, SocketClose
<1>4. CASE DrainEvent
  <2>1. /\ UNCHANGED <<pc, pending, permitted, inflight, dead, queueSlots>>
        /\ tasks' = <<WriterTask>>
    BY <1>4 DEF DrainEvent, requestVars, tableVars, eventVars
  <2> QED
    BY <2>1, SendersEffect, OtherStep
<1> QED
  BY <1>1, <1>2, <1>3, <1>4 DEF LocalEvent

\* At first the Hello holds the only permit taken.
LEMMA InitBudget == Init => BudgetInv
<1> SUFFICES ASSUME Init PROVE BudgetInv
  OBVIOUS
<1>1. MaxInflightRequests \in Nat /\ MaxInflightRequests > 0
  BY ConfigAssumption
<1>2. inflight.permits = MaxInflightRequests - 1 /\ inflight.waiters = <<>>
  BY <1>1 DEF Init, Acquire, NewSemaphore
<1>3. Issued = {HelloId} /\ pc[HelloId] = "inflight" /\ permitted = {}
  BY DEF Init, Issued
<1>4. Waiting(inflight) = {} /\ Waiting(queueSlots) = {}
  BY <1>2 DEF Init, NewSemaphore, Waiting
<1>5. Holding = {HelloId}
  BY <1>3, <1>4 DEF Holding, Granting
<1>6. Cardinality(Holding) = 1
  BY <1>5, FS_Singleton
<1>7. InflightBudget
  BY <1>1, <1>2, <1>6 DEF InflightBudget
<1>8. Senders(tasks) \subseteq Issued
  BY <1>3 DEF Init, Senders, SendTask
<1>9. PermitOwners
  BY <1>2, <1>3, <1>4, <1>8 DEF PermitOwners
<1> QED
  BY <1>7, <1>9, InitType DEF BudgetInv

LEMMA StepBudget == BudgetInv /\ [Next]_vars => BudgetInv'
<1> SUFFICES ASSUME BudgetInv, [Next]_vars
             PROVE  BudgetInv'
  OBVIOUS
<1>1. TypeOK'
  BY StepType DEF BudgetInv
<1>2. CASE Next
  BY <1>1, <1>2, UserCallStep, MicrotaskStep, EventStep DEF Next, BudgetInv
<1>3. CASE UNCHANGED vars
  BY <1>1, <1>3, OtherStep
     DEF vars, requestVars, tableVars, writerVars, eventVars, BudgetInv
<1> QED
  BY <1>2, <1>3

\* The in-flight budget is conserved as long as the connection lives, and never
\* exceeded after.
THEOREM BudgetConserved == Spec => []InflightBudget
<1>1. Init => BudgetInv
  BY InitBudget
<1>2. BudgetInv /\ [Next]_vars => BudgetInv'
  BY StepBudget
<1>3. BudgetInv => InflightBudget
  BY DEF BudgetInv
<1> QED
  BY <1>1, <1>2, <1>3, PTL DEF Spec

\* Nobody is due to resume with a permit it is also waiting for, no entry holds a
\* permit but one whose coroutine has passed its await, and a dead connection has
\* no entry left that would release one.
THEOREM OwnersKnown == Spec => []PermitOwners
<1>1. Init => BudgetInv
  BY InitBudget
<1>2. BudgetInv /\ [Next]_vars => BudgetInv'
  BY StepBudget
<1>3. BudgetInv => PermitOwners
  BY DEF BudgetInv
<1> QED
  BY <1>1, <1>2, <1>3, PTL DEF Spec
=============================================================================
