--------------------------- MODULE OpeningProofs ----------------------------
(***************************************************************************)
(* A connection is what the client takes it for, for every size of the     *)
(* budget and of the queue, every operation and any server: it treats its  *)
(* requests as a lane does, and it opens as Client.tla assumes.            *)
(***************************************************************************)
EXTENDS Opening, ConnectionProofs

-----------------------------------------------------------------------------
(* Lanes.                                                                  *)

ALane(open, held, budget, gone) ==
  [open |-> open, held |-> held, budget |-> budget, dead |-> gone]

\* What the operations of a lane make of its parts.
LEMMA LaneSettles ==
  ASSUME NEW open, NEW held, NEW budget, NEW gone, NEW id
  PROVE  L!Settle(ALane(open, held, budget, gone), id)
           = ALane(open \ {id}, held, budget, gone)
  BY DEF ALane, L!Settle

LEMMA LaneIssues ==
  ASSUME NEW id
  PROVE  L!Issue(AsLane, id)
           = ALane(pending \cup {id},
                   IF inflight.permits > 0 THEN Holding \cup {id} ELSE Holding,
                   Acquire(inflight, id), dead)
<1> DEFINE more == IF inflight.permits > 0 THEN Holding \cup {id} ELSE Holding
           taken == L!Acquire(inflight, id)
           m == L!Issue(AsLane, id)
<1>1. taken = Acquire(inflight, id)
  BY DEF L!Acquire, Acquire
<1>2. m = [AsLane EXCEPT !.open = pending \cup {id}, !.budget = taken, !.held = more]
  BY DEF AsLane, L!Issue
<1> HIDE DEF taken, more
<1>3. /\ m.open = pending \cup {id} /\ m.held = more /\ m.budget = taken /\ m.dead = dead
      /\ DOMAIN m = {"open", "held", "budget", "dead"}
      /\ m = [x \in DOMAIN m |-> m[x]]
  BY <1>2 DEF AsLane
<1> HIDE DEF m
<1>4. m = ALane(pending \cup {id}, more, taken, dead)
  BY <1>3 DEF ALane
<1> QED
  BY <1>1, <1>4 DEF m, more

LEMMA LaneLoses ==
  ASSUME NEW lost
  PROVE  L!Lose(AsLane, lost) = ALane({}, Holding \ lost, inflight, TRUE)
<1> DEFINE m == L!Lose(AsLane, lost)
<1>1. /\ m.open = {} /\ m.held = Holding \ lost /\ m.budget = inflight /\ m.dead = TRUE
      /\ DOMAIN m = {"open", "held", "budget", "dead"}
      /\ m = [x \in DOMAIN m |-> m[x]]
  BY DEF L!Lose, AsLane
<1> HIDE DEF m
<1>2. m = ALane({}, Holding \ lost, inflight, TRUE)
  BY <1>1 DEF ALane
<1> QED
  BY <1>2 DEF m

\* A permit given back to a lane goes where the semaphore sends it.
LEMMA LaneReturns ==
  ASSUME NEW open, NEW held, NEW budget \in SemaphoreState, NEW gone, NEW id
  PROVE  L!GiveBack(ALane(open, held, budget, gone), id)
           = ALane(open, (held \ {id}) \cup Members(Woken(budget)), Release(budget), gone)
<1> DEFINE passed == {w \in Waiting(budget) : Woken(budget) = <<w>>}
<1>1. budget.waiters \in Seq(Nat)
  BY DEF SemaphoreState
<1>2. passed = Members(Woken(budget))
  <2>1. CASE budget.waiters = <<>>
    BY <2>1 DEF Woken, Members, Waiting
  <2>2. CASE budget.waiters # <<>>
    <3>1. 1 \in 1 .. Len(budget.waiters) /\ Head(budget.waiters) = budget.waiters[1]
      BY <1>1, <2>2, EmptySeq
    <3>2. Woken(budget) = <<Head(budget.waiters)>>
      BY <2>2 DEF Woken
    <3>3. Head(budget.waiters) \in Waiting(budget)
      BY <3>1 DEF Waiting
    <3>4. Members(<<Head(budget.waiters)>>) = {Head(budget.waiters)}
      BY DEF Members
    <3>5. passed = {Head(budget.waiters)}
      BY <3>2, <3>3
    <3> QED
      BY <3>2, <3>4, <3>5
  <2> QED
    BY <2>1, <2>2
<1> DEFINE l == ALane(open, held, budget, gone)
<1>3. L!GiveBack(l, id)
        = [l EXCEPT !.budget = Release(@), !.held = (@ \ {id}) \cup passed]
  BY DEF L!GiveBack, L!Release, Release, L!Woken, Woken, L!Waiting, Waiting, ALane
<1> QED
  BY <1>2, <1>3 DEF ALane

-----------------------------------------------------------------------------
(* The steps of a connection are steps of a lane.                           *)

Treated == L!LaneStep(AsLane, AsLane', Issued')

LEMMA AsLaneParts ==
  /\ AsLane = ALane(pending, Holding, inflight, dead)
  /\ AsLane' = ALane(pending', Holding', inflight', dead')
  BY DEF AsLane, ALane

\* Nothing the client can tell changes.
LEMMA LaneUnchanged ==
  ASSUME UNCHANGED <<pending, inflight, dead>>, Holding' = Holding
  PROVE  Treated
<1>1. AsLane' = AsLane
  BY AsLaneParts
<1> QED
  BY <1>1 DEF Treated, L!LaneStep

\* A request is settled; its permit returns if its entry holds it.
LEMMA LaneFinalizes ==
  ASSUME BudgetInv, NEW id \in pending, Finalize(id), UNCHANGED <<pc, dead>>
  PROVE  Treated
<1>1. /\ Issued' = Issued /\ id \in Issued /\ inflight \in SemaphoreState
      /\ pending' = pending \ {id} /\ dead' = dead
  BY DEF Issued, Finalize, BudgetInv, TypeOK
<1>2. AsLane = ALane(pending, Holding, inflight, dead) /\ AsLane.open = pending
      /\ AsLane.held = Holding
  BY AsLaneParts DEF ALane
<1>3. L!Settle(AsLane, id) = ALane(pending', Holding, inflight, dead)
  BY <1>1, <1>2, LaneSettles
<1>4. CASE id \notin permitted
  <2>1. permitted' = permitted /\ inflight' = inflight
    BY <1>4 DEF Finalize
  <2>2. Holding' = Holding
    BY <1>1, <2>1 DEF Holding, Granting
  <2>3. AsLane' = L!Settle(AsLane, id)
    BY <1>1, <1>3, <2>1, <2>2, AsLaneParts
  <2> QED
    BY <1>1, <1>2, <2>3 DEF Treated, L!LaneStep
<1>5. CASE id \in permitted
  <2> DEFINE W == Members(Woken(inflight))
  <2>1. permitted' = permitted \ {id} /\ inflight' = Release(inflight)
    BY <1>5 DEF Finalize
  <2>2. Waiting(inflight') = Waiting(inflight) \ W /\ W \subseteq Waiting(inflight)
    BY <2>1, OwnersFacts, ReleaseEffect
  <2>3. Holding' = (Holding \ {id}) \cup W
    BY <1>1, <1>5, <2>1, <2>2, OwnersFacts DEF Holding, Granting
  <2>4. L!GiveBack(ALane(pending', Holding, inflight, dead), id)
          = ALane(pending', (Holding \ {id}) \cup W, Release(inflight), dead)
    BY <1>1, LaneReturns
  <2>5. AsLane' = L!GiveBack(L!Settle(AsLane, id), id)
    BY <1>1, <1>3, <2>1, <2>3, <2>4, AsLaneParts
  <2>6. id \in AsLane.open \cap AsLane.held
    BY <1>2, <1>5 DEF Holding
  <2> QED
    BY <1>1, <2>5, <2>6 DEF Treated, L!LaneStep
<1> QED
  BY <1>4, <1>5

LEMMA LaneCancels ==
  ASSUME BudgetInv, NEW id, NEW result, NEW queue, Cancel(id, result, queue),
         UNCHANGED dead
  PROVE  Treated
<1>1. CASE id \in pending
  BY <1>1, LaneFinalizes DEF Cancel
<1>2. CASE id \notin pending
  <2>1. UNCHANGED <<pc, pending, permitted, inflight, dead>>
    BY <1>2 DEF Cancel, tableVars
  <2> QED
    BY <2>1, LaneUnchanged DEF Holding, Granting, Issued
<1> QED
  BY <1>1, <1>2

\* A coroutine gives its permit back, and its request ends if it is still open.
LEMMA LaneGivesUp ==
  ASSUME BudgetInv, NEW id \in Issued, NEW result, Running("send", id), pc[id] = "inflight",
         GiveUp(id, result)
  PROVE  Treated
<1> DEFINE W == Members(Woken(inflight))
<1>1. /\ UNCHANGED <<permitted, dead>> /\ pending' = pending \ {id}
      /\ inflight' = Release(inflight) /\ Issued' = Issued
      /\ inflight \in SemaphoreState
      /\ pc'[id] = "dropped" /\ \A i \in Issued \ {id} : pc'[i] = pc[i]
  BY DEF GiveUp, Issued, writerVars, eventVars, BudgetInv, TypeOK
<1>2. id \notin Waiting(inflight) /\ id \notin permitted /\ id \in Holding
  BY RunningFacts, OwnersFacts DEF Holding, Granting
<1>3. Waiting(inflight') = Waiting(inflight) \ W /\ W \subseteq Waiting(inflight)
  BY <1>1, OwnersFacts, ReleaseEffect
<1>4. Holding' = (Holding \ {id}) \cup W
  BY <1>1, <1>2, <1>3, OwnersFacts DEF Holding, Granting
<1>5. L!GiveBack(ALane(pending', Holding, inflight, dead), id)
        = ALane(pending', (Holding \ {id}) \cup W, Release(inflight), dead)
  BY <1>1, LaneReturns
<1>6. AsLane' = L!GiveBack(ALane(pending', Holding, inflight, dead), id)
  BY <1>1, <1>4, <1>5, AsLaneParts
<1>7. AsLane.open = pending /\ AsLane.held = Holding
  BY DEF AsLane
<1>8. CASE id \in pending
  <2>1. L!Settle(AsLane, id) = ALane(pending', Holding, inflight, dead)
    BY <1>1, AsLaneParts, LaneSettles
  <2> QED
    BY <1>1, <1>2, <1>6, <1>7, <1>8, <2>1 DEF Treated, L!LaneStep
<1>9. CASE id \notin pending
  <2>1. AsLane = ALane(pending', Holding, inflight, dead)
    BY <1>1, <1>9, AsLaneParts
  <2> QED
    BY <1>1, <1>2, <1>6, <1>7, <1>9, <2>1 DEF Treated, L!LaneStep
<1> QED
  BY <1>8, <1>9

\* A new request asks for a permit, open or settled already.
LEMMA LaneRegisters ==
  ASSUME BudgetInv, NEW k, NEW result, Register(idCounter + 1, k, result),
         UNCHANGED permitted, pending' \in {pending, pending \cup {idCounter + 1}}
  PROVE  Treated
<1> DEFINE id == idCounter + 1
<1>1. id \in Nat /\ id \notin Issued /\ id \notin pending
  BY DEF BudgetInv, TypeOK
<1>2. /\ dead' = dead /\ inflight' = Acquire(inflight, id)
      /\ Issued' = Issued \cup {id} /\ pc'[id] = "inflight"
      /\ \A i \in Issued : pc'[i] = pc[i]
  BY <1>1 DEF Register, With, Issued, eventVars
<1>3. id \notin Waiting(inflight) /\ id \notin Holding
  BY <1>1, OwnersFacts, HoldingFinite DEF BudgetInv
<1>4. pending' \in {pending, pending \cup {id}}
  OBVIOUS
<1> HIDE DEF id
<1>5. Waiting(inflight') = IF inflight.permits > 0 THEN Waiting(inflight)
                                                  ELSE Waiting(inflight) \cup {id}
  <2>1. inflight \in SemaphoreState /\ inflight.permits \in Nat /\ Distinct(inflight.waiters)
    BY OwnersFacts DEF SemaphoreState
  <2>2. CASE inflight.permits > 0
    <3>1. Acquire(inflight, id).waiters = inflight.waiters
      BY <2>1, <2>2 DEF Acquire, SemaphoreState
    <3> QED
      BY <1>2, <2>2, <3>1 DEF Waiting
  <2>3. CASE ~(inflight.permits > 0)
    <3>1. Members(Granted(inflight, id)) = {}
      BY <2>3 DEF Granted, Members
    <3> QED
      BY <1>1, <1>2, <1>3, <2>1, <2>3, <3>1, AcquireEffect
  <2> QED
    BY <2>2, <2>3
<1>6. Holding' = IF inflight.permits > 0 THEN Holding \cup {id} ELSE Holding
  <2>1. CASE inflight.permits > 0
    BY <1>1, <1>2, <1>3, <1>5, <2>1, OwnersFacts DEF Holding, Granting
  <2>2. CASE ~(inflight.permits > 0)
    BY <1>1, <1>2, <1>3, <1>5, <2>2, OwnersFacts DEF Holding, Granting
  <2> QED
    BY <2>1, <2>2
<1>7. L!Issue(AsLane, id) = ALane(pending \cup {id}, Holding', Acquire(inflight, id), dead)
  BY <1>6, LaneIssues
<1>8. AsLane.open = pending
  BY DEF AsLane
<1>9. CASE pending' = pending \cup {id}
  <2>1. AsLane' = L!Issue(AsLane, id)
    BY <1>2, <1>7, <1>9, AsLaneParts
  <2> QED
    BY <1>1, <1>2, <1>8, <2>1 DEF Treated, L!LaneStep
<1>10. CASE pending' = pending
  <2>1. L!IssueSettled(AsLane, id)
          = ALane((pending \cup {id}) \ {id}, Holding', Acquire(inflight, id), dead)
    BY <1>7, LaneSettles DEF L!IssueSettled
  <2>2. (pending \cup {id}) \ {id} = pending
    BY <1>1
  <2>3. AsLane' = L!IssueSettled(AsLane, id)
    BY <1>2, <1>10, <2>1, <2>2, AsLaneParts
  <2> QED
    BY <1>1, <1>2, <1>8, <2>3 DEF Treated, L!LaneStep
<1> QED
  BY <1>4, <1>9, <1>10

\* The death of a connection takes the permits of its entries with it, once.
LEMMA LaneDies ==
  ASSUME BudgetInv, NEW roused, FailConnection(roused)
  PROVE  Treated
<1>1. /\ UNCHANGED <<pc, inflight>> /\ dead' = TRUE /\ Issued' = Issued
      /\ pending' = pending \ Failed /\ permitted' = permitted \ Failed
  BY DEF FailConnection, Issued
<1>2. CASE dead
  <2>1. UNCHANGED <<pending, permitted, dead>>
    BY <1>1, <1>2 DEF Failed, BudgetInv, TypeOK
  <2> QED
    BY <1>1, <2>1, LaneUnchanged DEF Holding, Granting
<1>3. CASE ~dead
  <2>1. pending' = {} /\ permitted' = {}
    BY <1>1, <1>3, OwnersFacts DEF Failed
  <2>2. Holding' = Holding \ permitted
    BY <1>1, <2>1, OwnersFacts DEF Holding, Granting
  <2>3. L!Lose(AsLane, permitted) = ALane({}, Holding \ permitted, inflight, TRUE)
    BY LaneLoses
  <2>4. AsLane' = L!Lose(AsLane, permitted)
    BY <1>1, <2>1, <2>2, <2>3, AsLaneParts
  <2>5. permitted \in SUBSET AsLane.held
    BY DEF AsLane, Holding
  <2> QED
    BY <2>4, <2>5 DEF Treated, L!LaneStep
<1> QED
  BY <1>2, <1>3

LEMMA LaneUserCall ==
  ASSUME BudgetInv, UserCall
  PROVE  Treated
<1>1. ASSUME NEW k \in UserKinds,
             Unary(k) \/ UnaryPreAborted(k) \/ Stream(k) \/ StreamPreAborted(k)
      PROVE  Treated
  <2>1. /\ \E result : Register(idCounter + 1, k, result)
        /\ UNCHANGED permitted
        /\ pending' \in {pending, pending \cup {idCounter + 1}}
    BY <1>1 DEF Unary, UnaryPreAborted, Stream, StreamPreAborted, Open
  <2> QED
    BY <2>1, LaneRegisters
<1>2. ASSUME NEW id \in Issued, NEW result \in {"aborted", "ended"},
             AbortUnary(id) \/ StopStream(id, result)
      PROVE  Treated
  <2>1. Cancel(id, "aborted", tasks) \/ Cancel(id, result, tasks)
    BY <1>2 DEF AbortUnary, StopStream
  <2>2. UNCHANGED dead
    BY <1>2 DEF AbortUnary, StopStream, eventVars
  <2> QED
    BY <2>1, <2>2, LaneCancels
<1>3. CASE Close \/ ConnectFails
  BY <1>3, LaneDies DEF Close, ConnectFails, Destroy
<1> QED
  BY <1>1, <1>2, <1>3 DEF UserCall

LEMMA LaneMicrotask ==
  ASSUME BudgetInv, Microtask
  PROVE  Treated
<1>1. ASSUME NEW id \in Issued, ResumeGone(id) \/ ResumeDead(id) \/ ResumeTooLarge(id)
      PROVE  Treated
  <2>1. /\ Running("send", id) /\ pc[id] = "inflight"
        /\ GiveUp(id, "connError") \/ GiveUp(id, "tooLarge")
    BY <1>1 DEF ResumeGone, ResumeDead, ResumeTooLarge
  <2> QED
    BY <2>1, LaneGivesUp
<1>2. ASSUME NEW id \in Issued, ResumePermitted(id)
      PROVE  Treated
  <2>1. /\ UNCHANGED <<pending, inflight, dead>> /\ Issued' = Issued
        /\ permitted' = permitted \cup {id} /\ pc[id] = "inflight"
        /\ pc'[id] = "slot" /\ \A i \in Issued \ {id} : pc'[i] = pc[i]
        /\ Running("send", id)
    BY <1>2 DEF ResumePermitted, TakePermit, Issued, eventVars, BudgetInv, TypeOK
  <2>2. id \notin Waiting(inflight)
    BY <2>1, RunningFacts
  <2>3. Holding' = Holding
    BY <2>1, <2>2, OwnersFacts DEF Holding, Granting
  <2> QED
    BY <2>1, <2>3, LaneUnchanged
<1>3. ASSUME NEW id \in Issued, ResumeQueued(id) \/ ResumeSlotDead(id)
      PROVE  Treated
  <2>1. /\ UNCHANGED <<pending, permitted, inflight, dead>> /\ Issued' = Issued
        /\ pc[id] = "slot" /\ pc'[id] \in {"queued", "dropped"}
        /\ \A i \in Issued \ {id} : pc'[i] = pc[i]
    BY <1>3 DEF ResumeQueued, ResumeSlotDead, Issued, tableVars, eventVars, BudgetInv, TypeOK
  <2>2. Holding' = Holding
    BY <2>1 DEF Holding, Granting
  <2> QED
    BY <2>1, <2>2, LaneUnchanged
<1>4. ASSUME UNCHANGED <<pc, pending, permitted, inflight, dead>>
      PROVE  Treated
  BY <1>4, LaneUnchanged DEF Holding, Granting, Issued
<1>5. ASSUME NEW id \in Issued, RunAbort(id)
      PROVE  Treated
  <2>1. CASE outcome[id] = "open"
    BY <1>5, <2>1, LaneCancels DEF RunAbort, eventVars
  <2>2. CASE outcome[id] # "open"
    BY <1>4, <1>5, <2>2 DEF RunAbort, requestVars, tableVars, eventVars
  <2> QED
    BY <2>1, <2>2
<1>6. ASSUME NEW buffered \in BOOLEAN, WriterExits \/ WriterIdles \/ WriterWrites(buffered)
      PROVE  Treated
  BY <1>4, <1>6
     DEF WriterExits, WriterIdles, WriterWrites, Write, requestVars, tableVars, eventVars
<1> QED
  BY <1>1, <1>2, <1>3, <1>5, <1>6 DEF Microtask

LEMMA LaneEvent ==
  ASSUME BudgetInv,
         \/ \E id \in pending, response \in Responses : Route(id, response)
         \/ RouteUnknown \/ RouteUnattributed \/ BadFrame \/ LocalEvent
  PROVE  Treated
<1>0. ASSUME UNCHANGED <<pc, pending, permitted, inflight, dead>>
      PROVE  Treated
  BY <1>0, LaneUnchanged DEF Holding, Granting, Issued
<1>1. ASSUME NEW id \in pending, NEW response \in Responses, Route(id, response)
      PROVE  Treated
  <2>1. /\ UNCHANGED dead
        /\ \/ \E result \in Outcomes \ {"open"} : Answer(id, result)
           \/ UNCHANGED <<requestVars, tableVars, writerVars, tasks>>
           \/ Cancel(id, "protocolError", tasks)
    BY <1>1, RouteCases DEF BudgetInv
  <2>2. ASSUME NEW result, Answer(id, result)
        PROVE  Treated
    BY <2>1, <2>2, LaneFinalizes DEF Answer
  <2>3. CASE UNCHANGED <<requestVars, tableVars, writerVars, tasks>>
    BY <1>0, <2>1, <2>3 DEF requestVars, tableVars
  <2>4. CASE Cancel(id, "protocolError", tasks)
    BY <2>1, <2>4, LaneCancels
  <2> QED
    BY <2>1, <2>2, <2>3, <2>4
<1>2. CASE RouteUnknown \/ EndChunk \/ DrainEvent
  BY <1>0, <1>2 DEF RouteUnknown, EndChunk, DrainEvent, requestVars, tableVars, eventVars
<1>3. CASE RouteUnattributed \/ BadFrame \/ SocketError \/ SocketClose
  BY <1>3, LaneDies DEF RouteUnattributed, BadFrame, SocketError, SocketClose
<1> QED
  BY <1>1, <1>2, <1>3 DEF LocalEvent

-----------------------------------------------------------------------------
(* The opening.  A dial leaves the connection it has not made yet alone.    *)

LEMMA OpeningStepIsStep == [OpeningNext]_openingVars => [Next]_vars
  BY DEF OpeningNext, openingVars, SocketReady, SocketFails, DialAbort

\* Registering, granting, cancelling, answering and dying look to the client as Lane has
\* it: whatever the connection does with queues, writers and microtasks, a permit moves
\* only between requests of its lane, oldest first, or is lost with the connection.
THEOREM TreatedAsLane == OpeningSpec => ActsAsLane
<1>1. OpeningInit => BudgetInv /\ AsLane = L!NewLane(MaxInflightRequests, HelloId)
  <2> SUFFICES ASSUME OpeningInit
               PROVE  AsLane = L!NewLane(MaxInflightRequests, HelloId)
    BY InitBudget DEF OpeningInit
  <2>1. inflight.waiters = <<>>
    BY ConfigAssumption DEF OpeningInit, Init, Acquire, NewSemaphore
  <2>2. Holding = {HelloId}
    BY <2>1 DEF OpeningInit, Init, Holding, Granting, Issued, Waiting
  <2>3. inflight = L!Acquire(L!NewSemaphore(MaxInflightRequests), HelloId)
    BY DEF OpeningInit, Init, Acquire, L!Acquire, NewSemaphore, L!NewSemaphore
  <2>4. pending = {HelloId} /\ dead = FALSE
    BY DEF OpeningInit, Init
  <2> QED
    BY <2>2, <2>3, <2>4 DEF AsLane, L!NewLane
<1>2. BudgetInv /\ [OpeningNext]_openingVars => BudgetInv'
  BY OpeningStepIsStep, StepBudget
<1>3. BudgetInv /\ [OpeningNext]_openingVars
        => [L!LaneStep(AsLane, AsLane', Issued')]_<<pending, permitted, inflight, pc, dead>>
  <2> SUFFICES ASSUME BudgetInv, [OpeningNext]_openingVars
               PROVE  [L!LaneStep(AsLane, AsLane', Issued')]_<<pending, permitted, inflight, pc, dead>>
    OBVIOUS
  <2>1. CASE Next
    BY <2>1, LaneUserCall, LaneMicrotask, LaneEvent DEF Next, Treated
  <2>2. CASE UNCHANGED vars
    BY <2>2 DEF vars, requestVars, tableVars, eventVars
  <2> QED
    BY <2>1, <2>2, OpeningStepIsStep
<1> QED
  BY <1>1, <1>2, <1>3, PTL DEF OpeningSpec, ActsAsLane

-----------------------------------------------------------------------------
(* What the client sees of an opening.                                      *)

\* Until its Hello is settled the connection has its socket and is not closed; one that
\* was closed has none.  A dial that is over without a connection has none either.
OpeningInv ==
  /\ TableInv
  /\ HelloId \in Issued
  /\ outcome[HelloId] = "open" => socket = "open" /\ ~dead /\ ~released
  /\ released => socket # "open"
  /\ signal \in {"armed", "aborted"}
  /\ dial \in {"pending", "rejected", "taken"}
  /\ dial = "pending" => raw = "connecting"
  /\ dial = "rejected" => raw \in {"none", "destroyed"}
  /\ dial # "taken" => outcome[HelloId] = "open"

\* The steps of the client's specification in terms of what is seen.
LEMMA SeenSteps ==
  /\ Phase = "dialing" /\ Phase' = "hello" /\ Sock' = Sock /\ signal' = signal
       => Seen!DialReady(0)
  /\ Phase = "dialing" /\ Phase' = "rejected" /\ Sock' = "destroyed" /\ signal' = signal
       => Seen!DialFails(0)
  /\ Phase = "hello" /\ Sock = "open" /\ Phase' = "connected" /\ Sock' = Sock /\ signal' = signal
       => Seen!HelloAcked(0)
  /\ Phase = "hello" /\ Sock = "open" /\ Phase' = "refused" /\ Sock' = Sock /\ signal' = signal
       => Seen!HelloRefused(0)
  /\ Phase = "refused" /\ Phase' = "rejected" /\ Sock' = "destroyed" /\ signal' = signal
       => Seen!CloseRefused(0)
  /\ Phase = "hello" /\ Sock = "open" /\ Phase' = "refused" /\ Sock' = "destroyed"
       /\ signal' = signal => Seen!SocketLost(0)
  /\ Phase \in {"refused", "connected"} /\ Sock = "open" /\ Phase' = Phase
       /\ Sock' = "destroyed" /\ signal' = signal => Seen!SocketLost(0)
<1>1. Phase = "dialing" /\ Phase' = "hello" /\ Sock' = Sock /\ signal' = signal
        => Seen!DialReady(0)
  BY DEF Seen!DialReady
<1>2. Phase = "dialing" /\ Phase' = "rejected" /\ Sock' = "destroyed" /\ signal' = signal
        => Seen!DialFails(0)
  BY DEF Seen!DialFails
<1>3. Phase = "hello" /\ Sock = "open" /\ Phase' = "connected" /\ Sock' = Sock /\ signal' = signal
        => Seen!HelloAcked(0)
  BY DEF Seen!HelloAcked
<1>4. Phase = "hello" /\ Sock = "open" /\ Phase' = "refused" /\ Sock' = Sock /\ signal' = signal
        => Seen!HelloRefused(0)
  BY DEF Seen!HelloRefused
<1>5. Phase = "refused" /\ Phase' = "rejected" /\ Sock' = "destroyed" /\ signal' = signal
        => Seen!CloseRefused(0)
  BY DEF Seen!CloseRefused
<1>6. Phase = "hello" /\ Sock = "open" /\ Phase' = "refused" /\ Sock' = "destroyed"
        /\ signal' = signal => Seen!SocketLost(0)
  BY DEF Seen!SocketLost
<1>7. Phase \in {"refused", "connected"} /\ Sock = "open" /\ Phase' = Phase
        /\ Sock' = "destroyed" /\ signal' = signal => Seen!SocketLost(0)
  BY DEF Seen!SocketLost
<1> QED
  BY <1>1, <1>2, <1>3, <1>4, <1>5, <1>6, <1>7

\* What a step of the connection does to its Hello and its socket.
HelloSame == outcome'[HelloId] = outcome[HelloId]
HelloEffect ==
  \/ HelloSame /\ UNCHANGED <<socket, released>>
  \/ /\ outcome[HelloId] = "open" /\ outcome'[HelloId] # "open"
     /\ UNCHANGED <<socket, released>>
  \/ /\ outcome[HelloId] \notin {"open", "ok"} /\ HelloSame
     /\ ~released /\ released' /\ socket' # "open"
  \/ outcome[HelloId] = "ok" /\ HelloSame /\ released' /\ socket' # "open"
  \/ /\ IF outcome[HelloId] = "open" THEN outcome'[HelloId] = "connError" ELSE HelloSame
     /\ UNCHANGED released /\ socket' # "open"

\* Settling some request.
LEMMA HelloSettled ==
  ASSUME OpeningInv, NEW id, NEW result \in Outcomes \ {"open"}, Settle(id, result)
  PROVE  \/ HelloSame
         \/ outcome[HelloId] = "open" /\ outcome'[HelloId] # "open"
  BY DEF OpeningInv, TableInv, TypeOK, Settle, HelloSame

\* The death of the connection settles a Hello that is open.
LEMMA HelloFails ==
  ASSUME OpeningInv, NEW roused, FailConnection(roused)
  PROVE  IF outcome[HelloId] = "open" THEN outcome'[HelloId] = "connError" ELSE HelloSame
<1>1. DOMAIN outcome = Issued /\ HelloId \in Issued
  BY DEF OpeningInv, TableInv, TypeOK
<1>2. outcome[HelloId] = "open" => HelloId \in Failed
  BY <1>1 DEF OpeningInv, TableInv, PendingIsOpen, Failed
<1> QED
  BY <1>1, <1>2 DEF FailConnection, HelloSame

LEMMA HelloUserCall ==
  ASSUME OpeningInv, UserCall
  PROVE  HelloEffect
<1>1. ASSUME NEW k \in UserKinds,
             Unary(k) \/ UnaryPreAborted(k) \/ Stream(k) \/ StreamPreAborted(k)
      PROVE  HelloEffect
  <2>1. \E result : Register(idCounter + 1, k, result)
    BY <1>1 DEF Unary, UnaryPreAborted, Stream, StreamPreAborted, Open
  <2>2. HelloId \in DOMAIN outcome /\ HelloId # idCounter + 1
    BY DEF OpeningInv, TableInv, TypeOK
  <2>3. HelloSame /\ UNCHANGED <<socket, released>>
    BY <2>1, <2>2 DEF Register, With, HelloSame, eventVars
  <2> QED
    BY <2>3 DEF HelloEffect
<1>2. ASSUME NEW id \in Issued, NEW result \in {"aborted", "ended"},
             AbortUnary(id) \/ StopStream(id, result)
      PROVE  HelloEffect
  <2>1. /\ Settle(id, "aborted") \/ Settle(id, result)
        /\ UNCHANGED <<socket, released>>
    BY <1>2 DEF AbortUnary, StopStream, Cancel, eventVars
  <2> QED
    BY <2>1, HelloSettled DEF HelloEffect, Outcomes
<1>3. CASE Close
  <2>1. outcome[HelloId] = "ok" /\ released' /\ socket' # "open" /\ FailConnection({})
    BY <1>3 DEF Close, MayCall, Connected, Destroy
  <2> QED
    BY <2>1, HelloFails DEF HelloEffect
<1>4. CASE ConnectFails
  <2>1. /\ outcome[HelloId] \notin {"open", "ok"} /\ ~released
        /\ released' /\ socket' # "open" /\ FailConnection({})
    BY <1>4 DEF ConnectFails, Destroy
  <2> QED
    BY <2>1, HelloFails DEF HelloEffect
<1> QED
  BY <1>1, <1>2, <1>3, <1>4 DEF UserCall

LEMMA HelloMicrotask ==
  ASSUME OpeningInv, Microtask
  PROVE  HelloEffect
<1>0. {"connError", "tooLarge", "aborted"} \subseteq Outcomes \ {"open"}
  BY DEF Outcomes
<1>1. UNCHANGED <<socket, released>>
  BY DEF Microtask, ResumeGone, ResumeDead, ResumeTooLarge, GiveUp, ResumePermitted, TakePermit,
         ResumeQueued, ResumeSlotDead, RunAbort, WriterExits, WriterIdles, WriterWrites, Write,
         eventVars
<1>2. \/ UNCHANGED outcome
      \/ \E id \in Issued, result \in {"connError", "tooLarge", "aborted"} : Settle(id, result)
  BY DEF Microtask, ResumeGone, ResumeDead, ResumeTooLarge, GiveUp, ResumePermitted, TakePermit,
         ResumeQueued, ResumeSlotDead, RunAbort, Cancel, WriterExits, WriterIdles, WriterWrites,
         Write, requestVars
<1>3. \/ HelloSame
      \/ outcome[HelloId] = "open" /\ outcome'[HelloId] # "open"
  BY <1>0, <1>2, HelloSettled DEF HelloSame
<1> QED
  BY <1>1, <1>3 DEF HelloEffect

LEMMA HelloEvent ==
  ASSUME OpeningInv,
         \/ \E id \in pending, response \in Responses : Route(id, response)
         \/ RouteUnknown \/ RouteUnattributed \/ BadFrame \/ LocalEvent
  PROVE  HelloEffect
<1>1. ASSUME NEW id \in pending, NEW response \in Responses, Route(id, response)
      PROVE  HelloEffect
  <2>1. /\ UNCHANGED <<socket, released>>
        /\ \/ \E result \in Outcomes \ {"open"} : Settle(id, result)
           \/ UNCHANGED outcome
    BY <1>1, RouteCases DEF Answer, Cancel, requestVars, Outcomes, OpeningInv, TableInv
  <2> QED
    BY <2>1, HelloSettled DEF HelloEffect, HelloSame
<1>2. CASE RouteUnknown \/ EndChunk \/ DrainEvent
  BY <1>2 DEF RouteUnknown, EndChunk, DrainEvent, requestVars, eventVars, HelloEffect, HelloSame
<1>3. CASE RouteUnattributed \/ BadFrame
  BY <1>3, HelloFails DEF RouteUnattributed, BadFrame, HelloEffect
<1>4. CASE SocketError \/ SocketClose
  BY <1>4, HelloFails DEF SocketError, SocketClose, HelloEffect
<1> QED
  BY <1>1, <1>2, <1>3, <1>4 DEF LocalEvent

LEMMA HelloStep ==
  ASSUME OpeningInv, Next
  PROVE  HelloEffect
BY HelloUserCall, HelloMicrotask, HelloEvent DEF Next

\* A connection dies in one way only.
LEMMA DiesByFailing ==
  ASSUME TypeOK, Next
  PROVE  UNCHANGED dead \/ \E roused : FailConnection(roused)
<1>1. CASE UserCall
  BY <1>1 DEF UserCall, Unary, UnaryPreAborted, Stream, StreamPreAborted, Open, Register,
              AbortUnary, StopStream, Close, ConnectFails, Destroy, eventVars
<1>2. CASE Microtask
  BY <1>2 DEF Microtask, ResumeGone, ResumeDead, ResumeTooLarge, GiveUp, ResumePermitted,
              TakePermit, ResumeQueued, ResumeSlotDead, RunAbort, WriterExits, WriterIdles,
              WriterWrites, Write, eventVars
<1>3. CASE \E id \in pending, response \in Responses : Route(id, response)
  BY <1>3 DEF Route
<1>4. CASE RouteUnknown \/ RouteUnattributed \/ BadFrame
  BY <1>4 DEF RouteUnknown, RouteUnattributed, BadFrame
<1>5. CASE LocalEvent
  BY <1>5 DEF LocalEvent, EndChunk, DrainEvent, SocketError, SocketClose, eventVars
<1> QED
  BY <1>1, <1>2, <1>3, <1>4, <1>5 DEF Next

\* No socket of a connection comes back, and no connection is taken back.
LEMMA SocketEnds ==
  ASSUME TypeOK, Next
  PROVE  /\ socket # "open" => socket' # "open"
         /\ released => released'
<1>1. CASE UserCall
  BY <1>1 DEF UserCall, Unary, UnaryPreAborted, Stream, StreamPreAborted, Open, Register,
              AbortUnary, StopStream, Close, ConnectFails, Destroy, eventVars
<1>2. CASE Microtask
  BY <1>2 DEF Microtask, ResumeGone, ResumeDead, ResumeTooLarge, GiveUp, ResumePermitted,
              TakePermit, ResumeQueued, ResumeSlotDead, RunAbort, WriterExits, WriterIdles,
              WriterWrites, Write, eventVars
<1>3. CASE \E id \in pending, response \in Responses : Route(id, response)
  BY <1>3 DEF Route
<1>4. CASE RouteUnknown \/ RouteUnattributed \/ BadFrame
  BY <1>4 DEF RouteUnknown, RouteUnattributed, BadFrame
<1>5. CASE LocalEvent
  BY <1>5 DEF LocalEvent, EndChunk, DrainEvent, SocketError, SocketClose, eventVars
<1> QED
  BY <1>1, <1>2, <1>3, <1>4, <1>5 DEF Next

\* The steps of the dial.
LEMMA InitOpening == OpeningInit => OpeningInv
<1> SUFFICES ASSUME OpeningInit PROVE OpeningInv
  OBVIOUS
<1>1. TableInv
  BY InitTable DEF OpeningInit
<1>2. /\ HelloId \in Issued /\ outcome[HelloId] = "open"
      /\ socket = "open" /\ ~dead /\ ~released
  BY DEF OpeningInit, Init, Issued
<1> QED
  BY <1>1, <1>2 DEF OpeningInit, OpeningInv

LEMMA StepOpening == OpeningInv /\ [OpeningNext]_openingVars => OpeningInv'
<1> SUFFICES ASSUME OpeningInv, [OpeningNext]_openingVars PROVE OpeningInv'
  OBVIOUS
<1>1. TypeOK /\ TableInv /\ TableInv'
  BY OpeningStepIsStep, StepTable DEF OpeningInv, TableInv
<1>2. CASE dial = "taken" /\ Next /\ UNCHANGED dialVars
  <2>1. HelloId \in Issued'
    BY <1>1, <1>2, Progress DEF OpeningInv
  <2>2. /\ outcome'[HelloId] = "open" => outcome[HelloId] = "open" /\ UNCHANGED <<socket, released>>
        /\ released' => released \/ socket' # "open"
    BY <1>2, HelloStep DEF HelloEffect, HelloSame
  <2>3. outcome'[HelloId] = "open" => ~dead'
    <3>1. CASE UNCHANGED dead
      BY <2>2, <3>1 DEF OpeningInv
    <3>2. ASSUME NEW roused, FailConnection(roused)
          PROVE  outcome'[HelloId] # "open"
      BY <3>2, HelloFails DEF HelloSame
    <3> QED
      BY <1>1, <1>2, <3>1, <3>2, DiesByFailing
  <2>4. released' => socket' # "open"
    BY <1>1, <1>2, <2>2, SocketEnds DEF OpeningInv
  <2> QED
    BY <1>1, <1>2, <2>1, <2>2, <2>3, <2>4 DEF OpeningInv, dialVars
<1>3. CASE UNCHANGED vars
  <2>1. /\ Issued' = Issued /\ UNCHANGED <<outcome, socket, dead, released>>
    BY <1>3 DEF vars, requestVars, eventVars, Issued
  <2>2. /\ signal' \in {"armed", "aborted"}
        /\ dial' \in {"pending", "rejected", "taken"}
        /\ dial' = "pending" => raw' = "connecting"
        /\ dial' = "rejected" => raw' \in {"none", "destroyed"}
        /\ dial' # "taken" => dial # "taken"
    <3>1. CASE SocketReady
      BY <3>1 DEF SocketReady, OpeningInv
    <3>2. CASE SocketFails
      BY <3>2 DEF SocketFails, OpeningInv
    <3>3. CASE DialAbort
      BY <3>3 DEF DialAbort, OpeningInv
    <3>4. CASE UNCHANGED dialVars
      BY <3>4 DEF dialVars, OpeningInv
    <3> QED
      BY <3>1, <3>2, <3>3, <3>4 DEF OpeningNext, openingVars
  <2> QED
    BY <1>1, <2>1, <2>2 DEF OpeningInv
<1> QED
  BY <1>2, <1>3 DEF OpeningNext, openingVars, SocketReady, SocketFails, DialAbort

\* What the client sees of a step.
SeenStep ==
  \/ Seen!Abort
  \/ \E c \in {0} :
       \/ Seen!DialReady(c) \/ Seen!DialFails(c)
       \/ Seen!HelloAcked(c) \/ Seen!HelloRefused(c)
       \/ Seen!CloseRefused(c) \/ Seen!SocketLost(c)
  \/ UNCHANGED <<Phase, Sock, signal>>

LEMMA DialIsSeen ==
  ASSUME OpeningInv, SocketReady \/ SocketFails \/ DialAbort
  PROVE  SeenStep
<1>1. /\ dial = "pending" /\ raw = "connecting" /\ Phase = "dialing" /\ Sock = "open"
      /\ outcome[HelloId] = "open" /\ UNCHANGED <<outcome, socket>>
  BY DEF OpeningInv, SocketReady, SocketFails, DialAbort, Phase, Sock, vars, requestVars,
         eventVars
<1>2. CASE SocketReady
  <2>1. dial' = "taken" /\ signal' = signal /\ socket = "open"
    BY <1>1, <1>2 DEF SocketReady, OpeningInv
  <2>2. Phase' = "hello" /\ Sock' = "open"
    BY <1>1, <2>1 DEF Phase, Sock
  <2> QED
    BY <1>1, <2>1, <2>2, SeenSteps DEF SeenStep
<1>3. CASE SocketFails
  <2>1. dial' = "rejected" /\ raw' = "destroyed" /\ signal' = signal
    BY <1>3 DEF SocketFails
  <2>2. Phase' = "rejected" /\ Sock' = "destroyed"
    BY <2>1 DEF Phase, Sock
  <2> QED
    BY <1>1, <2>1, <2>2, SeenSteps DEF SeenStep
<1>4. CASE DialAbort
  <2>1. dial' = "rejected" /\ raw' = "destroyed" /\ signal = "armed" /\ signal' = "aborted"
    BY <1>4 DEF DialAbort
  <2>2. Phase' = "rejected" /\ Sock' = "destroyed"
    BY <2>1 DEF Phase, Sock
  <2>3. Seen!Conns = {0}
    BY DEF Seen!Conns, Seen!Control, Seen!Bulk
  <2>4. Seen!Abort
    BY <1>1, <2>1, <2>2, <2>3 DEF Seen!Abort
  <2> QED
    BY <2>4 DEF SeenStep
<1> QED
  BY <1>2, <1>3, <1>4

LEMMA ConnectionIsSeen ==
  ASSUME OpeningInv, dial = "taken", Next, UNCHANGED dialVars
  PROVE  SeenStep
<1>1. dial' = "taken" /\ signal' = signal
  BY DEF dialVars
<1>2. TypeOK /\ (released => socket # "open")
      /\ (outcome[HelloId] = "open" => socket = "open" /\ ~released)
  BY DEF OpeningInv, TableInv
<1>3. HelloEffect /\ (socket # "open" => socket' # "open")
  BY <1>2, HelloStep, SocketEnds
<1>4. Sock = (IF socket = "open" THEN "open" ELSE "destroyed")
  BY DEF Sock
<1>5. Sock' = (IF socket' = "open" THEN "open" ELSE "destroyed")
  BY <1>1 DEF Sock
<1>6. /\ outcome[HelloId] = "open" => Phase = "hello"
      /\ outcome[HelloId] = "ok" => Phase = "connected"
      /\ outcome[HelloId] \notin {"open", "ok"} /\ ~released => Phase = "refused"
      /\ outcome[HelloId] \notin {"open", "ok"} /\ released => Phase = "rejected"
  BY DEF Phase
<1>7. /\ outcome'[HelloId] = "open" => Phase' = "hello"
      /\ outcome'[HelloId] = "ok" => Phase' = "connected"
      /\ outcome'[HelloId] \notin {"open", "ok"} /\ ~released' => Phase' = "refused"
      /\ outcome'[HelloId] \notin {"open", "ok"} /\ released' => Phase' = "rejected"
  BY <1>1 DEF Phase
<1>8. CASE HelloSame /\ UNCHANGED <<socket, released>>
  <2>1. Phase' = Phase /\ Sock' = Sock
    BY <1>1, <1>8 DEF Phase, Sock, HelloSame
  <2> QED
    BY <1>1, <2>1 DEF SeenStep
<1>9. CASE outcome[HelloId] = "open" /\ outcome'[HelloId] # "open" /\ UNCHANGED <<socket, released>>
  <2>1. Phase = "hello" /\ Sock = "open" /\ Sock' = Sock /\ Phase' \in {"connected", "refused"}
    BY <1>2, <1>4, <1>5, <1>6, <1>7, <1>9
  <2> QED
    BY <1>1, <2>1, SeenSteps DEF SeenStep
<1>10. CASE /\ outcome[HelloId] \notin {"open", "ok"} /\ HelloSame
            /\ ~released /\ released' /\ socket' # "open"
  <2>1. Phase = "refused" /\ Phase' = "rejected" /\ Sock' = "destroyed"
    BY <1>5, <1>6, <1>7, <1>10 DEF HelloSame
  <2> QED
    BY <1>1, <2>1, SeenSteps DEF SeenStep
<1>11. CASE outcome[HelloId] = "ok" /\ HelloSame /\ released' /\ socket' # "open"
  <2>1. Phase = "connected" /\ Phase' = Phase /\ Sock' = "destroyed" /\ Sock \in {"open", "destroyed"}
    BY <1>4, <1>5, <1>6, <1>7, <1>11 DEF HelloSame
  <2> QED
    BY <1>1, <2>1, SeenSteps DEF SeenStep
<1>12. CASE /\ IF outcome[HelloId] = "open" THEN outcome'[HelloId] = "connError" ELSE HelloSame
            /\ UNCHANGED released /\ socket' # "open"
  <2>1. Sock' = "destroyed" /\ Sock \in {"open", "destroyed"}
    BY <1>4, <1>5, <1>12
  <2>2. CASE outcome[HelloId] = "open"
    <3>1. Phase = "hello" /\ Sock = "open" /\ Phase' = "refused"
      BY <1>2, <1>4, <1>6, <1>7, <1>12, <2>2
    <3> QED
      BY <1>1, <2>1, <3>1, SeenSteps DEF SeenStep
  <2>3. CASE outcome[HelloId] # "open"
    <3>1. Phase' = Phase
      BY <1>1, <1>12, <2>3 DEF Phase, HelloSame
    <3>2. Sock = "open" => Phase \in {"refused", "connected"}
      BY <1>2, <1>4, <1>6, <2>3
    <3> QED
      BY <1>1, <2>1, <3>1, <3>2, SeenSteps DEF SeenStep
  <2> QED
    BY <2>2, <2>3
<1> QED
  BY <1>3, <1>8, <1>9, <1>10, <1>11, <1>12 DEF HelloEffect

\* Whatever its dial, its server and its caller do, a connection opens as Client.tla
\* assumes: the abstraction the theorems about the client rest on is sound.
THEOREM OpenedAsSeen == OpeningSpec => OpensAsSeen
<1>1. OpeningInit => Seen!Init
  <2> SUFFICES ASSUME OpeningInit PROVE Seen!Init
    OBVIOUS
  <2>1. Seen!Conns = {0}
    BY DEF Seen!Conns, Seen!Control, Seen!Bulk
  <2>2. CASE dial = "pending"
    <3>1. Phase = "dialing" /\ Sock = "open" /\ signal = "armed"
      BY <2>2 DEF OpeningInit, Phase, Sock
    <3> QED
      BY <2>1, <3>1 DEF Seen!Init
  <2>3. CASE dial = "rejected"
    <3>1. Phase = "rejected" /\ Sock = "none" /\ signal \in {"armed", "aborted"}
      BY <2>3 DEF OpeningInit, Phase, Sock
    <3> QED
      BY <2>1, <3>1 DEF Seen!Init
  <2> QED
    BY <2>2, <2>3 DEF OpeningInit
<1>2. OpeningInv /\ [OpeningNext]_openingVars
        => [\/ Seen!Abort
            \/ \E c \in {0} :
                 \/ Seen!DialReady(c) \/ Seen!DialFails(c)
                 \/ Seen!HelloAcked(c) \/ Seen!HelloRefused(c)
                 \/ Seen!CloseRefused(c) \/ Seen!SocketLost(c)
           ]_<<Phase, Sock, signal>>
  <2> SUFFICES ASSUME OpeningInv, [OpeningNext]_openingVars PROVE SeenStep
    BY DEF SeenStep
  <2>1. CASE UNCHANGED openingVars
    BY <2>1 DEF openingVars, dialVars, vars, requestVars, eventVars, Phase, Sock, SeenStep
  <2> QED
    BY <2>1, DialIsSeen, ConnectionIsSeen DEF OpeningNext
<1> QED
  BY <1>1, <1>2, InitOpening, StepOpening, PTL DEF OpeningSpec, OpensAsSeen
=============================================================================
