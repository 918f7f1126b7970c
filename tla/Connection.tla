----------------------------- MODULE Connection -----------------------------
(***************************************************************************)
(* One socket of the client: the Conn class of connection.ts with the      *)
(* gate and the semaphores of util.ts it is built from.                    *)
(*                                                                         *)
(* JavaScript runs one continuation at a time.  "tasks" is the microtask   *)
(* queue: the suspended calls whose await has been resolved, in the order  *)
(* they will resume.  Socket events are delivered only when it is empty;   *)
(* calls of the user (themselves continuations of other code) may fall     *)
(* between any two microtasks.  One chunk of data may carry several        *)
(* frames, which are routed with nothing in between (inData).              *)
(*                                                                         *)
(* Frames are abstracted to the request they name, responses to their      *)
(* kind, errors to their class.  The server is arbitrary here: any         *)
(* response for any id.  Session.tla composes this module with a server    *)
(* that follows the protocol.                                              *)
(***************************************************************************)
EXTENDS Semaphore, FiniteSets

CONSTANTS
  MaxInflightRequests,  \* config.maxInflightRequests
  RequestQueueDepth,    \* config.requestQueueDepth
  MaxId,                \* bound: the user issues no request once idCounter reaches it
  UserKinds             \* the operations the user calls

UnaryKinds  == {"append", "stats"}
StreamKinds == {"read", "subscribe"}

ASSUME ConfigAssumption ==
  /\ MaxInflightRequests \in Nat \ {0}
  /\ RequestQueueDepth \in Nat \ {0}
  /\ MaxId \in Nat
  /\ UserKinds \subseteq UnaryKinds \cup StreamKinds

VARIABLES
  idCounter,   \* last id handed out, to a request or to a cancel
  kind,        \* kind[id]: the operation a request id was issued for
  outcome,     \* outcome[id]: what its promise or stream settled with, or "open"
  pc,          \* pc[id]: the await its send coroutine is at, or how it ended
  pending,     \* keys of the pending map
  permitted,   \* the pending entries whose "permit" flag is set
  inflight,    \* the in-flight budget
  queueSlots,  \* the room in the outbound queue
  outbound,    \* requests queued for the writer
  priority,    \* targets of the cancels queued for the writer
  writer,      \* where the writer coroutine is
  signalled,   \* writerGate.signalled
  wire,        \* every frame handed to socket.write, in order
  dead,
  socket,      \* "open", "destroyed" (close event to come) or "closed"
  released,    \* the client closed the connection: it issues nothing more on it
  inData,      \* onData is routing the frames of a chunk
  tasks        \* the microtask queue

requestVars == <<idCounter, kind, outcome, pc>>
tableVars   == <<pending, permitted, inflight>>
writerVars  == <<queueSlots, outbound, priority, writer, signalled, wire>>
eventVars   == <<dead, socket, released, inData>>
vars == <<requestVars, tableVars, writerVars, eventVars, tasks>>

-----------------------------------------------------------------------------
HelloId == 1
Kinds == {"hello"} \cup UnaryKinds \cup StreamKinds
Outcomes == {"open", "ok", "serverError", "protocolError", "connError",
             "aborted", "ended", "tooLarge"}
\* A response frame.  "badAck" carries another protocol version, "badEvents" an
\* event that does not map, "other" a response kind the client does not know.
Responses == {"helloAck", "badAck", "append", "stats", "readEvents", "badEvents",
              "readEnd", "caughtUp", "error", "other"}

SendTask(id)   == [run |-> "send", id |-> id]
AbortTask(id)  == [run |-> "abort", id |-> id]
WriterTask     == [run |-> "writer", id |-> 0]
SendTasks(ids) == [i \in 1 .. Len(ids) |-> SendTask(ids[i])]

RequestFrame(id)  == [type |-> "request", id |-> id]
CancelFrame(id)   == [type |-> "cancel", id |-> id]
RequestFrames(ids) == [i \in 1 .. Len(ids) |-> RequestFrame(ids[i])]
CancelFrames(ids)  == [i \in 1 .. Len(ids) |-> CancelFrame(ids[i])]

Issued == DOMAIN pc
With(f, id, v) == [i \in DOMAIN f \cup {id} |-> IF i = id THEN v ELSE f[i]]

\* The constructor, and connect up to the first await of sendHelloRequest: the
\* writer is asleep at its gate, the Hello is registered and has its permit.
Init ==
  /\ idCounter = HelloId
  /\ kind = [i \in {HelloId} |-> "hello"]
  /\ outcome = [i \in {HelloId} |-> "open"]
  /\ pc = [i \in {HelloId} |-> "inflight"]
  /\ pending = {HelloId}
  /\ permitted = {}
  /\ inflight = Acquire(NewSemaphore(MaxInflightRequests), HelloId)
  /\ queueSlots = NewSemaphore(RequestQueueDepth)
  /\ outbound = <<>>
  /\ priority = <<>>
  /\ writer = "waiting"
  /\ signalled = FALSE
  /\ wire = <<>>
  /\ dead = FALSE
  /\ socket = "open"
  /\ released = FALSE
  /\ inData = FALSE
  /\ tasks = <<SendTask(HelloId)>>

-----------------------------------------------------------------------------
(* Bookkeeping shared by the operations and the events.  Each helper that   *)
(* wakes a coroutine has a companion naming the microtasks it queues.       *)

\* Mutant: the gate does not forget the waiter it resumes.
SignalKeepsWaiter ==
  /\ UNCHANGED writer
  /\ signalled' = (signalled \/ writer # "waiting")

Signal ==
  /\ writer' = IF writer = "waiting" THEN "resumed" ELSE writer
  /\ signalled' = (signalled \/ writer # "waiting")
SignalWakes == IF writer = "waiting" THEN <<WriterTask>> ELSE <<>>

\* A Deferred or a Sink keeps the first outcome it is given.
Settle(id, result) ==
  outcome' = [outcome EXCEPT ![id] = IF @ = "open" THEN result ELSE @]

\* Mutants: the entry stays in the table; its permit is kept; a permit is released
\* whether it has one or not.
FinalizeKeepsEntry(id) ==
  /\ UNCHANGED <<pending, permitted>>
  /\ inflight' = IF id \in permitted THEN Release(inflight) ELSE inflight
FinalizeLeaks(id) ==
  /\ pending' = pending \ {id}
  /\ permitted' = permitted \ {id}
  /\ UNCHANGED inflight
FinalizeReleasesAlways(id) ==
  /\ pending' = pending \ {id}
  /\ permitted' = permitted \ {id}
  /\ inflight' = Release(inflight)

Finalize(id) ==
  /\ pending' = pending \ {id}
  /\ permitted' = permitted \ {id}
  /\ inflight' = IF id \in permitted THEN Release(inflight) ELSE inflight
FinalizeWakes(id) == IF id \in permitted THEN SendTasks(Woken(inflight)) ELSE <<>>

SendCancel(target) ==
  IF dead
  THEN UNCHANGED <<idCounter, priority, writer, signalled>>
  ELSE /\ idCounter' = idCounter + 1
       /\ priority' = Append(priority, target)
       /\ Signal
CancelWakes == IF dead THEN <<>> ELSE SignalWakes

\* cancelUnary, cancelStream and abortStream, with the outcome their callers
\* give the request; "queue" is what is left to run when the call starts.
Cancel(id, result, queue) ==
  /\ IF id \in pending
     THEN /\ SendCancel(id)
          /\ Finalize(id)
          /\ tasks' = queue \o CancelWakes \o FinalizeWakes(id)
     ELSE /\ UNCHANGED <<idCounter, priority, writer, signalled, tableVars>>
          /\ tasks' = queue
  /\ Settle(id, result)
  /\ UNCHANGED <<kind, pc, queueSlots, outbound, wire>>

\* Mutant: the streams are not told.
FailedUnaryOnly == {id \in pending : kind[id] \notin StreamKinds}

\* The requests that fail with the connection: all that are pending, once.
Failed == IF dead THEN {} ELSE pending

\* Fails every pending request and wakes the writer and whoever waits for
\* outbound room, once.  The permits of the pending requests are not released,
\* and nobody who waits for one is woken.  "roused" is {"draining"} when the
\* cause is a socket event that ends waitDrain too: the writer then throws into
\* its catch block, finds the connection dead and ends.
FailConnection(roused) ==
  /\ dead' = TRUE
  /\ outcome' = [i \in DOMAIN outcome |->
                   IF i \in Failed /\ outcome[i] = "open"
                   THEN "connError" ELSE outcome[i]]
  /\ pending' = pending \ Failed
  /\ permitted' = permitted \ Failed
  /\ queueSlots' = IF dead THEN queueSlots ELSE DrainWaiters(queueSlots)
  /\ signalled' = (signalled \/ (~dead /\ writer # "waiting"))
  /\ writer' = IF (~dead /\ writer = "waiting") \/ writer \in roused
               THEN "resumed" ELSE writer
  /\ tasks' = tasks
        \o (IF dead THEN <<>> ELSE SignalWakes \o SendTasks(Drained(queueSlots)))
        \o (IF writer \in roused THEN <<WriterTask>> ELSE <<>>)
  /\ UNCHANGED <<idCounter, kind, pc, inflight, outbound, priority, wire>>

-----------------------------------------------------------------------------
(* Calls of the user.                                                      *)

\* The connection is handed out once its Hello is acknowledged.
Connected == outcome[HelloId] = "ok"
MayCall == ~inData /\ Connected
MayIssue(k) == MayCall /\ ~released /\ k \in UserKinds /\ idCounter < MaxId

\* Registers a request and runs its send coroutine to the first await.
Register(id, k, result) ==
  /\ kind' = With(kind, id, k)
  /\ outcome' = With(outcome, id, result)
  /\ pc' = With(pc, id, "inflight")
  /\ inflight' = Acquire(inflight, id)
  /\ UNCHANGED <<queueSlots, outbound, wire, eventVars>>
RegisterWakes(id) == SendTasks(Granted(inflight, id))

Open(k, first) ==
  LET id == idCounter + 1 IN
  /\ idCounter' = id
  /\ Register(id, k, "open")
  /\ pending' = pending \cup {id}
  /\ tasks' = tasks \o first \o RegisterWakes(id)
  /\ UNCHANGED <<permitted, priority, writer, signalled>>

\* A unary call on a dead connection is rejected before it takes an id.
Unary(k) ==
  /\ k \in UnaryKinds /\ MayIssue(k)
  /\ ~dead
  /\ Open(k, <<>>)

\* With an already aborted signal the request is cancelled, and its cancel
\* queued, before its send coroutine starts.
UnaryPreAborted(k) ==
  LET id == idCounter + 1 IN
  /\ k \in UnaryKinds /\ MayIssue(k)
  /\ ~dead
  /\ idCounter' = id + 1
  /\ Register(id, k, "aborted")
  /\ priority' = Append(priority, id)
  /\ Signal
  /\ tasks' = tasks \o SignalWakes \o RegisterWakes(id)
  /\ UNCHANGED <<pending, permitted>>

Stream(k) ==
  /\ k \in StreamKinds /\ MayIssue(k)
  /\ Open(k, <<>>)

\* With an already aborted signal the stream aborts in a microtask of its own,
\* queued before the send coroutine takes a permit.
StreamPreAborted(k) ==
  /\ k \in StreamKinds /\ MayIssue(k)
  /\ Open(k, <<AbortTask(idCounter + 1)>>)

\* The signal of an open request fires, or the consumer of a stream closes it.
AbortUnary(id) ==
  /\ MayCall /\ id \in pending /\ kind[id] \in UnaryKinds
  /\ Cancel(id, "aborted", tasks)
  /\ UNCHANGED eventVars

StopStream(id, result) ==
  /\ MayCall /\ kind[id] \in StreamKinds
  /\ outcome[id] = "open"
  /\ Cancel(id, result, tasks)
  /\ UNCHANGED eventVars

Destroy ==
  /\ FailConnection({})
  /\ socket' = IF socket = "open" THEN "destroyed" ELSE socket
  /\ released' = TRUE
  /\ UNCHANGED inData

Close ==
  /\ MayCall /\ ~released
  /\ Destroy

\* Mutant: the failed connection is abandoned without closing its socket.
ConnectFailsOpen ==
  /\ ~inData
  /\ ~released /\ outcome[HelloId] \notin {"open", "ok"}
  /\ FailConnection({})
  /\ released' = TRUE
  /\ UNCHANGED <<socket, inData>>

\* connect closes the connection when its Hello fails.
ConnectFails ==
  /\ ~inData
  /\ ~released /\ outcome[HelloId] \notin {"open", "ok"}
  /\ Destroy

UserCall ==
  \/ \E k \in UserKinds :
       Unary(k) \/ UnaryPreAborted(k) \/ Stream(k) \/ StreamPreAborted(k)
  \/ \E id \in Issued :
       \/ AbortUnary(id)
       \/ \E result \in {"aborted", "ended"} : StopStream(id, result)
  \/ Close
  \/ ConnectFails

-----------------------------------------------------------------------------
(* Microtasks.                                                             *)

Running(run, id) ==
  /\ ~inData
  /\ tasks # <<>>
  /\ Head(tasks) = [run |-> run, id |-> id]

\* The send coroutine resumes with an in-flight permit.  Its request is gone
\* (cancelled or failed meanwhile), or the connection is dead, or the frame
\* exceeds maxFrameLen: the permit goes back.
GiveUp(id, result) ==
  /\ pc' = [pc EXCEPT ![id] = "dropped"]
  /\ pending' = pending \ {id}
  /\ inflight' = Release(inflight)
  /\ tasks' = Tail(tasks) \o SendTasks(Woken(inflight))
  /\ IF id \in pending THEN Settle(id, result) ELSE UNCHANGED outcome
  /\ UNCHANGED <<idCounter, kind, permitted, writerVars, eventVars>>

ResumeGone(id) ==
  /\ Running("send", id) /\ pc[id] = "inflight"
  /\ id \notin pending
  /\ GiveUp(id, "connError")

ResumeDead(id) ==
  /\ Running("send", id) /\ pc[id] = "inflight"
  /\ id \in pending /\ dead
  /\ GiveUp(id, "connError")

ResumeTooLarge(id) ==
  /\ Running("send", id) /\ pc[id] = "inflight"
  /\ id \in pending /\ ~dead
  /\ GiveUp(id, "tooLarge")

\* Otherwise the entry takes over the permit and the coroutine asks for a slot.
TakePermit(id) ==
  /\ permitted' = permitted \cup {id}
  /\ pc' = [pc EXCEPT ![id] = "slot"]
  /\ queueSlots' = Acquire(queueSlots, id)
  /\ tasks' = Tail(tasks) \o SendTasks(Granted(queueSlots, id))
  /\ UNCHANGED <<idCounter, kind, outcome, pending, inflight, outbound, priority,
                 writer, signalled, wire, eventVars>>

\* Mutants: after the await the coroutine does not look whether the connection
\* died, or whether its request is still there.
ResumeBlindToDeath(id) ==
  /\ Running("send", id) /\ pc[id] = "inflight"
  /\ id \in pending
  /\ TakePermit(id)
ResumeBlindToCancel(id) ==
  /\ Running("send", id) /\ pc[id] = "inflight"
  /\ ~dead
  /\ TakePermit(id)

ResumePermitted(id) ==
  /\ Running("send", id) /\ pc[id] = "inflight"
  /\ id \in pending /\ ~dead
  /\ TakePermit(id)

\* The send coroutine resumes with a slot.  A request cancelled since it got its
\* permit is queued all the same.
ResumeQueued(id) ==
  /\ Running("send", id) /\ pc[id] = "slot"
  /\ ~dead
  /\ pc' = [pc EXCEPT ![id] = "queued"]
  /\ outbound' = Append(outbound, id)
  /\ Signal
  /\ tasks' = Tail(tasks) \o SignalWakes
  /\ UNCHANGED <<idCounter, kind, outcome, tableVars, queueSlots, priority, wire,
                 eventVars>>

\* After the connection died the slot goes back.  The catch block that runs a
\* microtask later finds no entry left to finalize (DeadPendingUnsent).
ResumeSlotDead(id) ==
  /\ Running("send", id) /\ pc[id] = "slot"
  /\ dead
  /\ pc' = [pc EXCEPT ![id] = "dropped"]
  /\ queueSlots' = Release(queueSlots)
  /\ tasks' = Tail(tasks) \o SendTasks(Woken(queueSlots))
  /\ UNCHANGED <<idCounter, kind, outcome, tableVars, outbound, priority, writer,
                 signalled, wire, eventVars>>

\* The queued abort of a stream whose signal was aborted before the call.
RunAbort(id) ==
  /\ Running("abort", id)
  /\ IF outcome[id] = "open"
     THEN Cancel(id, "aborted", Tail(tasks))
     ELSE tasks' = Tail(tasks) /\ UNCHANGED <<requestVars, tableVars, writerVars>>
  /\ UNCHANGED eventVars

\* Gate.wait with both queues empty: consume a stored signal or go to sleep.
GateWait(queue) ==
  /\ signalled' = FALSE
  /\ writer' = IF signalled THEN "resumed" ELSE "waiting"
  /\ tasks' = IF signalled THEN Append(queue, WriterTask) ELSE queue

WriterExits ==
  /\ Running("writer", 0)
  /\ dead
  /\ writer' = "exited"
  /\ tasks' = Tail(tasks)
  /\ UNCHANGED <<requestVars, tableVars, queueSlots, outbound, priority, signalled,
                 wire, eventVars>>

\* Mutant: the writer looks at one of its two queues only.
WriterIdlesOnRequests ==
  /\ Running("writer", 0)
  /\ ~dead /\ outbound = <<>>
  /\ GateWait(Tail(tasks))
  /\ UNCHANGED <<requestVars, tableVars, queueSlots, outbound, priority, wire,
                 eventVars>>

WriterIdles ==
  /\ Running("writer", 0)
  /\ ~dead /\ outbound = <<>> /\ priority = <<>>
  /\ GateWait(Tail(tasks))
  /\ UNCHANGED <<requestVars, tableVars, queueSlots, outbound, priority, wire,
                 eventVars>>

\* One write takes all that is queued, cancels first, and frees "freed" slots.  A
\* full socket buffer sends the writer to wait for drain.
Write(freed, buffered) ==
  LET left == Tail(tasks) \o SendTasks(WokenN(queueSlots, freed)) IN
  /\ Running("writer", 0)
  /\ outbound # <<>> \/ priority # <<>>
  /\ wire' = wire \o CancelFrames(priority) \o RequestFrames(outbound)
  /\ priority' = <<>>
  /\ outbound' = <<>>
  /\ queueSlots' = ReleaseN(queueSlots, freed)
  /\ IF buffered
     THEN GateWait(left)
     ELSE writer' = "draining" /\ tasks' = left /\ UNCHANGED signalled
  /\ UNCHANGED <<requestVars, tableVars, eventVars>>

\* Mutants: a writer that was roused by the death of the connection writes all the
\* same; the cancels of a batch free slots they never took.
WriterIgnoresDeath(buffered) == Write(Len(outbound), buffered)
WriterFreesForCancels(buffered) ==
  ~dead /\ Write(Len(priority) + Len(outbound), buffered)

\* A slot per request written.
WriterWrites(buffered) == ~dead /\ Write(Len(outbound), buffered)

Microtask ==
  \/ \E id \in Issued :
       \/ ResumeGone(id) \/ ResumeDead(id) \/ ResumeTooLarge(id)
       \/ ResumePermitted(id) \/ ResumeQueued(id) \/ ResumeSlotDead(id)
       \/ RunAbort(id)
  \/ WriterExits
  \/ WriterIdles
  \/ \E buffered \in BOOLEAN : WriterWrites(buffered)

-----------------------------------------------------------------------------
(* Socket events.                                                          *)

\* An event of the socket is due only when no microtask is.
EventDue == ~inData /\ tasks = <<>>

\* onData takes the next frame of a chunk: a new chunk is an event of its own.
FrameDue == socket = "open" /\ (inData \/ EventDue)

Answer(id, result) ==
  /\ Finalize(id)
  /\ Settle(id, result)
  /\ tasks' = tasks \o FinalizeWakes(id)
  /\ UNCHANGED <<idCounter, kind, pc, writerVars>>

RouteHello(id, response) ==
  /\ kind[id] = "hello"
  /\ Answer(id, CASE response = "helloAck" -> "ok"
                  [] response = "error"    -> "serverError"
                  [] OTHER                 -> "protocolError")

RouteUnary(id, response) ==
  /\ kind[id] \in UnaryKinds
  /\ Answer(id, CASE response = "error"  -> "serverError"
                  [] response = kind[id] -> "ok"
                  [] OTHER               -> "protocolError")

\* Items of a stream: no state of the connection changes.
ItemsOfReads(k) == {"readEvents"}  \* mutant: subscriptions do not know caughtUp
Items(k) == IF k = "subscribe" THEN {"readEvents", "caughtUp"} ELSE {"readEvents"}

RouteItem(id, response) ==
  /\ kind[id] \in StreamKinds /\ response \in Items(kind[id])
  /\ UNCHANGED <<requestVars, tableVars, writerVars, tasks>>

RouteEnd(id, response) ==
  \/ /\ kind[id] = "read" /\ response = "readEnd"
     /\ Answer(id, "ok")
  \/ /\ kind[id] \in StreamKinds /\ response = "error"
     /\ Answer(id, "serverError")

\* Any other response to a stream: it is cancelled at the server and failed.
RouteMismatch(id, response) ==
  /\ kind[id] \in StreamKinds
  /\ response \notin Items(kind[id]) \cup {"error"}
  /\ ~(kind[id] = "read" /\ response = "readEnd")
  /\ Cancel(id, "protocolError", tasks)

\* A response to a pending request.
Route(id, response) ==
  /\ FrameDue
  /\ id \in pending
  /\ inData' = TRUE
  /\ \/ RouteHello(id, response)
     \/ RouteUnary(id, response)
     \/ RouteItem(id, response)
     \/ RouteEnd(id, response)
     \/ RouteMismatch(id, response)
  /\ UNCHANGED <<dead, socket, released>>

\* A late response, to a request answered, cancelled or never made, and an
\* unattributed frame other than an error are ignored.
RouteUnknown ==
  /\ FrameDue
  /\ inData' = TRUE
  /\ UNCHANGED <<requestVars, tableVars, writerVars, dead, socket, released, tasks>>

\* An error the server could not attribute fails the connection; the rest of the
\* chunk is routed all the same.
RouteUnattributed ==
  /\ FrameDue
  /\ inData' = TRUE
  /\ FailConnection({})
  /\ UNCHANGED <<socket, released>>

EndChunk ==
  /\ inData
  /\ inData' = FALSE
  /\ UNCHANGED <<requestVars, tableVars, writerVars, dead, socket, released, tasks>>

\* A frame that does not decode drops the rest of its chunk; a length over
\* maxFrameLen drops the whole chunk.  The socket stays open.
BadFrame ==
  /\ FrameDue
  /\ FailConnection({})
  /\ inData' = FALSE
  /\ UNCHANGED <<socket, released>>

DrainEvent ==
  /\ EventDue /\ socket = "open" /\ writer = "draining"
  /\ writer' = "resumed"
  /\ tasks' = <<WriterTask>>
  /\ UNCHANGED <<requestVars, tableVars, queueSlots, outbound, priority, signalled,
                 wire, eventVars>>

SocketError ==
  /\ EventDue /\ socket = "open"
  /\ socket' = "destroyed"
  /\ FailConnection({"draining"})
  /\ UNCHANGED <<released, inData>>

SocketClose ==
  /\ EventDue /\ socket # "closed"
  /\ socket' = "closed"
  /\ FailConnection({"draining"})
  /\ UNCHANGED <<released, inData>>

LocalEvent == EndChunk \/ DrainEvent \/ SocketError \/ SocketClose

Next ==
  \/ UserCall
  \/ Microtask
  \/ \E id \in pending, response \in Responses : Route(id, response)
  \/ RouteUnknown
  \/ RouteUnattributed
  \/ BadFrame
  \/ LocalEvent

Spec == Init /\ [][Next]_vars

-----------------------------------------------------------------------------
(* Properties.                                                             *)

Task == [run : {"send", "abort", "writer"}, id : Nat]
Frame == [type : {"request", "cancel"}, id : Nat]
SemaphoreState == [permits : Nat, waiters : Seq(Nat)]

\* Type correctness: every variable of the connection keeps its shape, and every
\* request has a number the counter has passed.
TypeOK ==
  /\ idCounter \in Nat \ {0}
  /\ Issued \subseteq 1 .. idCounter
  /\ kind \in [Issued -> Kinds]
  /\ outcome \in [Issued -> Outcomes]
  /\ pc \in [Issued -> {"inflight", "slot", "queued", "dropped"}]
  /\ pending \subseteq Issued
  /\ permitted \subseteq Issued
  /\ inflight \in SemaphoreState
  /\ queueSlots \in SemaphoreState
  /\ outbound \in Seq(Nat)
  /\ priority \in Seq(Nat)
  /\ wire \in Seq(Frame)
  /\ writer \in {"waiting", "resumed", "draining", "exited"}
  /\ signalled \in BOOLEAN
  /\ dead \in BOOLEAN
  /\ socket \in {"open", "destroyed", "closed"}
  /\ released \in BOOLEAN
  /\ inData \in BOOLEAN
  /\ tasks \in Seq(Task)

\* The requests that hold an in-flight permit: those granted one whose coroutine
\* has not resumed yet, and the entries that have taken theirs over.
Granting == {id \in Issued : pc[id] = "inflight"} \ Waiting(inflight)
Holding == Granting \cup permitted

\* The in-flight budget neither leaks nor grows, whatever is cancelled, refused,
\* answered or too large along the way; once the connection is dead permits may
\* be lost (the failed entries keep theirs) but never minted.
InflightBudget ==
  LET total == inflight.permits + Cardinality(Holding) IN
  /\ total <= MaxInflightRequests
  /\ ~dead => total = MaxInflightRequests

\* Who owns a permit is never in doubt: a coroutine that waits for one is in the
\* budget's queue once and is not also due to resume, an entry takes a permit over
\* only from a coroutine past its await, and a dead connection has no entry that
\* would release one.
Senders(queue) == {queue[i].id : i \in {j \in 1 .. Len(queue) : queue[j].run = "send"}}
PermitOwners ==
  /\ \A i, j \in 1 .. Len(inflight.waiters) :
       inflight.waiters[i] = inflight.waiters[j] => i = j
  /\ Waiting(inflight) \subseteq {id \in Issued : pc[id] = "inflight"}
  /\ Waiting(queueSlots) \subseteq {id \in Issued : pc[id] # "inflight"}
  /\ Senders(tasks) \subseteq Issued \ Waiting(inflight)
  /\ permitted \subseteq {id \in pending : pc[id] \in {"slot", "queued"}}
  /\ dead => permitted = {}

\* Every slot of the outbound queue is free, granted to a coroutine about to
\* resume, or taken by a queued frame, while the connection lives; so the queue
\* is never longer than its configured depth.
Slotted == {id \in Issued : pc[id] = "slot"} \ Waiting(queueSlots)
QueueDepth ==
  ~dead => queueSlots.permits + Cardinality(Slotted) + Len(outbound) = RequestQueueDepth

\* The pending map holds exactly the requests not settled yet: an unsettled
\* request missing from it could never be answered or failed, a settled one left
\* in it would keep its permit.
PendingIsOpen == \A id \in Issued : id \in pending <=> outcome[id] = "open"

\* A request registered after the connection died never gets as far as a permit
\* or a slot, so no send coroutine of a dead connection has an entry to clean up.
DeadPendingUnsent == dead => \A id \in pending : pc[id] = "inflight"

\* Requests reach the socket in the order they were issued, through two
\* semaphores, the microtask queue and the batching writer: what is written or
\* queued is increasing, and nothing older is still on its way.
Departing == wire \o RequestFrames(outbound)
InIssueOrder ==
  /\ \A i, j \in 1 .. Len(Departing) :
       i < j /\ Departing[i].type = "request" /\ Departing[j].type = "request"
         => Departing[i].id < Departing[j].id
  /\ \A id \in Issued : pc[id] \in {"inflight", "slot"} =>
       \A i \in 1 .. Len(Departing) : Departing[i].type = "request" => Departing[i].id < id

\* No wake-up is lost: a writer asleep at its gate has nothing to write, and the
\* connection is alive (on death it must wake to end).
WriterAsleepIdle == writer = "waiting" => ~dead /\ outbound = <<>> /\ priority = <<>>

\* Each suspended coroutine is woken by exactly one party: it is in one wait
\* queue or once in the microtask queue, never in two and never twice.
TaskCount(t) == Cardinality({i \in 1 .. Len(tasks) : tasks[i] = t})
WaitCount(s, id) == Cardinality({i \in 1 .. Len(s.waiters) : s.waiters[i] = id})
WokenOnce ==
  /\ \A id \in Issued :
       TaskCount(SendTask(id)) + WaitCount(inflight, id) + WaitCount(queueSlots, id) =
         IF pc[id] \in {"inflight", "slot"} THEN 1 ELSE 0
  /\ TaskCount(WriterTask) = IF writer = "resumed" THEN 1 ELSE 0

\* A request cancelled or failed while it waits for a permit is never sent: the
\* coroutine looks again after its await.
GoneIsNotSent ==
  [][\A id \in Issued : pc[id] = "inflight" /\ outcome[id] # "open"
                          => pc'[id] \in {"inflight", "dropped"}]_vars

\* Nothing is written to the socket once the connection is dead, though frames
\* were queued when it died.
SilentWhenDead == [][dead => wire' = wire]_vars

\* The docs' promise that no caller of a lost connection is left hanging, as a
\* state: on a dead connection with nothing left to run, every request is settled.
NoCallerHangs == dead /\ tasks = <<>> /\ ~inData => \A id \in Issued : outcome[id] # "open"
=============================================================================
