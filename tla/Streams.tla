------------------------------ MODULE Streams ------------------------------
(***************************************************************************)
(* One stream of results: the Sink and the BaseStream of streams.ts, the   *)
(* connection reader that feeds it, and the loops that iterate it.         *)
(*                                                                         *)
(* "tasks" is the microtask queue, as in Connection.tla: an abort that was *)
(* requested before the stream existed, and the loops whose next() has     *)
(* been settled.  Items are numbered in the order they arrive.  The reader *)
(* hands over the items of one frame, and the frames of one chunk, without *)
(* a microtask in between (inData).                                        *)
(*                                                                         *)
(* Each of Consumers runs a "for await" over the same stream, pausing      *)
(* wherever its body does; collect() is the loop that never pauses and     *)
(* never breaks.                                                           *)
(***************************************************************************)
EXTENDS Naturals, Sequences, FiniteSets

CONSTANTS
  Consumers,   \* the loops over the stream
  MaxItems,    \* bound: the reader delivers no more items than this
  MaxFrame     \* bound: a frame carries at most this many

ASSUME StreamAssumption == MaxItems \in Nat /\ MaxFrame \in Nat /\ IsFiniteSet(Consumers)

VARIABLES
  kind,          \* "read" or "subscribe"
  signal,        \* the AbortSignal: "none", "armed" (listened to), "detached" or "aborted"
  pending,       \* the connection's table holds the stream's entry
  cancels,       \* how many cancels the stream had sent
  queue,         \* Sink.queue
  waiting,       \* Sink.waiting: the consumer whose next() is not settled, if any
  done,          \* Sink.done
  terminalError, \* Sink.terminalError: its class, or "none"
  closed,
  watermark,     \* watermarkValue: "undefined" or "set"
  loop,          \* loop[c]: where the loop of consumer c is, or how it ended
  arrived,       \* how many items the reader handed to the stream
  yielded,       \* every item a next() was settled with, in order
  inData,        \* the reader is routing the frames of a chunk
  tasks          \* the microtask queue

sinkVars == <<queue, waiting, done, terminalError>>
baseVars == <<closed, watermark, pending, cancels>>
historyVars == <<arrived, yielded>>
vars == <<kind, signal, sinkVars, baseVars, loop, historyVars, inData, tasks>>

-----------------------------------------------------------------------------
Errors == {"aborted", "connError", "serverError", "protocolError"}

AbortTask == [run |-> "abort"]
Settled(c, how) == [run |-> "loop", who |-> c, how |-> how]

Init ==
  /\ kind \in {"read", "subscribe"}
  /\ signal \in {"none", "armed", "aborted"}
  /\ pending = TRUE
  /\ cancels = 0
  /\ queue = <<>>
  /\ waiting = {}
  /\ done = FALSE
  /\ terminalError = "none"
  /\ closed = FALSE
  /\ watermark = "undefined"
  /\ loop = [c \in Consumers |-> "body"]
  /\ arrived = 0
  /\ yielded = <<>>
  /\ inData = FALSE
  /\ tasks = IF signal = "aborted" THEN <<AbortTask>> ELSE <<>>

-----------------------------------------------------------------------------
(* The sink.                                                               *)

\* The microtask of the consumer that waits, if there is one.
Woken(how) == IF waiting = {} THEN <<>> ELSE <<Settled(CHOOSE c \in waiting : TRUE, how)>>

\* Mutant: the item that settles a waiting next() is queued as well.
PushTwice(n) ==
  LET items == [i \in 1 .. n |-> arrived + i] IN
  /\ queue' = queue \o items
  /\ waiting' = {}
  /\ yielded' = IF waiting = {} \/ n = 0 THEN yielded ELSE Append(yielded, arrived + 1)
  /\ tasks' = tasks \o (IF n = 0 THEN <<>> ELSE Woken("item"))
  /\ UNCHANGED <<done, terminalError>>

\* push, once per item of a frame: the first goes to whoever waits.
Push(n) ==
  LET items == [i \in 1 .. n |-> arrived + i] IN
  \/ /\ done \/ n = 0
     /\ UNCHANGED <<sinkVars, yielded, tasks>>
  \/ /\ ~done /\ n > 0 /\ waiting = {}
     /\ queue' = queue \o items
     /\ UNCHANGED <<waiting, done, terminalError, yielded, tasks>>
  \/ /\ ~done /\ n > 0 /\ waiting # {}
     /\ queue' = queue \o Tail(items)
     /\ waiting' = {}
     /\ yielded' = Append(yielded, Head(items))
     /\ tasks' = tasks \o Woken("item")
     /\ UNCHANGED <<done, terminalError>>

\* Mutant: the end does not settle a next() that waits.
SinkEndAsleep(error, left) ==
  /\ done' = TRUE
  /\ terminalError' = IF done THEN terminalError ELSE error
  /\ tasks' = left
  /\ UNCHANGED <<queue, waiting>>

\* finish (no error) and fail: the first to come decides how the stream ends.
SinkEnd(error, left) ==
  \/ /\ done
     /\ tasks' = left
     /\ UNCHANGED sinkVars
  \/ /\ ~done
     /\ done' = TRUE
     /\ terminalError' = error
     /\ waiting' = {}
     /\ tasks' = left \o Woken(IF error = "none" THEN "finished" ELSE "failed")
     /\ UNCHANGED queue

-----------------------------------------------------------------------------
(* The stream.  Each end of it marks it closed and detaches the listener.  *)

Detached == IF signal = "armed" THEN "detached" ELSE signal

\* Mutant: the stream forgets that it is closed.
EndStreamOpen(error, told, left) ==
  /\ UNCHANGED closed
  /\ signal' = Detached
  /\ pending' = FALSE
  /\ cancels' = IF told /\ pending THEN cancels + 1 ELSE cancels
  /\ SinkEnd(error, left)
  /\ UNCHANGED <<kind, historyVars>>

\* The entry leaves the connection's table; "told" says whether a cancel is sent.
EndStream(error, told, left) ==
  /\ closed' = TRUE
  /\ signal' = Detached
  /\ pending' = FALSE
  /\ cancels' = IF told /\ pending THEN cancels + 1 ELSE cancels
  /\ SinkEnd(error, left)
  /\ UNCHANGED <<kind, historyVars>>

-----------------------------------------------------------------------------
(* The connection reader.                                                  *)

FrameDue == pending /\ (inData \/ tasks = <<>>)

\* A frame of events that map, or a caught-up marker.
Deliver(n) ==
  /\ FrameDue /\ arrived + n <= MaxItems
  /\ inData' = TRUE
  /\ arrived' = arrived + n
  /\ Push(n)
  /\ UNCHANGED <<kind, signal, baseVars, loop>>

\* Mutant: the read is ended as a cancelled stream is.
EndWithCancel ==
  /\ FrameDue /\ kind = "read"
  /\ inData' = TRUE
  /\ watermark' = "set"
  /\ EndStream("none", TRUE, tasks)
  /\ UNCHANGED loop

\* The terminating frame of a read.
EndWith ==
  /\ FrameDue /\ kind = "read"
  /\ inData' = TRUE
  /\ watermark' = "set"
  /\ EndStream("none", FALSE, tasks)
  /\ UNCHANGED loop

ServerError ==
  /\ FrameDue
  /\ inData' = TRUE
  /\ EndStream("serverError", FALSE, tasks)
  /\ UNCHANGED <<watermark, loop>>

\* A frame of the wrong kind, or one with an event that does not map: none of its
\* events is delivered, and the server is told to stop.
Mismatch ==
  /\ FrameDue
  /\ inData' = TRUE
  /\ EndStream("protocolError", TRUE, tasks)
  /\ UNCHANGED <<watermark, loop>>

EndChunk ==
  /\ inData
  /\ inData' = FALSE
  /\ UNCHANGED <<kind, signal, sinkVars, baseVars, loop, historyVars, tasks>>

\* The connection fails: by a frame, a socket event or a close of the client.
ConnectionFails ==
  /\ pending
  /\ EndStream("connError", FALSE, tasks)
  /\ UNCHANGED <<watermark, loop, inData>>

Reader ==
  \/ \E n \in 0 .. MaxFrame : Deliver(n)
  \/ EndWith \/ ServerError \/ Mismatch \/ EndChunk \/ ConnectionFails

-----------------------------------------------------------------------------
(* The callers.                                                            *)

MayCall == ~inData

\* The listener of the signal fires.
Abort ==
  /\ MayCall /\ signal = "armed"
  /\ EndStream("aborted", TRUE, tasks)
  /\ UNCHANGED <<watermark, loop, inData>>

\* close(), by anyone who holds the stream.
Close ==
  /\ MayCall /\ ~closed
  /\ EndStream("none", TRUE, tasks)
  /\ UNCHANGED <<watermark, loop, inData>>

\* next() with an item in the queue, on an ended stream, on one that another loop
\* waits for, and otherwise.
NextItem(c) ==
  /\ queue # <<>>
  /\ queue' = Tail(queue)
  /\ yielded' = Append(yielded, Head(queue))
  /\ tasks' = Append(tasks, Settled(c, "item"))
  /\ UNCHANGED <<waiting, done, terminalError>>

\* Mutant: the end is looked at before the queue.
NextEndFirst(c) ==
  /\ done
  /\ tasks' = Append(tasks, Settled(c, IF terminalError = "none" THEN "finished" ELSE "failed"))
  /\ UNCHANGED <<sinkVars, yielded>>

NextEnd(c) ==
  /\ queue = <<>> /\ done
  /\ tasks' = Append(tasks, Settled(c, IF terminalError = "none" THEN "finished" ELSE "failed"))
  /\ UNCHANGED <<sinkVars, yielded>>

NextRefused(c) ==
  /\ queue = <<>> /\ ~done /\ waiting # {}
  /\ tasks' = Append(tasks, Settled(c, "refused"))
  /\ UNCHANGED <<sinkVars, yielded>>

NextWaits(c) ==
  /\ queue = <<>> /\ ~done /\ waiting = {}
  /\ waiting' = {c}
  /\ UNCHANGED <<queue, done, terminalError, yielded, tasks>>

CallNext(c) ==
  /\ MayCall /\ loop[c] = "body"
  /\ loop' = [loop EXCEPT ![c] = "awaiting"]
  /\ NextItem(c) \/ NextEnd(c) \/ NextRefused(c) \/ NextWaits(c)
  /\ UNCHANGED <<kind, signal, baseVars, arrived, inData>>

\* break: the iterator's return() closes the stream, unless it is closed.
Break(c) ==
  /\ MayCall /\ loop[c] = "body"
  /\ loop' = [loop EXCEPT ![c] = "broke"]
  /\ IF closed THEN UNCHANGED <<kind, signal, closed, pending, cancels, sinkVars, historyVars, tasks>>
               ELSE EndStream("none", TRUE, tasks)
  /\ UNCHANGED <<watermark, inData>>

\* Mutant: the loop takes an item for its end.
ResumeLoopOnce(c) ==
  /\ ~inData /\ tasks # <<>> /\ Head(tasks).run = "loop" /\ Head(tasks).who = c
  /\ loop' = [loop EXCEPT ![c] = Head(tasks).how]
  /\ tasks' = Tail(tasks)
  /\ UNCHANGED <<kind, signal, sinkVars, baseVars, historyVars, inData>>

\* Microtasks: the loop resumes with what its next() was settled with.
ResumeLoop(c) ==
  /\ ~inData /\ tasks # <<>> /\ Head(tasks).run = "loop" /\ Head(tasks).who = c
  /\ loop' = [loop EXCEPT ![c] = IF Head(tasks).how = "item" THEN "body" ELSE Head(tasks).how]
  /\ tasks' = Tail(tasks)
  /\ UNCHANGED <<kind, signal, sinkVars, baseVars, historyVars, inData>>

RunAbort ==
  /\ ~inData /\ tasks # <<>> /\ Head(tasks) = AbortTask
  /\ IF closed THEN /\ tasks' = Tail(tasks)
                    /\ UNCHANGED <<kind, signal, closed, pending, cancels, sinkVars, historyVars>>
               ELSE EndStream("aborted", TRUE, Tail(tasks))
  /\ UNCHANGED <<watermark, loop, inData>>

Microtask == RunAbort \/ \E c \in Consumers : ResumeLoop(c)

Next ==
  \/ Reader
  \/ Abort \/ Close
  \/ \E c \in Consumers : CallNext(c) \/ Break(c)
  \/ Microtask

Spec == Init /\ [][Next]_vars

\* The event loop runs; every consumer calls next() again, as collect does, unless
\* it breaks.
FairSpec ==
  /\ Spec
  /\ WF_vars(Microtask) /\ WF_vars(EndChunk)
  /\ \A c \in Consumers : WF_vars(CallNext(c))

-----------------------------------------------------------------------------
(* Properties.                                                             *)

Task == {AbortTask} \cup
        [run : {"loop"}, who : Consumers, how : {"item", "finished", "failed", "refused"}]

\* Type correctness: every variable of the stream keeps its shape.
TypeOK ==
  /\ kind \in {"read", "subscribe"}
  /\ signal \in {"none", "armed", "detached", "aborted"}
  /\ pending \in BOOLEAN
  /\ cancels \in Nat
  /\ queue \in Seq(Nat)
  /\ waiting \subseteq Consumers
  /\ done \in BOOLEAN
  /\ terminalError \in Errors \cup {"none"}
  /\ closed \in BOOLEAN
  /\ watermark \in {"undefined", "set"}
  /\ loop \in [Consumers -> {"body", "awaiting", "finished", "failed", "refused", "broke"}]
  /\ arrived \in Nat
  /\ yielded \in Seq(Nat)
  /\ inData \in BOOLEAN
  /\ tasks \in Seq(Task)

\* No item is lost, given twice or reordered, whoever takes it and whether it
\* found a loop waiting or went through the buffer.
EveryItemOnce == yielded \o queue = [i \in 1 .. arrived |-> i]

\* The three flags that say a stream has ended, the connection's entry, "closed"
\* and the sink's "done", agree between steps: a stream with an entry would be
\* fed after its end, one without and not done would be waited for in vain.
OneEnd == pending = ~closed /\ closed = done

\* A loop that awaits is either the one the sink will settle, or has exactly one
\* settled next() on its way; the sink lets no loop wait for what it holds.
LoopAwaited ==
  /\ waiting # {} => queue = <<>> /\ ~done
  /\ \A c \in Consumers :
       Cardinality({i \in 1 .. Len(tasks) : tasks[i].run = "loop" /\ tasks[i].who = c})
         + (IF c \in waiting THEN 1 ELSE 0) = IF loop[c] = "awaiting" THEN 1 ELSE 0

\* A read that has its watermark ended cleanly at the server's word: no error, no
\* cancel, so that what it delivered is all there was.
WatermarkIsFinal ==
  watermark = "set" => kind = "read" /\ done /\ terminalError = "none" /\ cancels = 0

\* The stream keeps the promise of Feed.
Ended == IF ~done THEN "open" ELSE IF terminalError = "none" THEN "clean" ELSE "failed"
ToldOf(how) == CASE how = "finished" -> "clean" [] how = "failed" -> "failed" [] OTHER -> "nothing"
Promise == INSTANCE Feed WITH
  Readers <- Consumers, taken <- arrived, given <- Len(yielded), end <- Ended,
  told <- [c \in Consumers |-> ToldOf(loop[c])]
KeepsPromise == Promise!Spec

\* Once a stream has ended, by whatever cause, every loop over it that keeps
\* calling next() drains the buffer and ends too.
LoopsEnd == done ~> \A c \in Consumers : loop[c] \notin {"body", "awaiting"}

\* collect() is documented to drain the whole stream and return the read's
\* watermark: a loop that ends without an error has the watermark.
CollectIsWhole ==
  kind = "read" => \A c \in Consumers : loop[c] = "finished" => watermark = "set"
=============================================================================
