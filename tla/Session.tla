------------------------------ MODULE Session ------------------------------
(***************************************************************************)
(* A connection and the server at its other end.  The server is external:  *)
(* it is modelled from what connection.ts expects of it.  It takes the     *)
(* frames in the order they were written, serves every request until its   *)
(* last response, answers with the kinds of the request, and stops serving *)
(* a request when its cancel arrives.  A response is routed in the step    *)
(* that sends it; that it may find its request gone stands for the time it *)
(* was on its way.  Frames may still arrive garbled, and the server may    *)
(* report an error that belongs to no request: the connection does not     *)
(* outlive either.                                                         *)
(***************************************************************************)
EXTENDS Connection

VARIABLES
  taken,    \* how many frames of the wire the server has taken
  serving   \* the requests it has taken and not finished

serverVars == <<taken, serving>>
sessionVars == <<vars, serverVars>>

SessionInit == Init /\ taken = 0 /\ serving = {}

ItemReplies(k) == IF k = "subscribe" THEN {"readEvents", "caughtUp"} ELSE {"readEvents"}
FinalReplies(k) ==
  CASE k = "hello" -> {"helloAck", "error"}
    [] k = "read" -> {"readEnd", "error"}
    [] k = "subscribe" -> {"error"}
    [] OTHER -> {k, "error"}

ServerTakes ==
  /\ socket = "open" /\ taken < Len(wire)
  /\ taken' = taken + 1
  /\ LET frame == wire[taken + 1] IN
       serving' = IF frame.type = "request" THEN serving \cup {frame.id}
                                            ELSE serving \ {frame.id}
  /\ UNCHANGED vars

Delivered(id, response) == IF id \in pending THEN Route(id, response) ELSE RouteUnknown

\* A last response, and an item of a stream.
ServerFinishes(id) ==
  /\ id \in serving
  /\ \E response \in FinalReplies(kind[id]) : Delivered(id, response)
  /\ serving' = serving \ {id}
  /\ UNCHANGED taken

ServerSends(id) ==
  /\ id \in serving /\ kind[id] \in StreamKinds
  /\ \E response \in ItemReplies(kind[id]) : Delivered(id, response)
  /\ UNCHANGED serverVars

\* What may still come in besides the server's responses: a frame that does not
\* decode or is too long, and an error the server attributes to no request.  The
\* connection dies of it, in the middle of a chunk, while its socket stays open and
\* the server goes on.
FatalFrame == (BadFrame \/ RouteUnattributed) /\ UNCHANGED serverVars

SessionNext ==
  \/ (UserCall \/ Microtask \/ LocalEvent) /\ UNCHANGED serverVars
  \/ FatalFrame
  \/ ServerTakes
  \/ \E id \in serving : ServerFinishes(id) \/ ServerSends(id)

\* The event loop runs its microtasks and ends its chunks; a destroyed socket emits
\* close; the server takes what is written and finishes every request but a
\* subscription.  A buffer drains for all that chunks keep arriving (one round of
\* the event loop serves the writing side of a socket as well as its reading side),
\* and the items of one stream do not keep the last response of another from
\* arriving: both are due again and again rather than all the time, hence the
\* strong fairness.  Nothing makes the user call or the network fail.
SessionFairness ==
  /\ WF_sessionVars((Microtask \/ EndChunk \/ ConnectFails) /\ UNCHANGED serverVars)
  /\ SF_sessionVars(DrainEvent /\ UNCHANGED serverVars)
  /\ WF_sessionVars(socket = "destroyed" /\ SocketClose /\ UNCHANGED serverVars)
  /\ WF_sessionVars(ServerTakes)
  /\ \A id \in 1 .. MaxId :
       SF_sessionVars(id \in Issued /\ kind[id] # "subscribe" /\ ServerFinishes(id))

SessionSpec == SessionInit /\ [][SessionNext]_sessionVars
FairSession == SessionSpec /\ SessionFairness

-----------------------------------------------------------------------------
(* Properties.                                                             *)

\* With a server that follows the protocol no request ends in a protocol error:
\* the client takes every response the protocol allows, late ones and those that
\* cross a cancel included.
NoProtocolError == \A id \in Issued : outcome[id] # "protocolError"

\* The connection keeps the promise of Requests.
Contract == INSTANCE Requests WITH down <- dead, Hello <- HelloId
KeepsContract == Contract!Spec

\* Every request open on a live connection is settled in the end, by its response
\* or by the loss of the connection, for all that it waits for a permit, a slot,
\* the writer, a drain and the server on the way; unless subscriptions, which keep
\* theirs, come to hold every permit there is.
Saturated ==
  Cardinality({id \in permitted : kind[id] = "subscribe"}) = MaxInflightRequests
EventuallySettled ==
  \A id \in 1 .. MaxId :
    (id \in Issued /\ outcome[id] = "open" /\ ~dead)
      ~> (Saturated \/ (id \in Issued /\ outcome[id] # "open"))

\* The writer of a dead connection ends, and no coroutine stays behind waiting for
\* room in its queue.
WriterEnds == dead ~> (writer = "exited" /\ \A id \in Issued : pc[id] # "slot")

\* CallOptions promises that aborting a request cancels it at the server: once
\* everything written has been taken and nothing is left to run, the server
\* serves only requests that are open.
Quiescent ==
  /\ ~inData /\ tasks = <<>> /\ writer = "waiting" /\ ~dead
  /\ taken = Len(wire)
CancelledAtServer == Quiescent => \A id \in serving : outcome[id] = "open"
=============================================================================
