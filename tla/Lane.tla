-------------------------------- MODULE Lane --------------------------------
(***************************************************************************)
(* One connection as the client that owns it can tell: the requests open   *)
(* on it and the budget their permits come from, as operators on a record. *)
(* Nothing is said of outbound queues, writers, frames or microtasks; the  *)
(* steps of Connection.tla are checked to be steps of a lane, and          *)
(* Lanes.tla builds a client out of several.                               *)
(***************************************************************************)
EXTENDS Semaphore, FiniteSets

\* The Hello is open and has its permit.
NewLane(permits, hello) ==
  [open |-> {hello}, held |-> {hello},
   budget |-> Acquire(NewSemaphore(permits), hello), dead |-> FALSE]

\* A request is registered and asks for a permit.
Issue(l, id) ==
  [l EXCEPT !.open = @ \cup {id},
            !.budget = Acquire(@, id),
            !.held = IF l.budget.permits > 0 THEN @ \cup {id} ELSE @]

\* A request is settled.  Its permit stays with it for now, or it has none yet.
Settle(l, id) == [l EXCEPT !.open = @ \ {id}]

\* A call whose signal is aborted already asks for a permit all the same.
IssueSettled(l, id) == Settle(Issue(l, id), id)

\* Mutant: the permit is free, and nobody who waits is woken.
GiveBackFree(l, id) == [l EXCEPT !.budget.permits = @ + 1, !.held = @ \ {id}]

\* A permit returns: it goes to the request that has waited longest, or is free.
GiveBack(l, id) ==
  [l EXCEPT !.budget = Release(@),
            !.held = (@ \ {id}) \cup {w \in Waiting(l.budget) : Woken(l.budget) = <<w>>}]

\* The connection dies with the permits of "lost": they are not released, and who
\* waits for one is not woken.
Lose(l, lost) == [l EXCEPT !.open = {}, !.held = @ \ lost, !.dead = TRUE]

\* What one step of a connection may do to its lane.
LaneStep(l, m, Requests) ==
  \/ m = l
  \/ \E id \in Requests :
       \/ id \notin l.open /\ m \in {Issue(l, id), IssueSettled(l, id)}
       \/ id \in l.open /\ m = Settle(l, id)
       \/ id \in l.open \cap l.held /\ m = GiveBack(Settle(l, id), id)
       \/ id \in l.held \ l.open /\ m = GiveBack(l, id)
  \/ \E lost \in SUBSET l.held : m = Lose(l, lost)
=============================================================================
