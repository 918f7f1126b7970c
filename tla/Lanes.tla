------------------------------- MODULE Lanes -------------------------------
(***************************************************************************)
(* The connected client at work: appends and stats on the control          *)
(* connection, reads and subscribes in turn on the pool, each connection a *)
(* lane with a budget of its own (Lane.tla, which Opening.tla shows        *)
(* Connection.tla to follow).  The server is external: it answers the      *)
(* requests that reach it, and never ends a subscription of itself other   *)
(* than by an error.                                                       *)
(***************************************************************************)
EXTENDS Client, Options, Sequences

CONSTANTS
  OptionChoices,   \* the numeric options the user may pass
  CallKinds,       \* the operations the user calls
  MaxIssued        \* bound: requests the user issues

\* What may be passed is one number for each option, or none.
IsOption(option) ==
  /\ \A x \in option : x.finite \in BOOLEAN /\ x.halves \in Int
  /\ \A x, y \in option : x = y

ASSUME OptionsAssumption ==
  \A options \in OptionChoices :
    /\ IsOption(options.bulkConnections) /\ IsOption(options.maxInflightRequests)
    /\ IsOption(options.requestQueueDepth) /\ IsOption(options.maxFrameLen)

VARIABLES
  config,     \* the resolved options
  lanes,      \* lanes[c]: a record of Lane.tla
  requests    \* the requests in the order issued: kind, conn, outcome, and whether
              \* the connection was lost already (late)

laneVars == <<lanes, requests>>
lanesVars == <<vars, config, laneVars>>

L == INSTANCE Lane
HelloOf == 0
Unary == {"append", "stats"}
Streams == {"read", "subscribe"}

LanesInit ==
  /\ Init
  /\ config \in {ResolveConfig(options) : options \in OptionChoices}
  /\ config.bulkConnections = BulkConnections
  /\ lanes = [c \in Conns |-> L!NewLane(config.maxInflightRequests, HelloOf)]
  /\ requests = <<>>

-----------------------------------------------------------------------------
(* The loss of connections.                                                *)

OpenOn(c) == {r \in DOMAIN requests : requests[r].conn = c /\ requests[r].outcome = "open"}

\* Mutant: the streams are not told.
FailOnUnary(conns) ==
  requests' = [r \in DOMAIN requests |->
                 IF requests[r].conn \in conns /\ requests[r].outcome = "open"
                    /\ requests[r].kind \in Unary
                 THEN [requests[r] EXCEPT !.outcome = "connError"] ELSE requests[r]]

FailOn(conns) ==
  requests' = [r \in DOMAIN requests |->
                 IF requests[r].conn \in conns /\ requests[r].outcome = "open"
                 THEN [requests[r] EXCEPT !.outcome = "connError"] ELSE requests[r]]

\* Those of "conns" that are alive die, with any of the permits held on them.
Die(conns) ==
  LET dying == {c \in conns : ~lanes[c].dead} IN
  /\ \E lost \in [dying -> SUBSET UNION {lanes[c].held : c \in dying}] :
       /\ \A c \in dying : lost[c] \subseteq lanes[c].held
       /\ lanes' = [c \in Conns |-> IF c \in dying THEN L!Lose(lanes[c], lost[c])
                                                  ELSE lanes[c]]
  /\ FailOn(dying)
  /\ UNCHANGED config

\* A connection past its dial that loses its socket dies with it.
Destroyed == {c \in Conns : socket[c] = "open" /\ socket'[c] = "destroyed"
                            /\ phase[c] # "dialing"}

\* A bad frame or an unattributed error: the connection dies, its socket stays.
ConnFails(c) ==
  /\ phase[c] = "connected" /\ socket[c] = "open" /\ ~lanes[c].dead
  /\ Die({c})
  /\ UNCHANGED vars

-----------------------------------------------------------------------------
(* The opening.                                                            *)

SetLane(c, l) == lanes' = [lanes EXCEPT ![c] = l]

Opens(c) ==
  \/ /\ DialReady(c) \/ DialFails(c)
     /\ UNCHANGED <<config, laneVars>>
  \/ /\ HelloAcked(c)
     /\ SetLane(c, L!GiveBack(L!Settle(lanes[c], HelloOf), HelloOf))
     /\ UNCHANGED <<config, requests>>
  \/ /\ HelloRefused(c)
     /\ \/ SetLane(c, L!GiveBack(L!Settle(lanes[c], HelloOf), HelloOf))
           /\ UNCHANGED <<config, requests>>
        \/ Die({c})
  \/ (CloseRefused(c) \/ SocketLost(c)) /\ Die(Destroyed)

-----------------------------------------------------------------------------
(* The calls.  Any request is open, or settled with its outcome, once.     *)

Usable == connect = "fulfilled" /\ ~closed /\ Len(requests) < MaxIssued

Issues(k, c, first) ==
  LET id == Len(requests) + 1 IN
  /\ requests' = Append(requests, [kind |-> k, conn |-> c, outcome |-> first,
                                   late |-> lanes[c].dead])
  /\ SetLane(c, IF first = "open" THEN L!Issue(lanes[c], id)
                                  ELSE L!IssueSettled(lanes[c], id))
  /\ UNCHANGED config

\* A lost control connection rejects the call and registers nothing.
CallUnary(k) ==
  /\ k \in Unary /\ Usable
  /\ ~lanes[Control].dead
  /\ \E first \in {"open", "aborted"} : Issues(k, Control, first)
  /\ UNCHANGED vars

\* A lost connection is picked like another, and registers the stream.  One whose
\* signal is aborted already is stopped a microtask later.
CallStream(k) ==
  /\ k \in Streams /\ Usable
  /\ Issues(k, Picked, "open")
  /\ MayCall /\ Call

\* A limit that is no integer throws after the pick.
CallThrows == MayCall /\ Call /\ UNCHANGED <<config, laneVars>>

Closes == Close /\ Die(Conns)

SettleAs(r, result) ==
  requests' = [requests EXCEPT ![r].outcome = result]

\* The user aborts or closes a request.  Its permit returns at once, unless it has
\* none or the coroutine it was granted to is yet to resume.
Stop(r) ==
  LET c == requests[r].conn IN
  /\ requests[r].outcome = "open"
  /\ SettleAs(r, "aborted")
  /\ \/ SetLane(c, L!Settle(lanes[c], r))
     \/ r \in lanes[c].held /\ SetLane(c, L!GiveBack(L!Settle(lanes[c], r), r))
  /\ UNCHANGED <<vars, config>>

\* The server answers a request that has its permit, or its frame is too large.
Answer(r) ==
  LET c == requests[r].conn IN
  /\ r \in DOMAIN requests /\ requests[r].outcome = "open"
  /\ ~lanes[c].dead /\ r \in lanes[c].held
  /\ \E result \in {"ok", "serverError", "tooLarge"} :
       /\ requests[r].kind = "subscribe" => result # "ok"
       /\ SettleAs(r, result)
  /\ SetLane(c, L!GiveBack(L!Settle(lanes[c], r), r))
  /\ UNCHANGED <<vars, config>>

\* A coroutine resumes with a permit and finds its request gone, or its connection
\* lost: the permit goes back.
Resume(c, r) ==
  /\ r \in lanes[c].held
  /\ r \in lanes[c].open => lanes[c].dead
  /\ SetLane(c, L!GiveBack(L!Settle(lanes[c], r), r))
  /\ IF r \in lanes[c].open THEN SettleAs(r, "connError") ELSE UNCHANGED requests
  /\ UNCHANGED <<vars, config>>

LanesNext ==
  \/ \E c \in Conns : Opens(c) \/ ConnFails(c)
  \/ (Abort \/ Fulfill) /\ UNCHANGED <<config, laneVars>>
  \/ Reject /\ Die(Destroyed)
  \/ \E k \in CallKinds : CallUnary(k) \/ CallStream(k)
  \/ CallThrows
  \/ Closes
  \/ \E r \in DOMAIN requests : Stop(r) \/ Answer(r)
  \/ \E c \in Conns : \E r \in lanes[c].held \ {HelloOf} : Resume(c, r)

\* The server answers every request but a subscription, which it may serve for ever;
\* continuations run.
LanesFairness ==
  /\ \A r \in 1 .. MaxIssued :
       /\ WF_lanesVars(Answer(r) /\ requests[r].kind # "subscribe")
       /\ \A c \in Conns : WF_lanesVars(Resume(c, r))

LanesSpec ==
  /\ LanesInit /\ [][LanesNext]_lanesVars
  /\ EventLoop /\ ServerAnswers /\ LanesFairness

-----------------------------------------------------------------------------
(* Properties.                                                             *)

\* Type correctness: whatever numbers the user passes, every budget is a number of
\* whole permits and one at least.
LanesTypeOK ==
  /\ config.maxInflightRequests \in Nat \ {0}
  /\ config.requestQueueDepth \in Nat \ {0}
  /\ config.maxFrameLen \in Nat \ {0}
  /\ \A c \in Conns :
       /\ lanes[c].budget.permits \in 0 .. config.maxInflightRequests
       /\ Cardinality(lanes[c].held) <= config.maxInflightRequests
       /\ lanes[c].dead \in BOOLEAN
       /\ lanes[c].open \ {HelloOf} = OpenOn(c)

\* One lost connection does not touch the requests on the others, and leaves none of
\* its own behind: a request fails with a connection error only on a lost connection,
\* and one that is open on a lost connection was issued after the loss.
LossIsLocal ==
  \A r \in DOMAIN requests : LET c == requests[r].conn IN
    /\ requests[r].outcome = "connError" => lanes[c].dead
    /\ requests[r].outcome = "open" /\ lanes[c].dead => requests[r].late

Pending(r) == r \in DOMAIN requests /\ requests[r].outcome = "open"
Live(r) == ~lanes[requests[r].conn].dead

\* Splitting the lanes keeps streams from delaying appends: with a pool, every append
\* on a live control connection is settled in the end, for all the subscriptions that
\* hold the pool's permits for ever.
AppendsFlow ==
  \A r \in 1 .. MaxIssued :
    (Pending(r) /\ requests[r].kind \in Unary /\ Live(r)) ~> (r \in DOMAIN requests /\ ~Pending(r))

\* A read is settled in the end unless subscriptions hold every permit of its own
\* connection, or it was sent to a connection already lost; the other bulk
\* connections, saturated or lost, do not matter.
Saturated(c) ==
  Cardinality({h \in lanes[c].held \cap OpenOn(c) : requests[h].kind = "subscribe"})
    = config.maxInflightRequests
ReadsFlow ==
  \A r \in 1 .. MaxIssued :
    (Pending(r) /\ requests[r].kind = "read" /\ Live(r))
      ~> (r \in DOMAIN requests /\ (~Pending(r) \/ Saturated(requests[r].conn)))
=============================================================================
