------------------------------ MODULE Opening ------------------------------
(***************************************************************************)
(* A connection from its dial on (dialSocket of transport.ts, then the     *)
(* Conn of Connection.tla), and what Client.tla and Lane.tla see of it:    *)
(* every step must be one that they allow, or leave what they see alone.   *)
(*                                                                         *)
(* The continuations between the ready event and the constructor of Conn   *)
(* are microtasks: no event of the socket falls between them, so the ready *)
(* event is one step with the constructor and the call of hello.           *)
(***************************************************************************)
EXTENDS Connection

VARIABLES
  signal,    \* the AbortSignal of the connect: "armed" (it may never fire) or "aborted"
  dial,      \* the promise of dialSocket: "pending", "rejected" or "taken" by Conn.connect
  raw        \* the socket before it is taken: "none", "connecting", "connected", "destroyed"

dialVars == <<signal, dial, raw>>
openingVars == <<vars, dialVars>>

\* The promise executor.  It rejects at once if the signal is aborted, or if
\* net.connect or tls.connect throws on the host, the port or the TLS options.  Node
\* is assumed to take config.connectTimeout: on a negative or infinite one setTimeout
\* throws after the socket is created.
OpeningInit ==
  /\ Init
  /\ signal \in {"armed", "aborted"}
  /\ \E created \in BOOLEAN :
       /\ signal = "aborted" => ~created
       /\ raw = IF created THEN "connecting" ELSE "none"
       /\ dial = IF created THEN "pending" ELSE "rejected"

\* The socket is ready.
SocketReady ==
  /\ raw = "connecting" /\ dial = "pending"
  /\ raw' = "connected"
  /\ dial' = "taken"
  /\ UNCHANGED <<vars, signal>>

\* The socket fails, or the timeout does it.
SocketFails ==
  /\ raw = "connecting" /\ dial = "pending"
  /\ raw' = "destroyed"
  /\ dial' = "rejected"
  /\ UNCHANGED <<vars, signal>>

\* The signal fires during the dial.  Later nothing listens to it.
DialAbort ==
  /\ signal = "armed" /\ dial = "pending"
  /\ signal' = "aborted"
  /\ raw' = "destroyed"
  /\ dial' = "rejected"
  /\ UNCHANGED vars

OpeningNext ==
  \/ SocketReady
  \/ SocketFails
  \/ DialAbort
  \/ dial = "taken" /\ Next /\ UNCHANGED dialVars

OpeningSpec == OpeningInit /\ [][OpeningNext]_openingVars

-----------------------------------------------------------------------------
(* Properties.                                                             *)

Phase ==
  CASE dial = "pending"  -> "dialing"
    [] dial = "rejected" -> "rejected"
    [] OTHER ->
         CASE outcome[HelloId] = "open" -> "hello"
           [] outcome[HelloId] = "ok"   -> "connected"
           [] OTHER                     -> IF released THEN "rejected" ELSE "refused"

Sock ==
  IF dial = "taken"
  THEN IF socket = "open" THEN "open" ELSE "destroyed"
  ELSE IF raw \in {"connecting", "connected"} THEN "open" ELSE raw

Seen == INSTANCE Client WITH
  BulkConnections <- 0, MaxCalls <- 0,
  connect <- "pending", closed <- FALSE, nextBulk <- 0,
  calls <- [c \in {0} |-> 0],
  phase <- [c \in {0} |-> Phase],
  socket <- [c \in {0} |-> Sock]

\* A connection opens as the client assumes: it is dialled, by one socket that is
\* destroyed if the dial fails or is aborted; the Hello is answered once, at most
\* while the socket is open; a connection that fails before is closed, and then
\* only, never reaching a client; and no socket comes back.
OpensAsSeen ==
  /\ Seen!Init
  /\ [][\/ Seen!Abort
        \/ \E c \in {0} :
             \/ Seen!DialReady(c) \/ Seen!DialFails(c)
             \/ Seen!HelloAcked(c) \/ Seen!HelloRefused(c)
             \/ Seen!CloseRefused(c) \/ Seen!SocketLost(c)
       ]_<<Phase, Sock, signal>>

\* A connection treats its requests as the client's lanes do: a request asks for one
\* permit and has it until it settles or a little longer, a returned permit goes to
\* the one that has waited longest, and only the death of the connection takes
\* requests together, and permits for good.
L == INSTANCE Lane
AsLane == [open |-> pending, held |-> Holding, budget |-> inflight, dead |-> dead]
ActsAsLane ==
  /\ AsLane = L!NewLane(MaxInflightRequests, HelloId)
  /\ [][L!LaneStep(AsLane, AsLane', Issued')]_<<pending, permitted, inflight, pc, dead>>
=============================================================================
