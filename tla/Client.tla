------------------------------- MODULE Client -------------------------------
(***************************************************************************)
(* A client: the sockets it connects all at once (client.ts, transport.ts  *)
(* and Conn.connect), the abort of the connect, its close, and the choice  *)
(* of a bulk connection for each read.                                     *)
(*                                                                         *)
(* A connection is reduced to the state of its opening and of its socket;  *)
(* Connection.tla has the rest.  Connections are numbered: 0 is the        *)
(* control connection, 1 .. BulkConnections are the pool.  The callbacks   *)
(* of the sockets and the continuations of the awaits interleave freely:   *)
(* no step below depends on which of two connections moves first.          *)
(***************************************************************************)
EXTENDS Naturals, FiniteSets

CONSTANTS
  BulkConnections,   \* config.bulkConnections; 0 puts everything on the control connection
  MaxCalls           \* bound: the user calls no more reads and subscribes than this

ASSUME ClientAssumption == BulkConnections \in Nat /\ MaxCalls \in Nat

VARIABLES
  signal,     \* the AbortSignal of the connect: "none", "armed" or "aborted"
  phase,      \* phase[c]: how far Conn.connect has come
  socket,     \* socket[c]: "none", "open" (from its creation on) or "destroyed"
  connect,    \* Client.connect: "pending", "fulfilled" or "rejected"
  closed,     \* Client.closed
  nextBulk,
  calls       \* calls[c]: how often connection c was picked for a read or a subscribe

vars == <<signal, phase, socket, connect, closed, nextBulk, calls>>

-----------------------------------------------------------------------------
Control == 0
Bulk == 1 .. BulkConnections
Conns == {Control} \cup Bulk

\* The dials of one connect differ in nothing: with an aborted signal, or an address
\* or options that parseAddress, net.connect or tls.connect throws on, no socket is
\* created and every dial is rejected.
Init ==
  /\ signal \in {"none", "armed", "aborted"}
  /\ \E dialed \in BOOLEAN :
       /\ signal = "aborted" => ~dialed
       /\ phase = [c \in Conns |-> IF dialed THEN "dialing" ELSE "rejected"]
       /\ socket = [c \in Conns |-> IF dialed THEN "open" ELSE "none"]
  /\ connect = "pending"
  /\ closed = FALSE
  /\ nextBulk = 0
  /\ calls = [c \in Conns |-> 0]

-----------------------------------------------------------------------------
(* dialSocket: the first of ready, error, timeout and abort settles it.    *)

DialReady(c) ==
  /\ phase[c] = "dialing"
  /\ phase' = [phase EXCEPT ![c] = "hello"]
  /\ UNCHANGED <<signal, socket, connect, closed, nextBulk, calls>>

\* An error or the timeout of the dial.
DialFails(c) ==
  /\ phase[c] = "dialing"
  /\ phase' = [phase EXCEPT ![c] = "rejected"]
  /\ socket' = [socket EXCEPT ![c] = "destroyed"]
  /\ UNCHANGED <<signal, connect, closed, nextBulk, calls>>

\* The signal fires: every dial still under way fails.  A connection past its
\* dial no longer listens.
Abort ==
  /\ signal = "armed" /\ connect = "pending"
  /\ signal' = "aborted"
  /\ phase' = [c \in Conns |-> IF phase[c] = "dialing" THEN "rejected" ELSE phase[c]]
  /\ socket' = [c \in Conns |-> IF phase[c] = "dialing" THEN "destroyed" ELSE socket[c]]
  /\ UNCHANGED <<connect, closed, nextBulk, calls>>

-----------------------------------------------------------------------------
(* Conn.connect after the dial.                                            *)

HelloAcked(c) ==
  /\ phase[c] = "hello" /\ socket[c] = "open"
  /\ phase' = [phase EXCEPT ![c] = "connected"]
  /\ UNCHANGED <<signal, socket, connect, closed, nextBulk, calls>>

\* The server refuses the Hello, or answers it with something else.
HelloRefused(c) ==
  /\ phase[c] = "hello" /\ socket[c] = "open"
  /\ phase' = [phase EXCEPT ![c] = "refused"]
  /\ UNCHANGED <<signal, socket, connect, closed, nextBulk, calls>>

\* Mutant: the refused connection is closed, but the failure is not passed on.
CloseRefusedSilently(c) ==
  /\ phase[c] = "refused" /\ socket[c] # "destroyed"
  /\ socket' = [socket EXCEPT ![c] = "destroyed"]
  /\ UNCHANGED <<signal, phase, connect, closed, nextBulk, calls>>

\* The catch block closes the connection before it rethrows.
CloseRefused(c) ==
  /\ phase[c] = "refused"
  /\ phase' = [phase EXCEPT ![c] = "rejected"]
  /\ socket' = [socket EXCEPT ![c] = "destroyed"]
  /\ UNCHANGED <<signal, connect, closed, nextBulk, calls>>

\* The socket fails: the Hello with it, if it is unanswered.
SocketLost(c) ==
  /\ phase[c] \in {"hello", "refused", "connected"} /\ socket[c] = "open"
  /\ socket' = [socket EXCEPT ![c] = "destroyed"]
  /\ phase' = [phase EXCEPT ![c] = IF @ = "hello" THEN "refused" ELSE @]
  /\ UNCHANGED <<signal, connect, closed, nextBulk, calls>>

-----------------------------------------------------------------------------
(* Client.connect after all its connections are settled, as allSettled has *)
(* it; if one failed the others are closed before the connect rejects.     *)

ConnSettled(c) == phase[c] \in {"connected", "rejected"}
CloseAll(conns) ==
  socket' = [c \in Conns |->
               IF c \in conns /\ socket[c] # "none" THEN "destroyed" ELSE socket[c]]
Connected == {c \in Conns : phase[c] = "connected"}

Fulfill ==
  /\ connect = "pending"
  /\ \A c \in Conns : ConnSettled(c)
  /\ \A c \in Conns : phase[c] # "rejected"
  /\ connect' = "fulfilled"
  /\ UNCHANGED <<signal, phase, socket, closed, nextBulk, calls>>

\* Mutant: the connect rejects at the first failure.
RejectEarly ==
  /\ connect = "pending"
  /\ \E c \in Conns : phase[c] = "rejected"
  /\ connect' = "rejected"
  /\ CloseAll(Connected)
  /\ UNCHANGED <<signal, phase, closed, nextBulk, calls>>

Reject ==
  /\ connect = "pending"
  /\ \A c \in Conns : ConnSettled(c)
  /\ \E c \in Conns : phase[c] = "rejected"
  /\ connect' = "rejected"
  /\ CloseAll(Connected)
  /\ UNCHANGED <<signal, phase, closed, nextBulk, calls>>

-----------------------------------------------------------------------------
(* The connected client.                                                   *)

\* Mutant: the index runs one past the pool before it wraps.
AfterPast(i) == (i + 1) % (BulkConnections + 1)
After(i) == (i + 1) % BulkConnections
PickedControl == Control  \* mutant: the pool is never used
Picked == IF BulkConnections = 0 THEN Control ELSE 1 + (nextBulk % BulkConnections)

\* A read or a subscribe takes its turn; a dead connection is picked like a live one,
\* and the turn is taken even by a read that throws over its limit after the pick.
Call ==
  /\ connect = "fulfilled" /\ ~closed
  /\ calls' = [calls EXCEPT ![Picked] = @ + 1]
  /\ nextBulk' = IF BulkConnections = 0 THEN nextBulk ELSE After(nextBulk)
  /\ UNCHANGED <<signal, phase, socket, connect, closed>>

Close ==
  /\ connect = "fulfilled" /\ ~closed
  /\ closed' = TRUE
  /\ CloseAll(Conns)
  /\ UNCHANGED <<signal, phase, connect, nextBulk, calls>>

MayCall == \A c \in Conns : calls[c] < MaxCalls

Next ==
  \/ \E c \in Conns :
       \/ DialReady(c) \/ DialFails(c)
       \/ HelloAcked(c) \/ HelloRefused(c) \/ CloseRefused(c) \/ SocketLost(c)
  \/ Abort
  \/ Fulfill \/ Reject
  \/ MayCall /\ Call
  \/ Close

Spec == Init /\ [][Next]_vars

\* A dial ends, by the timeout of connectTimeout or of TCP; continuations run.
EventLoop ==
  /\ \A c \in Conns : WF_vars(DialReady(c) \/ DialFails(c)) /\ WF_vars(CloseRefused(c))
  /\ WF_vars(Fulfill \/ Reject)

\* The server answers every Hello.
ServerAnswers == \A c \in Conns : WF_vars(HelloAcked(c) \/ HelloRefused(c))

SilentServer == Spec /\ EventLoop
FairSpec == SilentServer /\ ServerAnswers

-----------------------------------------------------------------------------
(* Properties.                                                             *)

\* Type correctness of the client.
TypeOK ==
  /\ signal \in {"none", "armed", "aborted"}
  /\ phase \in [Conns -> {"dialing", "hello", "connected", "refused", "rejected"}]
  /\ socket \in [Conns -> {"none", "open", "destroyed"}]
  /\ connect \in {"pending", "fulfilled", "rejected"}
  /\ closed \in BOOLEAN
  /\ nextBulk \in Nat /\ (BulkConnections > 0 => nextBulk < BulkConnections)
  /\ calls \in [Conns -> Nat]

\* A connect leaves nothing half done, at whatever moments its dials and handshakes
\* fail, pass or are aborted: a client is handed out with every connection past its
\* handshake, or the connect rejects and no socket stays open; nor does one after
\* the client is closed.
AllOrNothing ==
  /\ connect = "fulfilled" => \A c \in Conns : phase[c] = "connected"
  /\ connect = "rejected" \/ closed => \A c \in Conns : socket[c] # "open"

\* The pool is used in turn: no bulk connection is ever two calls ahead of another,
\* and with a pool the control connection is kept free of streams.
FairShare ==
  /\ \A b, c \in Bulk : calls[b] <= calls[c] + 1
  /\ BulkConnections > 0 => calls[Control] = 0

\* With a server that answers, the connect settles, however many of the dials and
\* handshakes fail and whenever the signal fires.
ConnectSettles == (connect = "pending") ~> (connect # "pending")

\* ClientOptions.signal is documented to abort the connect: a connect whose signal
\* fires settles.
AbortSettles == (signal = "aborted") ~> (connect # "pending")
=============================================================================
