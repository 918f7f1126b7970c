---------------------------- MODULE LanesProofs ----------------------------
(***************************************************************************)
(* Theorems about Client and Lanes, the client with its pool and the       *)
(* connected client, for any options, any number of connections and of     *)
(* requests.                                                               *)
(***************************************************************************)
EXTENDS Lanes, SequenceTheorems, FiniteSetTheorems, TLAPS

-----------------------------------------------------------------------------
(* Arithmetic of the round robin.                                          *)

\* An index of the pool is its own remainder.
LEMMA IndexMod ==
  ASSUME NEW n \in Nat, n > 0, NEW i \in Nat, i < n
  PROVE  i % n = i
  BY SMT

\* The index after it is the next one, or the first.
LEMMA AfterCases ==
  ASSUME BulkConnections > 0, NEW i \in Nat, i < BulkConnections
  PROVE  After(i) = IF i + 1 = BulkConnections THEN 0 ELSE i + 1
<1>1. CASE i + 1 = BulkConnections
  <2>1. BulkConnections % BulkConnections = 0
    BY ClientAssumption, SMT
  <2> QED
    BY <1>1, <2>1 DEF After
<1>2. CASE i + 1 # BulkConnections
  BY <1>2, IndexMod, ClientAssumption DEF After
<1> QED
  BY <1>1, <1>2

-----------------------------------------------------------------------------
(* Type correctness.                                                       *)

\* The first states have the types.
LEMMA TypeInit == Init => TypeOK
<1> SUFFICES ASSUME Init PROVE TypeOK
  OBVIOUS
<1>1. phase \in [Conns -> {"dialing", "hello", "connected", "refused", "rejected"}]
  BY DEF Init
<1>2. socket \in [Conns -> {"none", "open", "destroyed"}]
  BY DEF Init
<1>3. calls \in [Conns -> Nat]
  BY DEF Init
<1> QED
  BY <1>1, <1>2, <1>3, ClientAssumption DEF Init, TypeOK

\* A picked connection exists.
LEMMA PickedConn ==
  ASSUME TypeOK
  PROVE  /\ Picked \in Conns
         /\ BulkConnections > 0 => Picked = 1 + nextBulk /\ Picked \in Bulk
<1>1. CASE BulkConnections = 0
  BY <1>1, ClientAssumption DEF Picked, Conns, Control
<1>2. CASE BulkConnections > 0
  <2>1. nextBulk \in Nat /\ nextBulk < BulkConnections
    BY <1>2 DEF TypeOK
  <2>2. nextBulk % BulkConnections = nextBulk
    BY <1>2, <2>1, IndexMod, ClientAssumption
  <2>3. Picked = 1 + nextBulk
    BY <1>2, <2>2 DEF Picked
  <2> QED
    BY <1>2, <2>1, <2>3, ClientAssumption DEF Bulk, Conns
<1> QED
  BY <1>1, <1>2, ClientAssumption

\* Every step keeps them.
LEMMA TypeStep == TypeOK /\ [Next]_vars => TypeOK'
<1> SUFFICES ASSUME TypeOK, [Next]_vars
             PROVE  TypeOK'
  OBVIOUS
<1> USE DEF TypeOK
<1>1. ASSUME NEW c \in Conns, DialReady(c) PROVE TypeOK'
  BY <1>1 DEF DialReady
<1>2. ASSUME NEW c \in Conns, DialFails(c) PROVE TypeOK'
  BY <1>2 DEF DialFails
<1>3. ASSUME NEW c \in Conns, HelloAcked(c) PROVE TypeOK'
  BY <1>3 DEF HelloAcked
<1>4. ASSUME NEW c \in Conns, HelloRefused(c) PROVE TypeOK'
  BY <1>4 DEF HelloRefused
<1>5. ASSUME NEW c \in Conns, CloseRefused(c) PROVE TypeOK'
  BY <1>5 DEF CloseRefused
<1>6. ASSUME NEW c \in Conns, SocketLost(c) PROVE TypeOK'
  BY <1>6 DEF SocketLost
<1>7. CASE Abort
  BY <1>7 DEF Abort
<1>8. CASE Fulfill
  BY <1>8 DEF Fulfill
<1>9. CASE Reject
  BY <1>9 DEF Reject, CloseAll
<1>10. CASE Call
  <2>1. calls' \in [Conns -> Nat]
    BY <1>10, PickedConn DEF Call
  <2>2. nextBulk' \in Nat /\ (BulkConnections > 0 => nextBulk' < BulkConnections)
    <3>1. CASE BulkConnections = 0
      BY <1>10, <3>1 DEF Call
    <3>2. CASE BulkConnections > 0
      BY <1>10, <3>2, AfterCases, ClientAssumption DEF Call
    <3> QED
      BY <3>1, <3>2, ClientAssumption
  <2> QED
    BY <1>10, <2>1, <2>2 DEF Call
<1>11. CASE Close
  BY <1>11 DEF Close, CloseAll
<1>12. CASE UNCHANGED vars
  BY <1>12 DEF vars
<1> QED
  BY <1>1, <1>2, <1>3, <1>4, <1>5, <1>6, <1>7, <1>8, <1>9, <1>10, <1>11, <1>12 DEF Next

\* Every variable of the client keeps its type, for a pool of any size.
THEOREM Typing == Spec => []TypeOK
BY TypeInit, TypeStep, PTL DEF Spec

-----------------------------------------------------------------------------
(* All or nothing.  Inductive with what makes it last: a connection that   *)
(* was given up has no open socket, and only a connected client is closed. *)

GivenUp ==
  /\ \A c \in Conns : phase[c] = "rejected" => socket[c] # "open"
  /\ closed => connect = "fulfilled"

ConnectInv == TypeOK /\ AllOrNothing /\ GivenUp

\* No step opens a socket.
LEMMA SocketsOnlyClose ==
  ASSUME TypeOK, [Next]_vars, NEW c \in Conns, socket'[c] = "open"
  PROVE  socket[c] = "open"
<1> USE DEF TypeOK
<1>1. ASSUME NEW b \in Conns, DialFails(b) \/ CloseRefused(b) \/ SocketLost(b)
      PROVE  socket[c] = "open"
  BY <1>1 DEF DialFails, CloseRefused, SocketLost
<1>2. ASSUME NEW b \in Conns, DialReady(b) \/ HelloAcked(b) \/ HelloRefused(b)
      PROVE  socket[c] = "open"
  BY <1>2 DEF DialReady, HelloAcked, HelloRefused
<1>3. CASE Abort
  BY <1>3 DEF Abort
<1>4. CASE Reject \/ Close
  BY <1>4 DEF Reject, Close, CloseAll
<1>5. CASE Fulfill \/ Call \/ UNCHANGED vars
  BY <1>5 DEF Fulfill, Call, vars
<1> QED
  BY <1>1, <1>2, <1>3, <1>4, <1>5 DEF Next

\* A connection that is past its handshake stays so.
LEMMA ConnectedStays ==
  ASSUME TypeOK, [Next]_vars, NEW c \in Conns, phase[c] = "connected"
  PROVE  phase'[c] = "connected"
<1> USE DEF TypeOK
<1>1. ASSUME NEW b \in Conns,
             \/ DialReady(b) \/ DialFails(b) \/ HelloAcked(b)
             \/ HelloRefused(b) \/ CloseRefused(b) \/ SocketLost(b)
      PROVE  phase'[c] = "connected"
  BY <1>1 DEF DialReady, DialFails, HelloAcked, HelloRefused, CloseRefused, SocketLost
<1>2. CASE Abort
  BY <1>2 DEF Abort
<1>3. CASE Reject \/ Close \/ Fulfill \/ Call \/ UNCHANGED vars
  BY <1>3 DEF Reject, Close, Fulfill, Call, vars
<1> QED
  BY <1>1, <1>2, <1>3 DEF Next

\* A rejected phase comes with a socket that is not open.
LEMMA GivenUpStep ==
  ASSUME TypeOK, GivenUp, [Next]_vars
  PROVE  GivenUp'
<1>1. ASSUME NEW c \in Conns, phase'[c] = "rejected"
      PROVE  socket'[c] # "open"
  <2> USE DEF TypeOK
  <2>1. CASE phase[c] = "rejected"
    BY <2>1, SocketsOnlyClose DEF GivenUp
  <2>2. ASSUME NEW b \in Conns, phase[c] # "rejected",
               \/ DialReady(b) \/ DialFails(b) \/ HelloAcked(b)
               \/ HelloRefused(b) \/ CloseRefused(b) \/ SocketLost(b)
        PROVE  socket'[c] # "open"
    BY <1>1, <2>2
    DEF DialReady, DialFails, HelloAcked, HelloRefused, CloseRefused, SocketLost
  <2>3. CASE Abort
    BY <1>1, <2>1, <2>3 DEF Abort
  <2>4. CASE Reject \/ Close \/ Fulfill \/ Call \/ UNCHANGED vars
    BY <1>1, <2>1, <2>4 DEF Reject, Close, Fulfill, Call, vars
  <2> QED
    BY <2>1, <2>2, <2>3, <2>4 DEF Next
<1>2. closed' => connect' = "fulfilled"
  BY DEF GivenUp, Next, vars, DialReady, DialFails, HelloAcked, HelloRefused, CloseRefused,
         SocketLost, Abort, Fulfill, Reject, Call, Close
<1> QED
  BY <1>1, <1>2 DEF GivenUp

\* Every step keeps the connect all or nothing.
LEMMA AllOrNothingStep ==
  ASSUME ConnectInv, [Next]_vars
  PROVE  AllOrNothing'
<1> USE DEF ConnectInv
<1>1. ASSUME NEW c \in Conns, connect' = "fulfilled"
      PROVE  phase'[c] = "connected"
  <2>1. CASE connect = "fulfilled"
    BY <2>1, ConnectedStays DEF AllOrNothing
  <2>2. CASE Fulfill
    BY <2>2 DEF Fulfill, ConnSettled
  <2>3. CASE connect # "fulfilled" /\ ~Fulfill
    BY <1>1, <2>3 DEF Next, vars, DialReady, DialFails, HelloAcked, HelloRefused,
       CloseRefused, SocketLost, Abort, Reject, Call, Close
  <2> QED
    BY <2>1, <2>2, <2>3
<1>2. ASSUME NEW c \in Conns, connect' = "rejected" \/ closed'
      PROVE  socket'[c] # "open"
  <2>1. CASE connect = "rejected" \/ closed
    BY <2>1, SocketsOnlyClose DEF AllOrNothing
  <2>2. CASE Reject
    <3>1. phase[c] = "connected" \/ phase[c] = "rejected"
      BY <2>2 DEF Reject, ConnSettled
    <3>2. phase[c] = "connected" => socket'[c] # "open"
      BY <2>2 DEF Reject, CloseAll, Connected, TypeOK
    <3>3. phase[c] = "rejected" => socket'[c] # "open"
      BY SocketsOnlyClose DEF GivenUp
    <3> QED
      BY <3>1, <3>2, <3>3
  <2>3. CASE Close
    BY <2>3 DEF Close, CloseAll, TypeOK
  <2>4. CASE ~(connect = "rejected" \/ closed) /\ ~Reject /\ ~Close
    BY <1>2, <2>4 DEF Next, vars, DialReady, DialFails, HelloAcked, HelloRefused,
       CloseRefused, SocketLost, Abort, Fulfill, Call
  <2> QED
    BY <2>1, <2>2, <2>3, <2>4
<1> QED
  BY <1>1, <1>2 DEF AllOrNothing

\* A connect hands out a client with every handshake passed or leaves no socket open,
\* and a closed client leaves none, for a pool of any size.
THEOREM ConnectAtomic == Spec => []AllOrNothing
<1>1. Init => ConnectInv
  BY TypeInit DEF Init, ConnectInv, AllOrNothing, GivenUp
<1>2. ConnectInv /\ [Next]_vars => ConnectInv'
  BY TypeStep, AllOrNothingStep, GivenUpStep DEF ConnectInv
<1>3. ConnectInv => AllOrNothing
  BY DEF ConnectInv
<1> QED
  BY <1>1, <1>2, <1>3, PTL DEF Spec

-----------------------------------------------------------------------------
(* Round robin.  The connections before the index are one call ahead of    *)
(* the others.                                                             *)

Level(k) == \A c \in Bulk : calls[c] = IF c <= nextBulk THEN k + 1 ELSE k
Turns ==
  /\ \E k \in Nat : Level(k)
  /\ BulkConnections > 0 => calls[Control] = 0

TurnsInv == TypeOK /\ Turns

\* A call keeps the pool level.
LEMMA CallLevel ==
  ASSUME TypeOK, Call, BulkConnections > 0, NEW k \in Nat, Level(k)
  PROVE  \E n \in Nat : Level(n)'
<1>1. /\ nextBulk \in Nat /\ nextBulk < BulkConnections
      /\ Picked = 1 + nextBulk /\ Picked \in Bulk
      /\ calls \in [Conns -> Nat]
  BY PickedConn DEF TypeOK
<1>2. nextBulk' = IF nextBulk + 1 = BulkConnections THEN 0 ELSE nextBulk + 1
  BY <1>1, AfterCases, ClientAssumption DEF Call
<1>3. \A c \in Bulk : c \in Nat /\ c \in Conns /\ 1 <= c /\ c <= BulkConnections
  BY ClientAssumption DEF Bulk, Conns
<1>4. \A c \in Bulk : calls'[c] = IF c = 1 + nextBulk THEN calls[c] + 1 ELSE calls[c]
  BY <1>1, <1>3 DEF Call
<1>5. CASE nextBulk + 1 = BulkConnections
  <2>1. \A c \in Bulk : calls'[c] = k + 1
    BY <1>1, <1>3, <1>4, <1>5 DEF Level
  <2>2. Level(k + 1)'
    BY <1>2, <1>3, <1>5, <2>1 DEF Level
  <2> QED
    BY <2>2
<1>6. CASE nextBulk + 1 # BulkConnections
  <2>1. Level(k)'
    BY <1>1, <1>2, <1>3, <1>4, <1>6 DEF Level
  <2> QED
    BY <2>1
<1> QED
  BY <1>5, <1>6

\* Every step keeps it level.
LEMMA TurnsStep ==
  ASSUME TypeOK, Turns, [Next]_vars
  PROVE  Turns'
<1>1. CASE Call
  <2>1. CASE BulkConnections > 0
    <3>1. PICK k \in Nat : Level(k)
      BY DEF Turns
    <3>2. \E n \in Nat : Level(n)'
      BY <1>1, <2>1, <3>1, CallLevel
    <3>3. calls'[Control] = 0
      <4>1. Picked # Control
        BY <2>1, PickedConn, ClientAssumption DEF Bulk, Control
      <4> QED
        BY <1>1, <2>1, <4>1 DEF Call, Turns, TypeOK, Conns
    <3> QED
      BY <3>2, <3>3 DEF Turns
  <2>2. CASE BulkConnections = 0
    BY <2>2 DEF Turns, Level, Bulk
  <2> QED
    BY <2>1, <2>2, ClientAssumption
<1>2. CASE UNCHANGED <<calls, nextBulk>>
  BY <1>2 DEF Turns, Level
<1>3. CASE ~Call
  <2>1. UNCHANGED <<calls, nextBulk>>
    BY <1>3 DEF Next, vars, DialReady, DialFails, HelloAcked, HelloRefused, CloseRefused,
       SocketLost, Abort, Fulfill, Reject, Close
  <2> QED
    BY <1>2, <2>1
<1> QED
  BY <1>1, <1>3

\* No bulk connection is ever two calls ahead of another, for a pool of any size.
THEOREM RoundRobin == Spec => []FairShare
<1>1. Init => TurnsInv
  <2> SUFFICES ASSUME Init PROVE Turns
    BY TypeInit DEF TurnsInv
  <2>1. Level(0)
    BY ClientAssumption DEF Init, Level, Bulk, Conns
  <2>2. calls[Control] = 0
    BY DEF Init, Conns
  <2> QED
    BY <2>1, <2>2 DEF Turns
<1>2. TurnsInv /\ [Next]_vars => TurnsInv'
  BY TypeStep, TurnsStep DEF TurnsInv
<1>3. TurnsInv => FairShare
  <2> SUFFICES ASSUME TurnsInv PROVE \A b, c \in Bulk : calls[b] <= calls[c] + 1
    BY DEF TurnsInv, Turns, FairShare
  <2>1. PICK k \in Nat : Level(k)
    BY DEF TurnsInv, Turns
  <2> QED
    BY <2>1 DEF Level
<1> QED
  BY <1>1, <1>2, <1>3, PTL DEF Spec

-----------------------------------------------------------------------------
(* The client of Lanes is the client of Client.                            *)

\* Every step of the lanes is a step of the client, or leaves it alone.
LEMMA ClientStep ==
  ASSUME [LanesNext]_lanesVars
  PROVE  [Next]_vars
<1>1. ASSUME NEW c \in Conns, Opens(c) PROVE Next
  BY <1>1 DEF Opens, Next
<1>2. ASSUME NEW c \in Conns, ConnFails(c) PROVE UNCHANGED vars
  BY <1>2 DEF ConnFails
<1>3. CASE (Abort \/ Fulfill) /\ UNCHANGED <<config, laneVars>>
  BY <1>3 DEF Next
<1>4. CASE Reject /\ Die(Destroyed)
  BY <1>4 DEF Next
<1>5. ASSUME NEW k \in CallKinds, CallUnary(k) PROVE UNCHANGED vars
  BY <1>5 DEF CallUnary
<1>6. ASSUME NEW k \in CallKinds, CallStream(k) PROVE Next
  BY <1>6 DEF CallStream, Next
<1>7. CASE CallThrows
  BY <1>7 DEF CallThrows, Next
<1>8. CASE Closes
  BY <1>8 DEF Closes, Next
<1>9. ASSUME NEW r \in DOMAIN requests, Stop(r) \/ Answer(r) PROVE UNCHANGED vars
  BY <1>9 DEF Stop, Answer
<1>10. ASSUME NEW c \in Conns, NEW r \in lanes[c].held \ {HelloOf}, Resume(c, r)
       PROVE  UNCHANGED vars
  BY <1>10 DEF Resume
<1>11. CASE UNCHANGED lanesVars
  BY <1>11 DEF lanesVars
<1> QED
  BY <1>1, <1>2, <1>3, <1>4, <1>5, <1>6, <1>7, <1>8, <1>9, <1>10, <1>11 DEF LanesNext

\* What is proved of the client by itself holds of the one that makes calls.
THEOREM ClientWithin == LanesSpec => Spec
<1>1. LanesInit => Init
  BY DEF LanesInit
<1>2. [LanesNext]_lanesVars => [Next]_vars
  BY ClientStep
<1> QED
  BY <1>1, <1>2, PTL DEF LanesSpec, Spec

-----------------------------------------------------------------------------
(* The numbers.                                                            *)

\* A positive limit, whatever number the user passes for it.
LEMMA PositiveLimit ==
  ASSUME NEW option, IsOption(option), NEW fallback \in Nat \ {0}
  PROVE  PositiveOr(option, fallback) \in Nat \ {0}
<1>1. CASE \E x \in Finite(option) : x.halves >= 2
  <2>1. PICK x \in option : x.halves >= 2
    BY <1>1 DEF Finite
  <2>2. (CHOOSE y \in option : TRUE) = x
    BY <2>1 DEF IsOption
  <2>3. PositiveOr(option, fallback) = x.halves \div 2
    BY <1>1, <2>2 DEF PositiveOr, FloorOf
  <2>4. x.halves \in Int /\ x.halves >= 2
    BY <2>1 DEF IsOption
  <2>5. \A n \in Int : n >= 2 => n \div 2 \in Nat \ {0}
    BY SMT
  <2> QED
    BY <2>3, <2>4, <2>5
<1>2. CASE ~ \E x \in Finite(option) : x.halves >= 2
  BY <1>2 DEF PositiveOr
<1> QED
  BY <1>1, <1>2

ConfigOK ==
  /\ config.maxInflightRequests \in Nat \ {0}
  /\ config.requestQueueDepth \in Nat \ {0}
  /\ config.maxFrameLen \in Nat \ {0}

\* No option the user passes makes a limit of the client zero, negative or a fraction.
LEMMA ConfigInit == LanesInit => ConfigOK
<1> SUFFICES ASSUME LanesInit PROVE ConfigOK
  OBVIOUS
<1>1. PICK options \in OptionChoices : config = ResolveConfig(options)
  BY DEF LanesInit
<1>2. /\ IsOption(options.maxInflightRequests) /\ IsOption(options.requestQueueDepth)
      /\ IsOption(options.maxFrameLen)
  BY OptionsAssumption
<1>3. /\ DefaultInflight \in Nat \ {0} /\ DefaultDepth \in Nat \ {0}
      /\ DefaultFrameLen \in Nat \ {0}
  BY DefaultsAssumption
<1>4. /\ PositiveOr(options.maxInflightRequests, DefaultInflight) \in Nat \ {0}
      /\ PositiveOr(options.requestQueueDepth, DefaultDepth) \in Nat \ {0}
      /\ PositiveOr(options.maxFrameLen, DefaultFrameLen) \in Nat \ {0}
  BY <1>2, <1>3, PositiveLimit
<1> QED
  BY <1>1, <1>4 DEF ConfigOK, ResolveConfig

-----------------------------------------------------------------------------
(* One lane.  Free and held permits never exceed the budget.               *)

Budget == [permits : Nat, waiters : Seq(Nat)]

GoodLanes(max) ==
  {l \in [open : SUBSET Nat, held : SUBSET Nat, budget : Budget, dead : BOOLEAN] :
     IsFiniteSet(l.held) /\ l.budget.permits + Cardinality(l.held) <= max}

\* The semaphore keeps its shape; a permit that is acquired is not free any more.
LEMMA AcquireShape ==
  ASSUME NEW s \in Budget, NEW id \in Nat
  PROVE  /\ L!Acquire(s, id) \in Budget
         /\ L!Acquire(s, id).permits = IF s.permits > 0 THEN s.permits - 1 ELSE s.permits
<1>1. s.permits \in Nat /\ s.waiters \in Seq(Nat) /\ Append(s.waiters, id) \in Seq(Nat)
  BY DEF Budget
<1>2. CASE s.permits > 0
  BY <1>1, <1>2 DEF L!Acquire, Budget
<1>3. CASE ~(s.permits > 0)
  BY <1>1, <1>3 DEF L!Acquire, Budget
<1> QED
  BY <1>2, <1>3

\* The semaphore keeps its shape when a permit comes back.
LEMMA ReleaseShape ==
  ASSUME NEW s \in Budget
  PROVE  /\ L!Release(s) \in Budget
         /\ L!Release(s).permits = IF s.waiters = <<>> THEN s.permits + 1 ELSE s.permits
<1>1. s.permits \in Nat /\ s.waiters \in Seq(Nat)
  BY DEF Budget
<1>2. CASE s.waiters = <<>>
  BY <1>1, <1>2 DEF L!Release, Budget
<1>3. CASE s.waiters # <<>>
  <2>1. Tail(s.waiters) \in Seq(Nat)
    BY <1>1, <1>3, HeadTailProperties
  <2> QED
    BY <1>1, <1>3, <2>1 DEF L!Release, Budget
<1> QED
  BY <1>2, <1>3

\* A lane from its parts.
LEMMA LaneParts ==
  ASSUME NEW max, NEW l \in GoodLanes(max)
  PROVE  /\ l.open \subseteq Nat /\ l.held \subseteq Nat /\ l.budget \in Budget /\ l.dead \in BOOLEAN
         /\ IsFiniteSet(l.held) /\ Cardinality(l.held) \in Nat /\ l.budget.permits \in Nat
         /\ l.budget.permits + Cardinality(l.held) <= max
BY FS_CardinalityType DEF GoodLanes, Budget

\* A new lane has its Hello, and one permit less than its budget.
LEMMA NewLaneGood ==
  ASSUME NEW max \in Nat \ {0}
  PROVE  L!NewLane(max, HelloOf) \in GoodLanes(max)
<1> DEFINE l == L!NewLane(max, HelloOf)
           b == L!Acquire(L!NewSemaphore(max), HelloOf)
<1>1. L!NewSemaphore(max) \in Budget /\ L!NewSemaphore(max).permits = max
  BY DEF L!NewSemaphore, Budget
<1>2. b \in Budget /\ b.permits = max - 1
  BY <1>1, AcquireShape DEF HelloOf
<1>3. l = [open |-> {HelloOf}, held |-> {HelloOf}, budget |-> b, dead |-> FALSE]
  BY DEF L!NewLane
<1>4. IsFiniteSet({HelloOf}) /\ Cardinality({HelloOf}) = 1
  BY FS_Singleton
<1> HIDE DEF l, b
<1>5. /\ l \in [open : SUBSET Nat, held : SUBSET Nat, budget : Budget, dead : BOOLEAN]
      /\ l.held = {HelloOf} /\ l.budget = b
  BY <1>2, <1>3 DEF HelloOf
<1>6. l \in GoodLanes(max)
  BY <1>2, <1>4, <1>5 DEF GoodLanes
<1> QED
  BY <1>6 DEF l

\* A lane with other parts.
LEMMA LaneWith ==
  ASSUME NEW l \in [open : SUBSET Nat, held : SUBSET Nat, budget : Budget, dead : BOOLEAN],
         NEW o \in SUBSET Nat, NEW h \in SUBSET Nat, NEW b \in Budget
  PROVE  /\ LET m == [l EXCEPT !.open = o, !.budget = b, !.held = h] IN
              /\ m \in [open : SUBSET Nat, held : SUBSET Nat, budget : Budget, dead : BOOLEAN]
              /\ m.open = o /\ m.held = h /\ m.budget = b /\ m.dead = l.dead
         /\ LET m == [l EXCEPT !.budget = b, !.held = h] IN
              /\ m \in [open : SUBSET Nat, held : SUBSET Nat, budget : Budget, dead : BOOLEAN]
              /\ m.open = l.open /\ m.held = h /\ m.budget = b /\ m.dead = l.dead
         /\ LET m == [l EXCEPT !.open = o, !.held = h, !.dead = TRUE] IN
              /\ m \in [open : SUBSET Nat, held : SUBSET Nat, budget : Budget, dead : BOOLEAN]
              /\ m.open = o /\ m.held = h /\ m.budget = l.budget /\ m.dead = TRUE
OBVIOUS

\* A request that is issued is open, and holds a permit if one was free.
LEMMA IssueGood ==
  ASSUME NEW max \in Nat, NEW l \in GoodLanes(max), NEW id \in Nat
  PROVE  /\ L!Issue(l, id) \in GoodLanes(max)
         /\ L!Issue(l, id).open = l.open \cup {id}
         /\ L!Issue(l, id).dead = l.dead
         /\ l.held \subseteq L!Issue(l, id).held
<1> DEFINE b == L!Acquire(l.budget, id)
           h == IF l.budget.permits > 0 THEN l.held \cup {id} ELSE l.held
           m == L!Issue(l, id)
<1>1. /\ l.open \subseteq Nat /\ l.held \subseteq Nat /\ l.budget \in Budget /\ l.dead \in BOOLEAN
      /\ IsFiniteSet(l.held) /\ Cardinality(l.held) \in Nat /\ l.budget.permits \in Nat
      /\ l.budget.permits + Cardinality(l.held) <= max
  BY LaneParts
<1>2. /\ b \in Budget
      /\ b.permits = IF l.budget.permits > 0 THEN l.budget.permits - 1 ELSE l.budget.permits
  BY <1>1, AcquireShape
<1>3. l \in [open : SUBSET Nat, held : SUBSET Nat, budget : Budget, dead : BOOLEAN]
  BY DEF GoodLanes
<1>4. m = [l EXCEPT !.open = l.open \cup {id}, !.budget = b, !.held = h]
  BY DEF L!Issue
<1>5. /\ IsFiniteSet(l.held \cup {id})
      /\ Cardinality(l.held \cup {id}) \in Nat
      /\ Cardinality(l.held \cup {id}) <= Cardinality(l.held) + 1
  <2>1. IsFiniteSet(l.held \cup {id})
        /\ Cardinality(l.held \cup {id})
             = IF id \in l.held THEN Cardinality(l.held) ELSE Cardinality(l.held) + 1
    BY <1>1, FS_AddElement
  <2> QED
    BY <1>1, <2>1
<1>6. h \subseteq Nat /\ l.held \subseteq h /\ IsFiniteSet(h) /\ b.permits + Cardinality(h) <= max
  <2>1. CASE l.budget.permits > 0
    <3> DEFINE k == Cardinality(l.held \cup {id})
    <3>1. h = l.held \cup {id} /\ b.permits = l.budget.permits - 1
      BY <1>2, <2>1
    <3>2. k \in Nat /\ k <= Cardinality(l.held) + 1
      BY <1>5
    <3> HIDE DEF k
    <3>3. l.budget.permits - 1 + k <= max
      BY <1>1, <3>2
    <3> QED
      BY <1>1, <1>5, <3>1, <3>3 DEF k
  <2>2. CASE ~(l.budget.permits > 0)
    BY <1>1, <1>2, <2>2
  <2> QED
    BY <2>1, <2>2
<1> HIDE DEF b, h, m
<1>7. /\ m \in [open : SUBSET Nat, held : SUBSET Nat, budget : Budget, dead : BOOLEAN]
      /\ m.open = l.open \cup {id} /\ m.held = h /\ m.budget = b /\ m.dead = l.dead
  <2>1. l.open \cup {id} \in SUBSET Nat /\ h \in SUBSET Nat
    BY <1>1, <1>6
  <2> QED
    BY <1>2, <1>3, <1>4, <2>1, LaneWith
<1>8. m \in GoodLanes(max)
  BY <1>6, <1>7 DEF GoodLanes
<1> QED
  BY <1>6, <1>7, <1>8 DEF m

\* A request that is settled is not open; its permit stays.
LEMMA SettleGood ==
  ASSUME NEW max \in Nat, NEW l \in GoodLanes(max), NEW id
  PROVE  /\ L!Settle(l, id) \in GoodLanes(max)
         /\ L!Settle(l, id).open = l.open \ {id}
         /\ L!Settle(l, id).dead = l.dead
         /\ L!Settle(l, id).held = l.held
BY DEF GoodLanes, L!Settle

\* A permit that returns is free, or passed on.
LEMMA GiveBackGood ==
  ASSUME NEW max \in Nat, NEW l \in GoodLanes(max), NEW id \in l.held
  PROVE  /\ L!GiveBack(l, id) \in GoodLanes(max)
         /\ L!GiveBack(l, id).open = l.open
         /\ L!GiveBack(l, id).dead = l.dead
         /\ l.held \ {id} \subseteq L!GiveBack(l, id).held
<1> DEFINE next == {w \in L!Waiting(l.budget) : L!Woken(l.budget) = <<w>>}
           b == L!Release(l.budget)
           h == (l.held \ {id}) \cup next
           m == L!GiveBack(l, id)
<1>1. /\ l.open \subseteq Nat /\ l.held \subseteq Nat /\ l.budget \in Budget /\ l.dead \in BOOLEAN
      /\ IsFiniteSet(l.held) /\ Cardinality(l.held) \in Nat /\ l.budget.permits \in Nat
      /\ l.budget.permits + Cardinality(l.held) <= max
      /\ l.budget.waiters \in Seq(Nat)
  BY LaneParts DEF Budget
<1>2. /\ b \in Budget
      /\ b.permits = IF l.budget.waiters = <<>> THEN l.budget.permits + 1 ELSE l.budget.permits
  BY <1>1, ReleaseShape
<1>3. m = [l EXCEPT !.budget = b, !.held = h]
  BY DEF L!GiveBack
<1>4. /\ IsFiniteSet(l.held \ {id})
      /\ Cardinality(l.held \ {id}) \in Nat
      /\ Cardinality(l.held \ {id}) = Cardinality(l.held) - 1
  BY <1>1, FS_RemoveElement, FS_CardinalityType
<1>5. h \subseteq Nat /\ IsFiniteSet(h) /\ b.permits + Cardinality(h) <= max
  <2>1. CASE l.budget.waiters = <<>>
    <3>1. next = {}
      BY <2>1 DEF L!Waiting
    <3>2. h = l.held \ {id}
      BY <3>1
    <3> HIDE DEF h, b
    <3> QED
      BY <1>1, <1>2, <1>4, <2>1, <3>2
  <2>2. CASE l.budget.waiters # <<>>
    <3> DEFINE w == Head(l.budget.waiters)
    <3>1. w \in Nat /\ L!Woken(l.budget) = <<w>>
      BY <1>1, <2>2, HeadTailProperties DEF L!Woken
    <3>2. next \subseteq {w}
      BY <3>1
    <3> HIDE DEF w
    <3>3. h \subseteq (l.held \ {id}) \cup {w}
      BY <3>2
    <3> DEFINE big == (l.held \ {id}) \cup {w}
    <3>4. IsFiniteSet(big) /\ Cardinality(big) \in Nat /\ Cardinality(big) <= Cardinality(l.held)
      <4>1. IsFiniteSet(big)
            /\ Cardinality(big) = IF w \in l.held \ {id} THEN Cardinality(l.held \ {id})
                                                       ELSE Cardinality(l.held \ {id}) + 1
        BY <1>4, FS_AddElement
      <4> QED
        BY <1>1, <1>4, <4>1
    <3>5. h \subseteq big
      BY <3>3
    <3> HIDE DEF big, h, b
    <3>6. IsFiniteSet(h) /\ Cardinality(h) \in Nat /\ Cardinality(h) <= Cardinality(big)
      BY <3>4, <3>5, FS_Subset, FS_CardinalityType
    <3>7. b.permits + Cardinality(h) <= max
      BY <1>1, <1>2, <2>2, <3>4, <3>6
    <3>8. h \subseteq Nat
      BY <1>1, <3>1, <3>3
    <3> QED
      BY <3>6, <3>7, <3>8
  <2> QED
    BY <2>1, <2>2
<1>6. l.held \ {id} \subseteq h
  OBVIOUS
<1> HIDE DEF b, h, m
<1>7. /\ m \in [open : SUBSET Nat, held : SUBSET Nat, budget : Budget, dead : BOOLEAN]
      /\ m.open = l.open /\ m.held = h /\ m.budget = b /\ m.dead = l.dead
  <2>1. l \in [open : SUBSET Nat, held : SUBSET Nat, budget : Budget, dead : BOOLEAN]
    BY DEF GoodLanes
  <2> QED
    BY <1>1, <1>2, <1>3, <1>5, <2>1, LaneWith
<1>8. m \in GoodLanes(max)
  BY <1>5, <1>7 DEF GoodLanes
<1> QED
  BY <1>6, <1>7, <1>8 DEF m

\* A lane that dies has nothing open, and may lose permits.
LEMMA LoseGood ==
  ASSUME NEW max \in Nat, NEW l \in GoodLanes(max), NEW lost
  PROVE  /\ L!Lose(l, lost) \in GoodLanes(max)
         /\ L!Lose(l, lost).open = {} /\ L!Lose(l, lost).dead = TRUE
<1> DEFINE m == L!Lose(l, lost)
           h == l.held \ lost
<1>1. /\ l.open \subseteq Nat /\ l.held \subseteq Nat /\ l.budget \in Budget /\ l.dead \in BOOLEAN
      /\ IsFiniteSet(l.held) /\ Cardinality(l.held) \in Nat /\ l.budget.permits \in Nat
      /\ l.budget.permits + Cardinality(l.held) <= max
  BY LaneParts
<1>2. m = [l EXCEPT !.open = {}, !.held = h, !.dead = TRUE]
  BY DEF L!Lose
<1>3. h \subseteq l.held
  OBVIOUS
<1> HIDE DEF h, m
<1>4. IsFiniteSet(h) /\ Cardinality(h) \in Nat /\ Cardinality(h) <= Cardinality(l.held)
  BY <1>1, <1>3, FS_Subset, FS_CardinalityType
<1>5. /\ m \in [open : SUBSET Nat, held : SUBSET Nat, budget : Budget, dead : BOOLEAN]
      /\ m.open = {} /\ m.held = h /\ m.budget = l.budget /\ m.dead = TRUE
  <2>1. l \in [open : SUBSET Nat, held : SUBSET Nat, budget : Budget, dead : BOOLEAN]
    BY DEF GoodLanes
  <2>2. {} \in SUBSET Nat /\ h \in SUBSET Nat
    BY <1>1, <1>3
  <2> QED
    BY <1>1, <1>2, <2>1, <2>2, LaneWith
<1>6. m \in GoodLanes(max)
  BY <1>1, <1>4, <1>5 DEF GoodLanes
<1> QED
  BY <1>5, <1>6 DEF m

-----------------------------------------------------------------------------
(* The client's lanes and requests.  What is open on a lane is what is     *)
(* open in the log of requests, but for the Hello; and a connection that   *)
(* is dialed or greets has its Hello's permit still.                       *)

Outcomes == {"open", "aborted", "ok", "serverError", "tooLarge", "connError"}
Request == [kind : Unary \cup Streams, conn : Conns, outcome : Outcomes, late : BOOLEAN]

Agreed == \A c \in Conns : lanes[c].open \ {HelloOf} = OpenOn(c)

LanesCore ==
  /\ ConfigOK
  /\ lanes \in [Conns -> GoodLanes(config.maxInflightRequests)]
  /\ requests \in Seq(Request)
  /\ Agreed
  /\ LossIsLocal

HelloHeld == \A c \in Conns : phase[c] \in {"dialing", "hello"} => HelloOf \in lanes[c].held

LanesInv == ConnectInv /\ LanesCore /\ HelloHeld

\* The log and its members.
LEMMA RequestsType ==
  ASSUME LanesCore
  PROVE  /\ Len(requests) \in Nat /\ DOMAIN requests = 1 .. Len(requests)
         /\ \A r \in DOMAIN requests : requests[r] \in Request /\ r \in Nat \ {0}
BY DEF LanesCore

\* A log of the same length, its members requests, is a log.
LEMMA LogOf ==
  ASSUME NEW n \in Nat, NEW log, DOMAIN log = 1 .. n, log = [r \in DOMAIN log |-> log[r]],
         \A r \in 1 .. n : log[r] \in Request
  PROVE  log \in Seq(Request)
<1>1. log = [r \in 1 .. n |-> log[r]]
  OBVIOUS
<1> QED
  BY <1>1

\* One lane is set.
LEMMA SetOne ==
  ASSUME LanesCore, NEW c \in Conns, NEW m \in GoodLanes(config.maxInflightRequests),
         SetLane(c, m), config' = config
  PROVE  /\ lanes'[c] = m /\ \A b \in Conns \ {c} : lanes'[b] = lanes[b]
         /\ lanes' \in [Conns -> GoodLanes(config'.maxInflightRequests)]
<1>1. lanes \in [Conns -> GoodLanes(config.maxInflightRequests)]
  BY DEF LanesCore
<1> QED
  BY <1>1 DEF SetLane

\* A lane that changes its permits but nothing that is open.
LEMMA ReturnKeeps ==
  ASSUME LanesCore, NEW c \in Conns, NEW m \in GoodLanes(config.maxInflightRequests),
         SetLane(c, m), m.open \ {HelloOf} = lanes[c].open \ {HelloOf}, m.dead = lanes[c].dead,
         UNCHANGED <<config, requests>>
  PROVE  LanesCore'
<1>1. /\ lanes'[c] = m /\ \A b \in Conns \ {c} : lanes'[b] = lanes[b]
      /\ lanes' \in [Conns -> GoodLanes(config'.maxInflightRequests)]
  BY SetOne
<1>2. ConfigOK' /\ requests' \in Seq(Request)
  BY DEF LanesCore, ConfigOK
<1>3. \A b \in Conns : lanes'[b].open \ {HelloOf} = lanes[b].open \ {HelloOf}
                       /\ lanes'[b].dead = lanes[b].dead
  BY <1>1
<1>4. Agreed'
  BY <1>3 DEF LanesCore, Agreed, OpenOn
<1>5. LossIsLocal'
  <2>1. \A r \in DOMAIN requests : requests[r].conn \in Conns
    BY RequestsType DEF Request
  <2> QED
    BY <1>3, <2>1 DEF LanesCore, LossIsLocal
<1> QED
  BY <1>1, <1>2, <1>4, <1>5 DEF LanesCore

\* A request that is open is settled, in the log and on its lane.
LEMMA SettleKeeps ==
  ASSUME LanesCore, NEW r \in DOMAIN requests, requests[r].outcome = "open",
         NEW result \in Outcomes \ {"open"}, SettleAs(r, result),
         NEW m \in GoodLanes(config.maxInflightRequests), SetLane(requests[r].conn, m),
         m.open = lanes[requests[r].conn].open \ {r}, m.dead = lanes[requests[r].conn].dead,
         result = "connError" => m.dead,
         config' = config
  PROVE  LanesCore'
<1> DEFINE c == requests[r].conn
<1>1. /\ Len(requests) \in Nat /\ DOMAIN requests = 1 .. Len(requests)
      /\ \A q \in DOMAIN requests : requests[q] \in Request /\ q \in Nat \ {0}
  BY RequestsType
<1>2. c \in Conns
  BY <1>1 DEF Request
<1>3. /\ lanes'[c] = m /\ \A b \in Conns \ {c} : lanes'[b] = lanes[b]
      /\ lanes' \in [Conns -> GoodLanes(config'.maxInflightRequests)]
  BY <1>2, SetOne
<1>4. /\ DOMAIN requests' = DOMAIN requests
      /\ requests' = [q \in DOMAIN requests' |-> requests'[q]]
      /\ \A q \in DOMAIN requests : q # r => requests'[q] = requests[q]
      /\ requests'[r] = [requests[r] EXCEPT !.outcome = result]
  BY DEF SettleAs
<1>5. /\ requests'[r] \in Request /\ requests'[r].outcome = result
      /\ requests'[r].conn = c /\ requests'[r].late = requests[r].late
  BY <1>1, <1>4 DEF Request
<1> HIDE DEF c
<1>6. requests' \in Seq(Request)
  <2>1. \A q \in 1 .. Len(requests) : requests'[q] \in Request
    BY <1>1, <1>4, <1>5
  <2> QED
    BY <1>1, <1>4, <2>1, LogOf
<1>7. ASSUME NEW b \in Conns PROVE lanes'[b].open \ {HelloOf} = OpenOn(b)'
  <2>1. lanes[b].open \ {HelloOf} = OpenOn(b)
    BY DEF LanesCore, Agreed
  <2>2. OpenOn(b)' = OpenOn(b) \ {r}
    BY <1>4, <1>5 DEF OpenOn
  <2>3. CASE b = c
    BY <1>3, <2>1, <2>2, <2>3 DEF c
  <2>4. CASE b # c
    <3>1. r \notin OpenOn(b)
      BY <2>4 DEF OpenOn, c
    <3> QED
      BY <1>3, <2>1, <2>2, <2>4, <3>1
  <2> QED
    BY <2>3, <2>4
<1>8. LossIsLocal'
  <2> SUFFICES ASSUME NEW q \in DOMAIN requests
               PROVE  /\ requests'[q].outcome = "connError" => lanes'[requests'[q].conn].dead
                      /\ requests'[q].outcome = "open" /\ lanes'[requests'[q].conn].dead
                           => requests'[q].late
    BY <1>4 DEF LossIsLocal
  <2>1. \A b \in Conns : lanes'[b].dead = lanes[b].dead
    BY <1>3 DEF c
  <2>2. CASE q = r
    BY <1>3, <1>5, <2>2
  <2>3. CASE q # r
    <3>1. requests'[q] = requests[q] /\ requests[q].conn \in Conns
      BY <1>1, <1>4, <2>3 DEF Request
    <3> QED
      BY <2>1, <3>1 DEF LanesCore, LossIsLocal
  <2> QED
    BY <2>2, <2>3
<1>9. ConfigOK'
  BY DEF LanesCore, ConfigOK
<1> QED
  BY <1>3, <1>6, <1>7, <1>8, <1>9 DEF LanesCore, Agreed

\* A request is issued on a connection, open or settled at once.
LEMMA IssueKeeps ==
  ASSUME LanesCore, NEW c \in Conns, NEW k \in Unary \cup Streams,
         NEW first \in {"open", "aborted"}, Issues(k, c, first)
  PROVE  /\ LanesCore'
         /\ \A b \in Conns : lanes[b].held \subseteq lanes'[b].held
<1> DEFINE id == Len(requests) + 1
           x == [kind |-> k, conn |-> c, outcome |-> first, late |-> lanes[c].dead]
           m == IF first = "open" THEN L!Issue(lanes[c], id) ELSE L!IssueSettled(lanes[c], id)
           max == config.maxInflightRequests
<1>1. /\ Len(requests) \in Nat /\ DOMAIN requests = 1 .. Len(requests)
      /\ \A q \in DOMAIN requests : requests[q] \in Request /\ q \in Nat \ {0}
  BY RequestsType
<1>2. max \in Nat /\ lanes[c] \in GoodLanes(max) /\ lanes[c].dead \in BOOLEAN
  BY LaneParts DEF LanesCore, ConfigOK
<1>3. requests' = Append(requests, x) /\ SetLane(c, m) /\ config' = config
  BY DEF Issues
<1>4. x \in Request /\ x.outcome = first /\ x.conn = c /\ x.late = lanes[c].dead
  BY <1>2 DEF Request, Outcomes
<1>5. id \in Nat /\ id # HelloOf /\ id \notin DOMAIN requests
  BY <1>1 DEF HelloOf
<1> HIDE DEF x
<1>6. /\ requests' \in Seq(Request) /\ DOMAIN requests' = DOMAIN requests \cup {id}
      /\ requests'[id] = x /\ \A q \in DOMAIN requests : requests'[q] = requests[q]
  <2>1. requests \in Seq(Request)
    BY DEF LanesCore
  <2>2. /\ requests' \in Seq(Request) /\ Len(requests') = Len(requests) + 1
        /\ \A q \in 1 .. Len(requests) : requests'[q] = requests[q]
        /\ requests'[Len(requests) + 1] = x
    BY <1>3, <1>4, <2>1, AppendProperties
  <2>3. DOMAIN requests' = 1 .. Len(requests) + 1
    BY <2>2
  <2> QED
    BY <1>1, <2>2, <2>3
<1>7. id \notin lanes[c].open
  BY <1>5 DEF LanesCore, Agreed, OpenOn
<1> HIDE DEF id, max
<1>8. /\ L!Issue(lanes[c], id) \in GoodLanes(max)
      /\ L!Issue(lanes[c], id).open = lanes[c].open \cup {id}
      /\ L!Issue(lanes[c], id).dead = lanes[c].dead
      /\ lanes[c].held \subseteq L!Issue(lanes[c], id).held
  BY <1>2, <1>5, IssueGood
<1>9. /\ L!IssueSettled(lanes[c], id) \in GoodLanes(max)
      /\ L!IssueSettled(lanes[c], id).open = lanes[c].open
      /\ L!IssueSettled(lanes[c], id).dead = lanes[c].dead
      /\ lanes[c].held \subseteq L!IssueSettled(lanes[c], id).held
  <2>1. /\ L!Settle(L!Issue(lanes[c], id), id) \in GoodLanes(max)
        /\ L!Settle(L!Issue(lanes[c], id), id).open = L!Issue(lanes[c], id).open \ {id}
        /\ L!Settle(L!Issue(lanes[c], id), id).dead = L!Issue(lanes[c], id).dead
        /\ L!Settle(L!Issue(lanes[c], id), id).held = L!Issue(lanes[c], id).held
    BY <1>2, <1>8, SettleGood
  <2> QED
    BY <1>7, <1>8, <2>1 DEF L!IssueSettled
<1>10. /\ m \in GoodLanes(max) /\ m.dead = lanes[c].dead /\ lanes[c].held \subseteq m.held
       /\ m.open = IF first = "open" THEN lanes[c].open \cup {id} ELSE lanes[c].open
  BY <1>8, <1>9
<1> HIDE DEF m
<1>11. /\ lanes'[c] = m /\ \A b \in Conns \ {c} : lanes'[b] = lanes[b]
       /\ lanes' \in [Conns -> GoodLanes(config'.maxInflightRequests)]
  BY <1>3, <1>10, SetOne DEF max
<1>12. ASSUME NEW b \in Conns PROVE lanes'[b].open \ {HelloOf} = OpenOn(b)'
  <2>1. lanes[b].open \ {HelloOf} = OpenOn(b)
    BY DEF LanesCore, Agreed
  <2>2. OpenOn(b)' = OpenOn(b) \cup {q \in {id} : c = b /\ first = "open"}
    BY <1>4, <1>5, <1>6 DEF OpenOn
  <2>3. CASE b = c
    BY <1>5, <1>10, <1>11, <2>1, <2>2, <2>3
  <2>4. CASE b # c
    BY <1>11, <2>1, <2>2, <2>4
  <2> QED
    BY <2>3, <2>4
<1>13. LossIsLocal'
  <2> SUFFICES ASSUME NEW q \in DOMAIN requests'
               PROVE  /\ requests'[q].outcome = "connError" => lanes'[requests'[q].conn].dead
                      /\ requests'[q].outcome = "open" /\ lanes'[requests'[q].conn].dead
                           => requests'[q].late
    BY DEF LossIsLocal
  <2>1. \A b \in Conns : lanes'[b].dead = lanes[b].dead
    BY <1>10, <1>11
  <2>2. CASE q = id
    BY <1>4, <1>6, <2>1, <2>2
  <2>3. CASE q # id
    <3>1. q \in DOMAIN requests /\ requests'[q] = requests[q] /\ requests[q].conn \in Conns
      BY <1>1, <1>6, <2>3 DEF Request
    <3> QED
      BY <2>1, <3>1 DEF LanesCore, LossIsLocal
  <2> QED
    BY <2>2, <2>3
<1>14. ConfigOK'
  BY <1>3 DEF LanesCore, ConfigOK
<1> QED
  BY <1>6, <1>10, <1>11, <1>12, <1>13, <1>14 DEF LanesCore, Agreed

\* Connections die: what was open on them fails, and nothing else does.
LEMMA DieKeeps ==
  ASSUME LanesCore, NEW conns \in SUBSET Conns, Die(conns)
  PROVE  /\ LanesCore'
         /\ \A c \in Conns \ conns : lanes'[c] = lanes[c]
<1> DEFINE dying == {c \in conns : ~lanes[c].dead}
           max == config.maxInflightRequests
<1>1. /\ Len(requests) \in Nat /\ DOMAIN requests = 1 .. Len(requests)
      /\ \A q \in DOMAIN requests : requests[q] \in Request /\ q \in Nat \ {0}
  BY RequestsType
<1>2. max \in Nat /\ \A c \in Conns : lanes[c] \in GoodLanes(max) /\ lanes[c].dead \in BOOLEAN
  BY LaneParts DEF LanesCore, ConfigOK
<1>3. PICK lost \in [dying -> SUBSET UNION {lanes[c].held : c \in dying}] :
        lanes' = [c \in Conns |-> IF c \in dying THEN L!Lose(lanes[c], lost[c]) ELSE lanes[c]]
  BY DEF Die
<1>4. FailOn(dying) /\ config' = config
  BY DEF Die
<1>5. dying \subseteq Conns /\ dying \subseteq conns
  OBVIOUS
<1>6. \A c \in Conns \ dying : lanes'[c] = lanes[c]
  BY <1>3
<1>7. \A c \in dying : lanes'[c] \in GoodLanes(max) /\ lanes'[c].open = {} /\ lanes'[c].dead
  <2> SUFFICES ASSUME NEW c \in dying
               PROVE  lanes'[c] \in GoodLanes(max) /\ lanes'[c].open = {} /\ lanes'[c].dead
    OBVIOUS
  <2>1. lanes'[c] = L!Lose(lanes[c], lost[c])
    BY <1>3
  <2>2. lanes[c] \in GoodLanes(max)
    BY <1>2
  <2> HIDE DEF dying, max
  <2>3. /\ L!Lose(lanes[c], lost[c]) \in GoodLanes(max)
        /\ L!Lose(lanes[c], lost[c]).open = {} /\ L!Lose(lanes[c], lost[c]).dead = TRUE
    BY <1>2, <2>2, LoseGood
  <2> QED
    BY <2>1, <2>3
<1>8. \A c \in Conns \ conns : lanes'[c] = lanes[c]
  BY <1>6
<1>9. \A c \in dying : ~lanes[c].dead
  OBVIOUS
<1> HIDE DEF dying, max
<1>10. lanes' \in [Conns -> GoodLanes(config'.maxInflightRequests)]
  <2>1. lanes' = [c \in Conns |-> lanes'[c]]
    BY <1>3
  <2>2. \A c \in Conns : lanes'[c] \in GoodLanes(max)
    BY <1>2, <1>6, <1>7
  <2> QED
    BY <1>4, <2>1, <2>2 DEF max
<1>11. /\ DOMAIN requests' = DOMAIN requests
       /\ requests' = [q \in DOMAIN requests' |-> requests'[q]]
       /\ \A q \in DOMAIN requests :
            requests'[q] = IF requests[q].conn \in dying /\ requests[q].outcome = "open"
                           THEN [requests[q] EXCEPT !.outcome = "connError"] ELSE requests[q]
  BY <1>4 DEF FailOn
<1>12. \A q \in DOMAIN requests :
         /\ requests'[q] \in Request
         /\ requests'[q].conn = requests[q].conn /\ requests'[q].late = requests[q].late
         /\ requests'[q].outcome =
              IF requests[q].conn \in dying /\ requests[q].outcome = "open"
              THEN "connError" ELSE requests[q].outcome
  BY <1>1, <1>11 DEF Request, Outcomes
<1>13. requests' \in Seq(Request)
  BY <1>1, <1>11, <1>12, LogOf
<1>14. ASSUME NEW c \in Conns PROVE lanes'[c].open \ {HelloOf} = OpenOn(c)'
  <2>1. lanes[c].open \ {HelloOf} = OpenOn(c)
    BY DEF LanesCore, Agreed
  <2>2. CASE c \in dying
    <3>1. OpenOn(c)' = {}
      BY <1>11, <1>12, <2>2 DEF OpenOn
    <3> QED
      BY <1>7, <2>2, <3>1
  <2>3. CASE c \notin dying
    <3>1. OpenOn(c)' = OpenOn(c)
      BY <1>11, <1>12, <2>3 DEF OpenOn
    <3> QED
      BY <1>6, <2>1, <2>3, <3>1
  <2> QED
    BY <2>2, <2>3
<1>15. LossIsLocal'
  <2> SUFFICES ASSUME NEW q \in DOMAIN requests
               PROVE  /\ requests'[q].outcome = "connError" => lanes'[requests'[q].conn].dead
                      /\ requests'[q].outcome = "open" /\ lanes'[requests'[q].conn].dead
                           => requests'[q].late
    BY <1>11 DEF LossIsLocal
  <2>1. requests[q].conn \in Conns
    BY <1>1 DEF Request
  <2>2. CASE requests[q].conn \in dying
    BY <1>7, <1>12, <2>2
  <2>3. CASE requests[q].conn \notin dying
    BY <1>6, <1>12, <2>1, <2>3 DEF LanesCore, LossIsLocal
  <2> QED
    BY <2>2, <2>3
<1>16. ConfigOK'
  BY <1>4 DEF LanesCore, ConfigOK
<1> QED
  BY <1>8, <1>10, <1>13, <1>14, <1>15, <1>16 DEF LanesCore, Agreed

\* A permit returns with nothing settled, or with the Hello.
LEMMA GiveBackKeeps ==
  ASSUME LanesCore, NEW c \in Conns, NEW r \in lanes[c].held,
         SetLane(c, L!GiveBack(L!Settle(lanes[c], r), r))
  PROVE  /\ r = HelloOf \/ r \notin lanes[c].open => (UNCHANGED <<config, requests>> => LanesCore')
         /\ config' = config =>
              /\ lanes[c].held \ {r} \subseteq lanes'[c].held
              /\ \A b \in Conns \ {c} : lanes'[b] = lanes[b]
         /\ L!GiveBack(L!Settle(lanes[c], r), r) \in GoodLanes(config.maxInflightRequests)
         /\ L!GiveBack(L!Settle(lanes[c], r), r).open = lanes[c].open \ {r}
         /\ L!GiveBack(L!Settle(lanes[c], r), r).dead = lanes[c].dead
<1> DEFINE max == config.maxInflightRequests
           l == L!Settle(lanes[c], r)
           m == L!GiveBack(l, r)
<1>1. max \in Nat /\ lanes[c] \in GoodLanes(max)
  BY DEF LanesCore, ConfigOK
<1>2. SetLane(c, m)
  OBVIOUS
<1> HIDE DEF max
<1>3. l \in GoodLanes(max) /\ l.open = lanes[c].open \ {r} /\ l.dead = lanes[c].dead
      /\ l.held = lanes[c].held
  BY <1>1, SettleGood
<1> HIDE DEF l
<1>4. r \in l.held
  BY <1>3
<1>5. m \in GoodLanes(max) /\ m.open = l.open /\ m.dead = l.dead /\ l.held \ {r} \subseteq m.held
  BY <1>1, <1>3, <1>4, GiveBackGood
<1> HIDE DEF m
<1>6. config' = config => lanes'[c] = m /\ \A b \in Conns \ {c} : lanes'[b] = lanes[b]
  BY <1>2, <1>5, SetOne DEF max
<1>7. ASSUME r = HelloOf \/ r \notin lanes[c].open, UNCHANGED <<config, requests>>
      PROVE  LanesCore'
  <2>1. m.open \ {HelloOf} = lanes[c].open \ {HelloOf} /\ m.dead = lanes[c].dead
    BY <1>3, <1>5, <1>7
  <2> QED
    BY <1>2, <1>5, <1>7, <2>1, ReturnKeeps DEF max
<1> QED
  BY <1>3, <1>5, <1>6, <1>7 DEF m, l, max

-----------------------------------------------------------------------------
(* The steps.                                                              *)

\* No connection goes back to its dial or its greeting.
LEMMA PhaseBack ==
  ASSUME TypeOK, [Next]_vars, NEW c \in Conns, phase'[c] \in {"dialing", "hello"}
  PROVE  phase[c] \in {"dialing", "hello"}
<1> USE DEF TypeOK
<1>1. ASSUME NEW b \in Conns,
             \/ DialReady(b) \/ DialFails(b) \/ HelloAcked(b)
             \/ HelloRefused(b) \/ CloseRefused(b) \/ SocketLost(b)
      PROVE  phase[c] \in {"dialing", "hello"}
  BY <1>1 DEF DialReady, DialFails, HelloAcked, HelloRefused, CloseRefused, SocketLost
<1>2. CASE Abort
  BY <1>2 DEF Abort
<1>3. CASE Reject \/ Close \/ Fulfill \/ Call \/ UNCHANGED vars
  BY <1>3 DEF Reject, Close, Fulfill, Call, vars
<1> QED
  BY <1>1, <1>2, <1>3 DEF Next

\* Nothing of the lanes moves.
LEMMA LanesIdle ==
  ASSUME LanesInv, [Next]_vars, UNCHANGED <<config, laneVars>>
  PROVE  LanesCore' /\ HelloHeld'
<1>1. UNCHANGED <<config, lanes, requests>>
  BY DEF laneVars
<1>2. LanesCore'
  BY <1>1 DEF LanesInv, LanesCore, ConfigOK, Agreed, OpenOn, LossIsLocal
<1>3. HelloHeld'
  BY <1>1, PhaseBack DEF LanesInv, ConnectInv, HelloHeld
<1> QED
  BY <1>2, <1>3

\* Connections past their greeting die.
LEMMA DiePast ==
  ASSUME LanesInv, [Next]_vars, NEW conns \in SUBSET Conns, Die(conns),
         \A c \in conns : phase'[c] \notin {"dialing", "hello"}
  PROVE  LanesCore' /\ HelloHeld'
<1>1. LanesCore' /\ \A c \in Conns \ conns : lanes'[c] = lanes[c]
  BY DieKeeps DEF LanesInv
<1>2. HelloHeld'
  BY <1>1, PhaseBack DEF LanesInv, ConnectInv, HelloHeld
<1> QED
  BY <1>1, <1>2

\* An opening's step keeps the invariant.
LEMMA OpensKeeps ==
  ASSUME LanesInv, NEW c \in Conns, Opens(c)
  PROVE  LanesCore' /\ HelloHeld'
<1>0. [Next]_vars /\ LanesCore /\ TypeOK
  BY DEF Opens, Next, LanesInv, ConnectInv
<1>1. CASE (DialReady(c) \/ DialFails(c)) /\ UNCHANGED <<config, laneVars>>
  BY <1>0, <1>1, LanesIdle
<1>2. ASSUME HelloAcked(c) \/ HelloRefused(c), UNCHANGED <<config, requests>>,
             SetLane(c, L!GiveBack(L!Settle(lanes[c], HelloOf), HelloOf))
      PROVE  LanesCore' /\ HelloHeld'
  <2>1. HelloOf \in lanes[c].held
    BY <1>2 DEF HelloAcked, HelloRefused, LanesInv, HelloHeld
  <2>2. LanesCore' /\ \A b \in Conns \ {c} : lanes'[b] = lanes[b]
    BY <1>0, <1>2, <2>1, GiveBackKeeps
  <2>3. phase'[c] \notin {"dialing", "hello"}
    BY <1>0, <1>2 DEF HelloAcked, HelloRefused, TypeOK
  <2>4. HelloHeld'
    BY <1>0, <2>2, <2>3, PhaseBack DEF LanesInv, HelloHeld
  <2> QED
    BY <2>2, <2>4
<1>3. CASE HelloRefused(c) /\ Die({c})
  <2>1. phase'[c] \notin {"dialing", "hello"}
    BY <1>0, <1>3 DEF HelloRefused, TypeOK
  <2> QED
    BY <1>0, <1>3, <2>1, DiePast
<1>4. CASE (CloseRefused(c) \/ SocketLost(c)) /\ Die(Destroyed)
  <2>1. \A b \in Destroyed : b = c
    BY <1>0, <1>4 DEF CloseRefused, SocketLost, Destroyed, TypeOK
  <2>2. phase'[c] \notin {"dialing", "hello"}
    BY <1>0, <1>4 DEF CloseRefused, SocketLost, TypeOK
  <2>3. Destroyed \in SUBSET Conns
    BY DEF Destroyed
  <2> DEFINE gone == Destroyed
  <2>4. gone \in SUBSET Conns /\ Die(gone) /\ \A b \in gone : phase'[b] \notin {"dialing", "hello"}
    BY <1>4, <2>1, <2>2, <2>3
  <2> HIDE DEF gone
  <2> QED
    BY <1>0, <2>4, DiePast
<1> QED
  BY <1>1, <1>2, <1>3, <1>4 DEF Opens

\* A request's permit is not the Hello's.
LEMMA SetKeepsHello ==
  ASSUME LanesInv, UNCHANGED vars, NEW c \in Conns, NEW r, r # HelloOf,
         lanes[c].held \ {r} \subseteq lanes'[c].held,
         \A b \in Conns \ {c} : lanes'[b] = lanes[b]
  PROVE  HelloHeld'
BY DEF LanesInv, HelloHeld, vars

\* The server's answer, a stop by the user and a coroutine that resumes keep it.
LEMMA StopKeeps ==
  ASSUME LanesInv, NEW r \in DOMAIN requests, Stop(r)
  PROVE  LanesCore' /\ HelloHeld'
<1> DEFINE c == requests[r].conn
           m == L!Settle(lanes[c], r)
           n == L!GiveBack(m, r)
<1>1. LanesCore /\ requests[r] \in Request /\ r \in Nat \ {0} /\ c \in Conns
  BY RequestsType DEF LanesInv, Request
<1>2. r # HelloOf /\ UNCHANGED <<vars, config>> /\ requests[r].outcome = "open"
      /\ SettleAs(r, "aborted")
  BY <1>1 DEF HelloOf, Stop
<1>3. "aborted" \in Outcomes \ {"open"} /\ "aborted" # "connError"
  BY DEF Outcomes
<1>4. CASE SetLane(c, m)
  <2>1. /\ config.maxInflightRequests \in Nat
        /\ lanes[c] \in GoodLanes(config.maxInflightRequests)
    BY <1>1 DEF LanesCore, ConfigOK
  <2>2. /\ m \in GoodLanes(config.maxInflightRequests) /\ m.open = lanes[c].open \ {r}
        /\ m.dead = lanes[c].dead /\ m.held = lanes[c].held
    BY <2>1, SettleGood
  <2> HIDE DEF m
  <2>3. LanesCore'
    BY <1>1, <1>2, <1>3, <1>4, <2>2, SettleKeeps
  <2>4. lanes[c].held \ {r} \subseteq lanes'[c].held /\ \A b \in Conns \ {c} : lanes'[b] = lanes[b]
    BY <1>1, <1>2, <1>4, <2>2, SetOne
  <2> QED
    BY <1>1, <1>2, <2>3, <2>4, SetKeepsHello
<1>5. CASE r \in lanes[c].held /\ SetLane(c, n)
  <2>1. /\ n \in GoodLanes(config.maxInflightRequests) /\ n.open = lanes[c].open \ {r}
        /\ n.dead = lanes[c].dead
        /\ lanes[c].held \ {r} \subseteq lanes'[c].held /\ \A b \in Conns \ {c} : lanes'[b] = lanes[b]
    BY <1>1, <1>2, <1>5, GiveBackKeeps
  <2> HIDE DEF n
  <2>2. LanesCore'
    BY <1>1, <1>2, <1>3, <1>5, <2>1, SettleKeeps
  <2> QED
    BY <1>1, <1>2, <2>1, <2>2, SetKeepsHello
<1> QED
  BY <1>4, <1>5 DEF Stop

\* An answer settles its request on its lane and in the log, and frees its permit.
LEMMA AnswerKeeps ==
  ASSUME LanesInv, NEW r \in DOMAIN requests, Answer(r)
  PROVE  LanesCore' /\ HelloHeld'
<1> DEFINE c == requests[r].conn
           n == L!GiveBack(L!Settle(lanes[c], r), r)
<1>1. LanesCore /\ requests[r] \in Request /\ r \in Nat \ {0} /\ c \in Conns
  BY RequestsType DEF LanesInv, Request
<1>2. /\ r # HelloOf /\ UNCHANGED <<vars, config>> /\ requests[r].outcome = "open"
      /\ r \in lanes[c].held /\ SetLane(c, n)
  BY <1>1 DEF HelloOf, Answer
<1>3. PICK result \in {"ok", "serverError", "tooLarge"} : SettleAs(r, result)
  BY DEF Answer
<1>4. result \in Outcomes \ {"open"} /\ result # "connError"
  BY DEF Outcomes
<1>5. /\ n \in GoodLanes(config.maxInflightRequests) /\ n.open = lanes[c].open \ {r}
      /\ n.dead = lanes[c].dead
      /\ lanes[c].held \ {r} \subseteq lanes'[c].held /\ \A b \in Conns \ {c} : lanes'[b] = lanes[b]
  BY <1>1, <1>2, GiveBackKeeps
<1> HIDE DEF n
<1>6. LanesCore'
  BY <1>1, <1>2, <1>3, <1>4, <1>5, SettleKeeps
<1> QED
  BY <1>1, <1>2, <1>5, <1>6, SetKeepsHello

\* A coroutine that resumes too late gives its permit back.
LEMMA ResumeKeeps ==
  ASSUME LanesInv, NEW c \in Conns, NEW r \in lanes[c].held \ {HelloOf}, Resume(c, r)
  PROVE  LanesCore' /\ HelloHeld'
<1> DEFINE n == L!GiveBack(L!Settle(lanes[c], r), r)
<1>1. LanesCore /\ r # HelloOf /\ UNCHANGED <<vars, config>> /\ SetLane(c, n)
      /\ (r \in lanes[c].open => lanes[c].dead)
  BY DEF LanesInv, Resume
<1>2. /\ n \in GoodLanes(config.maxInflightRequests) /\ n.open = lanes[c].open \ {r}
      /\ n.dead = lanes[c].dead
      /\ lanes[c].held \ {r} \subseteq lanes'[c].held /\ \A b \in Conns \ {c} : lanes'[b] = lanes[b]
      /\ (r \notin lanes[c].open => (UNCHANGED <<config, requests>> => LanesCore'))
  BY <1>1, GiveBackKeeps
<1> HIDE DEF n
<1>3. CASE r \notin lanes[c].open
  BY <1>1, <1>2, <1>3, SetKeepsHello DEF Resume
<1>4. CASE r \in lanes[c].open
  <2>1. r \in DOMAIN requests /\ requests[r].conn = c /\ requests[r].outcome = "open"
    BY <1>1, <1>4 DEF LanesCore, Agreed, OpenOn
  <2>2. SettleAs(r, "connError") /\ "connError" \in Outcomes \ {"open"} /\ n.dead
    BY <1>1, <1>2, <1>4 DEF Resume, Outcomes
  <2>3. LanesCore'
    BY <1>1, <1>2, <2>1, <2>2, SettleKeeps
  <2> QED
    BY <1>1, <1>2, <2>3, SetKeepsHello
<1> QED
  BY <1>3, <1>4

\* Every step keeps the invariant.
LEMMA LanesStep ==
  ASSUME LanesInv, [LanesNext]_lanesVars
  PROVE  LanesInv'
<1>0. /\ [Next]_vars /\ ConnectInv /\ LanesCore /\ TypeOK
  BY ClientStep DEF LanesInv, ConnectInv
<1>1. ConnectInv'
  BY <1>0, TypeStep, AllOrNothingStep, GivenUpStep DEF ConnectInv
<1>2. SUFFICES LanesCore' /\ HelloHeld'
  BY <1>1 DEF LanesInv
<1>3. ASSUME NEW c \in Conns, ConnFails(c) PROVE LanesCore' /\ HelloHeld'
  <2>1. /\ {c} \in SUBSET Conns /\ Die({c})
        /\ \A b \in {c} : phase'[b] \notin {"dialing", "hello"}
    BY <1>3 DEF ConnFails, vars
  <2> QED
    BY <1>0, <2>1, DiePast
<1>4. CASE (Abort \/ Fulfill) /\ UNCHANGED <<config, laneVars>>
  BY <1>0, <1>4, LanesIdle
<1>5. CASE Reject /\ Die(Destroyed)
  <2> DEFINE gone == Destroyed
  <2>1. gone \in SUBSET Conns
    BY DEF Destroyed
  <2>2. \A b \in gone : phase'[b] \notin {"dialing", "hello"}
    BY <1>0, <1>5 DEF Destroyed, Reject, ConnSettled
  <2>3. Die(gone)
    BY <1>5
  <2> HIDE DEF gone
  <2> QED
    BY <1>0, <2>1, <2>2, <2>3, DiePast
<1>6. ASSUME NEW k \in CallKinds, CallUnary(k) PROVE LanesCore' /\ HelloHeld'
  <2>1. k \in Unary \cup Streams /\ Control \in Conns /\ UNCHANGED vars
    BY <1>6 DEF CallUnary, Conns
  <2>2. PICK first \in {"open", "aborted"} : Issues(k, Control, first)
    BY <1>6 DEF CallUnary
  <2>3. LanesCore' /\ \A b \in Conns : lanes[b].held \subseteq lanes'[b].held
    BY <1>0, <2>1, <2>2, IssueKeeps
  <2> QED
    BY <2>1, <2>3 DEF LanesInv, HelloHeld, vars
<1>7. ASSUME NEW k \in CallKinds, CallStream(k) PROVE LanesCore' /\ HelloHeld'
  <2>1. k \in Unary \cup Streams /\ Picked \in Conns /\ Issues(k, Picked, "open")
    BY <1>0, <1>7, PickedConn DEF CallStream
  <2>2. "open" \in {"open", "aborted"}
    OBVIOUS
  <2>3. LanesCore' /\ \A b \in Conns : lanes[b].held \subseteq lanes'[b].held
    BY <1>0, <2>1, <2>2, IssueKeeps
  <2> QED
    BY <1>0, <2>3, PhaseBack DEF LanesInv, HelloHeld
<1>8. CASE CallThrows
  BY <1>0, <1>8, LanesIdle DEF CallThrows
<1>9. CASE Closes
  <2>1. \A b \in Conns : phase'[b] \notin {"dialing", "hello"}
    BY <1>0, <1>9 DEF Closes, Close, ConnectInv, AllOrNothing
  <2>2. Conns \in SUBSET Conns /\ Die(Conns)
    BY <1>9 DEF Closes
  <2> QED
    BY <1>0, <2>1, <2>2, DiePast
<1>10. CASE UNCHANGED lanesVars
  BY <1>0, <1>10, LanesIdle DEF lanesVars
<1> QED
  BY <1>3, <1>4, <1>5, <1>6, <1>7, <1>8, <1>9, <1>10,
     OpensKeeps, StopKeeps, AnswerKeeps, ResumeKeeps DEF LanesNext

\* At first every lane has its Hello, and nothing was issued.
LEMMA LanesStart == LanesInit => LanesInv
<1> SUFFICES ASSUME LanesInit PROVE LanesInv
  OBVIOUS
<1> DEFINE max == config.maxInflightRequests
<1>1. ConnectInv
  BY TypeInit DEF LanesInit, Init, ConnectInv, AllOrNothing, GivenUp
<1>2. ConfigOK /\ max \in Nat \ {0}
  BY ConfigInit DEF ConfigOK
<1>3. requests = <<>> /\ lanes = [c \in Conns |-> L!NewLane(max, HelloOf)]
  BY DEF LanesInit
<1> HIDE DEF max
<1>4. /\ L!NewLane(max, HelloOf) \in GoodLanes(max)
      /\ L!NewLane(max, HelloOf).open = {HelloOf} /\ L!NewLane(max, HelloOf).held = {HelloOf}
  BY <1>2, NewLaneGood DEF L!NewLane
<1>5. lanes \in [Conns -> GoodLanes(max)] /\ requests \in Seq(Request)
  BY <1>3, <1>4
<1>6. \A c \in Conns : OpenOn(c) = {}
  BY <1>3 DEF OpenOn
<1>7. Agreed /\ LossIsLocal /\ HelloHeld
  BY <1>3, <1>4, <1>6 DEF Agreed, LossIsLocal, HelloHeld
<1> QED
  BY <1>1, <1>2, <1>5, <1>7 DEF LanesInv, LanesCore, max

\* Whatever numbers the user passes, every limit is a positive whole number; and on every
\* connection free and held permits stay within the budget, and what is open is what the
\* user's requests have open.
THEOREM LanesTyping == LanesSpec => []LanesTypeOK
<1>1. LanesInv => LanesTypeOK
  <2> SUFFICES ASSUME LanesInv PROVE LanesTypeOK
    OBVIOUS
  <2> DEFINE max == config.maxInflightRequests
  <2>1. ConfigOK /\ max \in Nat /\ lanes \in [Conns -> GoodLanes(max)]
    BY DEF LanesInv, LanesCore, ConfigOK
  <2>2. ASSUME NEW c \in Conns
        PROVE  /\ lanes[c].budget.permits \in 0 .. max
               /\ Cardinality(lanes[c].held) <= max
               /\ lanes[c].dead \in BOOLEAN
    <3>1. lanes[c] \in GoodLanes(max)
      BY <2>1
    <3> HIDE DEF max
    <3>2. /\ Cardinality(lanes[c].held) \in Nat /\ lanes[c].budget.permits \in Nat
          /\ lanes[c].budget.permits + Cardinality(lanes[c].held) <= max
          /\ lanes[c].dead \in BOOLEAN
      BY <3>1, LaneParts
    <3> QED
      BY <2>1, <3>2
  <2>3. \A c \in Conns : lanes[c].open \ {HelloOf} = OpenOn(c)
    BY DEF LanesInv, LanesCore, Agreed
  <2> QED
    BY <2>1, <2>2, <2>3 DEF LanesTypeOK, ConfigOK
<1>2. LanesInv /\ [LanesNext]_lanesVars => LanesInv'
  BY LanesStep
<1> QED
  BY <1>1, <1>2, LanesStart, PTL DEF LanesSpec

\* The loss of a connection fails the requests open on it, all of them, and no other.
THEOREM LossContained == LanesSpec => []LossIsLocal
<1>1. LanesInv => LossIsLocal
  BY DEF LanesInv, LanesCore
<1>2. LanesInv /\ [LanesNext]_lanesVars => LanesInv'
  BY LanesStep
<1> QED
  BY <1>1, <1>2, LanesStart, PTL DEF LanesSpec

\* A connect that serves requests is still all or nothing, and its pool used in turn.
THEOREM LanesClient == LanesSpec => [](TypeOK /\ AllOrNothing /\ FairShare)
BY ClientWithin, Typing, ConnectAtomic, RoundRobin, PTL
=============================================================================
