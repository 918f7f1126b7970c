------------------------------- MODULE Options -------------------------------
(***************************************************************************)
(* The numbers of ClientOptions and what resolveConfig makes of them.  An  *)
(* option is a set: empty when it is unset, else a JavaScript number: not  *)
(* finite (NaN, an infinity), or a count of halves, so that fractions      *)
(* occur.  tls, authToken and connectTimeout are passed on as they are.    *)
(***************************************************************************)
EXTENDS Integers

CONSTANTS
  DefaultBulk,       \* DEFAULT_BULK_CONNECTIONS
  DefaultInflight,   \* DEFAULT_MAX_INFLIGHT_REQUESTS
  DefaultDepth,      \* DEFAULT_REQUEST_QUEUE_DEPTH
  DefaultFrameLen    \* DEFAULT_MAX_FRAME_LEN

ASSUME DefaultsAssumption ==
  /\ DefaultBulk \in Nat
  /\ {DefaultInflight, DefaultDepth, DefaultFrameLen} \subseteq Nat \ {0}

Unset == {}
NotFinite == {[finite |-> FALSE, halves |-> 0]}
Halves(n) == {[finite |-> TRUE, halves |-> n]}

\* The finite numbers among an option: one or none.
Finite(option) == {x \in option : x.finite}
FloorOf(x) == x.halves \div 2

\* Mutant: a fraction below one passes.
PositiveOrFraction(option, fallback) ==
  IF \E x \in Finite(option) : x.halves > 0
  THEN FloorOf(CHOOSE x \in option : TRUE) ELSE fallback

PositiveOr(option, fallback) ==
  IF \E x \in Finite(option) : x.halves >= 2
  THEN FloorOf(CHOOSE x \in option : TRUE) ELSE fallback

\* No bulk connection is a choice; a negative number of them is not.
BulkOr(option, fallback) ==
  IF \E x \in Finite(option) : x.halves >= 0
  THEN FloorOf(CHOOSE x \in option : TRUE) ELSE fallback

ResolveConfig(options) ==
  [bulkConnections     |-> BulkOr(options.bulkConnections, DefaultBulk),
   maxInflightRequests |-> PositiveOr(options.maxInflightRequests, DefaultInflight),
   requestQueueDepth   |-> PositiveOr(options.requestQueueDepth, DefaultDepth),
   maxFrameLen         |-> PositiveOr(options.maxFrameLen, DefaultFrameLen)]
=============================================================================
