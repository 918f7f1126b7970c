------------------------------ MODULE Requests ------------------------------
(***************************************************************************)
(* What one connection promises its callers, with no word of permits,      *)
(* queues, frames or microtasks: every request is settled at most once;    *)
(* losing the connection settles, at one stroke, all that are open; and    *)
(* nothing succeeds on a lost connection.                                  *)
(***************************************************************************)
EXTENDS Naturals

CONSTANT Hello   \* the request a connection is opened with

VARIABLES
  outcome,   \* outcome[id] for every request issued
  down       \* the connection is lost

Open == {id \in DOMAIN outcome : outcome[id] = "open"}
Failures == {"serverError", "protocolError", "connError", "aborted", "ended", "tooLarge"}

Init == outcome = [id \in {Hello} |-> "open"] /\ down = FALSE

\* Requests are numbered upwards.  One whose signal is aborted already is settled
\* from the start.
Issue(id, first) ==
  /\ \A earlier \in DOMAIN outcome : earlier < id
  /\ outcome' = [i \in DOMAIN outcome \cup {id} |-> IF i = id THEN first ELSE outcome[i]]
  /\ UNCHANGED down

Settle(id, result) ==
  /\ id \in Open
  /\ result = "ok" => ~down
  /\ outcome' = [outcome EXCEPT ![id] = result]
  /\ UNCHANGED down

Lose ==
  /\ ~down
  /\ down' = TRUE
  /\ outcome' = [i \in DOMAIN outcome |-> IF i \in Open THEN "connError" ELSE outcome[i]]

\* Issue's id is existentially bound by the new domain, so that the specification
\* needs no bound on the numbers.
Next ==
  \/ \E id \in DOMAIN outcome' : \E first \in {"open", "aborted"} : Issue(id, first)
  \/ \E id \in DOMAIN outcome : \E result \in {"ok"} \cup Failures : Settle(id, result)
  \/ Lose

Spec == Init /\ [][Next]_<<outcome, down>>
=============================================================================
