------------------------------ MODULE Decoder ------------------------------
(***************************************************************************)
(* A decoder of messages.ts: the loop over the fields of its message.      *)
(***************************************************************************)
EXTENDS Naturals, Sequences

CONSTANTS
  Fresh,       \* the message before any field
  Case(_, _)   \* its switch: the messages that a message and a field become, none
               \* when the decoder of a nested message throws

\* The loop over the fields that were read.
Merged(fields) ==
  LET upTo[n \in 0 .. Len(fields)] ==
        IF n = 0 THEN {Fresh} ELSE UNION {Case(m, fields[n]) : m \in upTo[n - 1]}
  IN  upTo[Len(fields)]
=============================================================================
