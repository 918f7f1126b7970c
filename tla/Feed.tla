-------------------------------- MODULE Feed --------------------------------
(***************************************************************************)
(* What a stream promises whoever iterates it, with no word of buffers,    *)
(* waiters, microtasks or signals: it takes items in until it ends, once;  *)
(* it gives each of them out; and only when all are given out does it tell *)
(* anyone how it ended, everyone the same.                                 *)
(***************************************************************************)
EXTENDS Naturals

CONSTANT Readers   \* those who iterate

VARIABLES
  taken,   \* items taken in
  given,   \* items given out
  end,     \* "open", "clean" or "failed"
  told     \* told[r]: what r was told of the end; "nothing" at first

Init ==
  /\ taken = 0
  /\ given = 0
  /\ end = "open"
  /\ told = [r \in Readers |-> "nothing"]

\* Several items arrive at once; one may be given out in the same step.
Take ==
  /\ end = "open"
  /\ taken' > taken
  /\ given' \in {given, given + 1} /\ given' <= taken'
  /\ UNCHANGED <<end, told>>

Give ==
  /\ given < taken
  /\ given' = given + 1
  /\ UNCHANGED <<taken, end, told>>

Finish ==
  /\ end = "open"
  /\ end' \in {"clean", "failed"}
  /\ UNCHANGED <<taken, given, told>>

Tell(r) ==
  /\ end # "open" /\ given = taken
  /\ told' = [told EXCEPT ![r] = end]
  /\ UNCHANGED <<taken, given, end>>

Next == Take \/ Give \/ Finish \/ \E r \in Readers : Tell(r)

Spec == Init /\ [][Next]_<<taken, given, end, told>>
=============================================================================
