----------------------------- MODULE Semaphore -----------------------------
(***************************************************************************)
(* The counting semaphore of util.ts as operators on a record: the free    *)
(* permits and the FIFO of those that wait.  A released permit goes        *)
(* straight to the first waiter; it never passes through "permits", so a   *)
(* late acquirer cannot overtake.  The caller schedules the microtasks of  *)
(* the parties an operation resumes: Granted, Woken and WokenN name them,  *)
(* and are empty or a single name except when several permits return.      *)
(***************************************************************************)
EXTENDS Naturals, Sequences

NewSemaphore(n) == [permits |-> n, waiters |-> <<>>]

\* Mutants: a permit too many is handed out; the waiters are kept as a stack.
AcquireOffByOne(s, who) ==
  IF s.permits >= 0 THEN [s EXCEPT !.permits = @ - 1]
                    ELSE [s EXCEPT !.waiters = Append(@, who)]
AcquireLifo(s, who) ==
  IF s.permits > 0 THEN [s EXCEPT !.permits = @ - 1]
                   ELSE [s EXCEPT !.waiters = <<who>> \o @]

Acquire(s, who) ==
  IF s.permits > 0 THEN [s EXCEPT !.permits = @ - 1]
                   ELSE [s EXCEPT !.waiters = Append(@, who)]

\* The party that acquire resumes at once, if a permit was free.
Granted(s, who) == IF s.permits > 0 THEN <<who>> ELSE <<>>

Release(s) ==
  IF s.waiters = <<>> THEN [s EXCEPT !.permits = @ + 1]
                      ELSE [s EXCEPT !.waiters = Tail(@)]

\* The waiter that one release resumes, if there is one.
Woken(s) == IF s.waiters = <<>> THEN <<>> ELSE <<Head(s.waiters)>>

\* How many of n releases find a waiter to hand their permit to.
HandedOver(s, n) == IF n <= Len(s.waiters) THEN n ELSE Len(s.waiters)

\* n releases in a row, and the waiters they resume, in order.
ReleaseN(s, n) ==
  [permits |-> s.permits + (n - HandedOver(s, n)),
   waiters |-> SubSeq(s.waiters, HandedOver(s, n) + 1, Len(s.waiters))]

WokenN(s, n) == SubSeq(s.waiters, 1, HandedOver(s, n))

\* Wakes every waiter without giving it a permit: it resumes as if it had one.
DrainWaiters(s) == [s EXCEPT !.waiters = <<>>]

\* Mutant: the waiters are dropped, and never resume.
DrainedNone(s) == <<>>

\* The waiters that draining resumes.
Drained(s) == s.waiters

\* The parties that wait.
Waiting(s) == {s.waiters[i] : i \in 1 .. Len(s.waiters)}
=============================================================================
