--------------------------- MODULE PipelineProofs ---------------------------
(***************************************************************************)
(* What the send coroutines of a connection do between the call and the    *)
(* socket, for every size of the budget and of the queue, every operation  *)
(* and any server: they keep their order, each is woken by one party, and  *)
(* the outbound queue keeps its depth.  Then, with a server that follows   *)
(* the protocol (Session): no request ends in a protocol error, and the    *)
(* connection keeps the promise of Requests.                               *)
(***************************************************************************)
EXTENDS Session, ConnectionProofs, FunctionTheorems

-----------------------------------------------------------------------------
(* The pipeline.  A coroutine is "at" one of two awaits: it waits in the   *)
(* line of that await's semaphore, or has been resumed and is in the       *)
(* microtask queue.                                                        *)

At(f, stage) == {id \in DOMAIN f : f[id] = stage}
Rising(q) == \A i, j \in 1 .. Len(q) : i < j => q[i] < q[j]

\* The coroutines about to resume at the same await do so in the order of their ids.
OrderedTasks(t, f) ==
  \A i, j \in 1 .. Len(t) :
    i < j /\ t[i].run = "send" /\ t[j].run = "send" /\ f[t[i].id] = f[t[j].id]
      => t[i].id < t[j].id

\* The line of one semaphore: whoever is at its await waits, behind all that it has
\* resumed; and nobody waits while there is a permit.
QueueLine(t, s, f, stage) ==
  /\ Rising(s.waiters)
  /\ s.permits > 0 => s.waiters = <<>>
  /\ \A a \in Senders(t), w \in Waiting(s) : f[a] = stage => a < w
  /\ Waiting(s) \subseteq At(f, stage)
  /\ At(f, stage) \subseteq Senders(t) \cup Waiting(s)

\* Both lines, with everyone at the second await older than everyone at the first.
InLine(t, budget, slots, f) ==
  /\ OrderedTasks(t, f)
  /\ Senders(t) \subseteq At(f, "inflight") \cup At(f, "slot")
  /\ QueueLine(t, budget, f, "inflight")
  /\ QueueLine(t, slots, f, "slot")
  /\ \A a \in At(f, "slot"), b \in At(f, "inflight") : a < b

-----------------------------------------------------------------------------
(* Facts about lines, one per way a line changes.                          *)

\* Order in a longer list of microtasks, and in what is left of one.
LEMMA OrderConcat ==
  ASSUME NEW p \in Seq(Task), NEW q \in Seq(Task), NEW f,
         OrderedTasks(p, f), OrderedTasks(q, f),
         \A a \in Senders(p), b \in Senders(q) : f[a] = f[b] => a < b
  PROVE  OrderedTasks(p \o q, f)
<1>1. /\ Len(p) \in Nat /\ Len(q) \in Nat /\ Len(p \o q) = Len(p) + Len(q)
      /\ \A i \in 1 .. Len(p) + Len(q) :
           (p \o q)[i] = IF i <= Len(p) THEN p[i] ELSE q[i - Len(p)]
  BY ConcatProperties, LenProperties
<1> SUFFICES ASSUME NEW i \in 1 .. Len(p \o q), NEW j \in 1 .. Len(p \o q), i < j,
                    (p \o q)[i].run = "send", (p \o q)[j].run = "send",
                    f[(p \o q)[i].id] = f[(p \o q)[j].id]
             PROVE  (p \o q)[i].id < (p \o q)[j].id
  BY DEF OrderedTasks
<1>2. CASE j <= Len(p)
  <2>1. /\ i \in 1 .. Len(p) /\ j \in 1 .. Len(p)
        /\ (p \o q)[i] = p[i] /\ (p \o q)[j] = p[j]
    BY <1>1, <1>2
  <2> QED
    BY <2>1 DEF OrderedTasks
<1>3. CASE i <= Len(p) /\ ~(j <= Len(p))
  <2>1. /\ i \in 1 .. Len(p) /\ j - Len(p) \in 1 .. Len(q)
        /\ (p \o q)[i] = p[i] /\ (p \o q)[j] = q[j - Len(p)]
    BY <1>1, <1>3
  <2>2. (p \o q)[i].id \in Senders(p) /\ (p \o q)[j].id \in Senders(q)
    BY <2>1 DEF Senders
  <2> QED
    BY <2>2
<1>4. CASE ~(i <= Len(p))
  <2>1. /\ i - Len(p) \in 1 .. Len(q) /\ j - Len(p) \in 1 .. Len(q)
        /\ i - Len(p) < j - Len(p)
        /\ (p \o q)[i] = q[i - Len(p)] /\ (p \o q)[j] = q[j - Len(p)]
    BY <1>1, <1>4
  <2> QED
    BY <2>1 DEF OrderedTasks
<1> QED
  BY <1>1, <1>2, <1>3, <1>4

\* Running the first microtask keeps the order of the others, who are behind it.
LEMMA OrderTail ==
  ASSUME NEW q \in Seq(Task), q # <<>>, NEW f, OrderedTasks(q, f)
  PROVE  /\ Tail(q) \in Seq(Task) /\ OrderedTasks(Tail(q), f)
         /\ Head(q).run # "send" => Senders(Tail(q)) = Senders(q)
         /\ Head(q).run = "send" =>
              /\ Senders(q) = Senders(Tail(q)) \cup {Head(q).id}
              /\ \A a \in Senders(Tail(q)) : f[a] = f[Head(q).id] => Head(q).id < a
<1>1. /\ Len(q) \in Nat /\ Len(q) > 0 /\ Tail(q) \in Seq(Task) /\ Len(Tail(q)) = Len(q) - 1
      /\ Head(q) = q[1]
      /\ \A i \in 1 .. Len(Tail(q)) : Tail(q)[i] = q[i + 1]
  BY HeadTailProperties, LenProperties, EmptySeq
<1>2. \A i \in 1 .. Len(Tail(q)) : i + 1 \in 1 .. Len(q) /\ 1 < i + 1
  BY <1>1
<1>3. OrderedTasks(Tail(q), f)
  <2> SUFFICES ASSUME NEW i \in 1 .. Len(Tail(q)), NEW j \in 1 .. Len(Tail(q)), i < j,
                      Tail(q)[i].run = "send", Tail(q)[j].run = "send",
                      f[Tail(q)[i].id] = f[Tail(q)[j].id]
               PROVE  Tail(q)[i].id < Tail(q)[j].id
    BY DEF OrderedTasks
  <2>1. i + 1 < j + 1
    BY <1>1
  <2> QED
    BY <1>1, <1>2, <2>1 DEF OrderedTasks
<1>4. Senders(Tail(q)) \subseteq Senders(q)
  BY SendersTail
<1>5. ASSUME NEW i \in 1 .. Len(q), q[i].run = "send", i # 1
      PROVE  q[i].id \in Senders(Tail(q))
  <2>1. i - 1 \in 1 .. Len(Tail(q)) /\ Tail(q)[i - 1] = q[i]
    BY <1>1, <1>5
  <2> QED
    BY <1>5, <2>1 DEF Senders
<1>6. CASE Head(q).run # "send"
  <2>1. Senders(q) \subseteq Senders(Tail(q))
    BY <1>1, <1>5, <1>6 DEF Senders
  <2> QED
    BY <1>1, <1>3, <1>4, <1>6, <2>1
<1>7. CASE Head(q).run = "send"
  <2>0. 1 \in 1 .. Len(q)
    BY <1>1
  <2>1. Head(q).id \in Senders(q)
    BY <1>1, <1>7, <2>0 DEF Senders
  <2>2. Senders(q) \subseteq Senders(Tail(q)) \cup {Head(q).id}
    BY <1>1, <1>5 DEF Senders
  <2>3. ASSUME NEW i \in 1 .. Len(Tail(q)), Tail(q)[i].run = "send",
               f[Tail(q)[i].id] = f[Head(q).id]
        PROVE  Head(q).id < Tail(q)[i].id
    BY <1>1, <1>2, <1>7, <2>0, <2>3 DEF OrderedTasks
  <2>4. \A a \in Senders(Tail(q)) : f[a] = f[Head(q).id] => Head(q).id < a
    BY <2>3 DEF Senders
  <2> QED
    BY <1>1, <1>3, <1>4, <1>7, <2>1, <2>2, <2>4
<1> QED
  BY <1>6, <1>7

\* A list of coroutines in the order of their ids.
LEMMA OrderSends ==
  ASSUME NEW ids \in Seq(Nat), NEW f, Rising(ids)
  PROVE  OrderedTasks(SendTasks(ids), f)
<1>1. /\ Len(SendTasks(ids)) = Len(ids)
      /\ \A i \in 1 .. Len(ids) : SendTasks(ids)[i].id = ids[i]
  BY DEF SendTasks, SendTask
<1> QED
  BY <1>1 DEF OrderedTasks, Rising

\* A list that resumes no send coroutine.
LEMMA OrderOther ==
  ASSUME NEW x \in Seq(Task), Senders(x) = {}, NEW f
  PROVE  OrderedTasks(x, f)
  BY DEF OrderedTasks, Senders

\* Only where the resumed coroutines are matters.
LEMMA OrderSame ==
  ASSUME NEW t \in Seq(Task), NEW f, NEW g, OrderedTasks(t, f),
         \A a \in Senders(t) : g[a] = f[a]
  PROVE  OrderedTasks(t, g)
<1>1. \A i \in 1 .. Len(t) : t[i].run = "send" => t[i].id \in Senders(t)
  BY DEF Senders
<1> QED
  BY <1>1 DEF OrderedTasks

-----------------------------------------------------------------------------
(* Who a semaphore resumes.                                                *)

\* "s" resumes "ids" and becomes "r": the first in its line, in order, and nobody
\* is left to wait while there is a permit.
Hands(s, ids, r) ==
  /\ ids \in Seq(Nat) /\ Rising(ids) /\ Rising(r.waiters)
  /\ Members(ids) \cup Waiting(r) = Waiting(s)
  /\ \A a \in Members(ids), w \in Waiting(r) : a < w
  /\ r.permits > 0 => r.waiters = <<>>

\* The first k of a line, and the rest of it.
First(q, k) == SubSeq(q, 1, k)
Rest(q, k) == SubSeq(q, k + 1, Len(q))

\* A line cut in two: both parts are in order, the first before the rest.
LEMMA SplitLine ==
  ASSUME NEW q \in Seq(Nat), Rising(q), NEW k \in 0 .. Len(q)
  PROVE  /\ First(q, k) \in Seq(Nat) /\ Rest(q, k) \in Seq(Nat)
         /\ Len(First(q, k)) = k /\ Len(Rest(q, k)) = Len(q) - k
         /\ Rising(First(q, k)) /\ Rising(Rest(q, k))
         /\ Members(First(q, k)) \cup Members(Rest(q, k)) = Members(q)
         /\ \A a \in Members(First(q, k)), w \in Members(Rest(q, k)) : a < w
<1> DEFINE first == First(q, k)
           rest == Rest(q, k)
<1>1. Len(q) \in Nat /\ k \in Nat /\ k <= Len(q) /\ \A i \in 1 .. Len(q) : q[i] \in Nat
  BY LenProperties, ElementOfSeq
<1>2. /\ first \in Seq(Nat) /\ Len(first) = k
      /\ \A i \in 1 .. k : first[i] = q[i] /\ i \in 1 .. Len(q)
  <2>1. /\ first \in Seq(Nat) /\ Len(first) = IF 1 <= k THEN k - 1 + 1 ELSE 0
        /\ \A i \in 1 .. k - 1 + 1 : first[i] = q[1 + i - 1]
    BY <1>1, SubSeqProperties DEF First
  <2> HIDE DEF first
  <2> QED
    BY <1>1, <2>1
<1>3. /\ rest \in Seq(Nat) /\ Len(rest) = Len(q) - k
      /\ \A i \in 1 .. Len(q) - k : rest[i] = q[k + i] /\ k + i \in 1 .. Len(q)
  <2>1. /\ rest \in Seq(Nat)
        /\ Len(rest) = IF k + 1 <= Len(q) THEN Len(q) - (k + 1) + 1 ELSE 0
        /\ \A i \in 1 .. Len(q) - (k + 1) + 1 : rest[i] = q[(k + 1) + i - 1]
    BY <1>1, SubSeqProperties DEF Rest
  <2> HIDE DEF rest
  <2> QED
    BY <1>1, <2>1
<1> HIDE DEF first, rest
<1>4. Rising(first)
  BY <1>1, <1>2 DEF Rising
<1>5. Rising(rest)
  <2> SUFFICES ASSUME NEW i \in 1 .. Len(rest), NEW j \in 1 .. Len(rest), i < j
               PROVE  rest[i] < rest[j]
    BY DEF Rising
  <2>1. k + i < k + j
    BY <1>1, <1>3
  <2> QED
    BY <1>3, <2>1 DEF Rising
<1>6. Members(first) \cup Members(rest) \subseteq Members(q)
  <2>1. ASSUME NEW i \in 1 .. Len(first)
        PROVE  first[i] \in Members(q)
    BY <1>2 DEF Members
  <2>2. ASSUME NEW i \in 1 .. Len(rest)
        PROVE  rest[i] \in Members(q)
    BY <1>3 DEF Members
  <2> QED
    BY <2>1, <2>2 DEF Members
<1>7. ASSUME NEW i \in 1 .. Len(q)
      PROVE  q[i] \in Members(first) \cup Members(rest)
  <2>1. CASE i <= k
    BY <1>1, <1>2, <2>1 DEF Members
  <2>2. CASE ~(i <= k)
    <3>1. i - k \in 1 .. Len(rest) /\ rest[i - k] = q[i]
      BY <1>1, <1>3, <2>2
    <3> QED
      BY <3>1 DEF Members
  <2> QED
    BY <2>1, <2>2
<1>8. ASSUME NEW i \in 1 .. Len(first), NEW j \in 1 .. Len(rest)
      PROVE  first[i] < rest[j]
  <2>1. i < k + j /\ i \in 1 .. Len(q) /\ k + j \in 1 .. Len(q)
    BY <1>1, <1>2, <1>3
  <2> QED
    BY <1>2, <1>3, <2>1 DEF Rising
<1>9. \A a \in Members(first), w \in Members(rest) : a < w
  BY <1>8 DEF Members
<1>10. Members(first) \cup Members(rest) = Members(q)
  BY <1>6, <1>7 DEF Members
<1> QED
  BY <1>2, <1>3, <1>4, <1>5, <1>9, <1>10 DEF first, rest

\* One release, several, and the death of the connection.
LEMMA ReleaseNHands ==
  ASSUME NEW s \in SemaphoreState, Rising(s.waiters), s.permits > 0 => s.waiters = <<>>,
         NEW n \in Nat
  PROVE  Hands(s, WokenN(s, n), ReleaseN(s, n))
<1> DEFINE k == HandedOver(s, n)
<1>1. /\ s.permits \in Nat /\ s.waiters \in Seq(Nat) /\ Len(s.waiters) \in Nat
      /\ s.permits > 0 => Len(s.waiters) = 0
  BY LenProperties DEF SemaphoreState
<1>2. k \in 0 .. Len(s.waiters) /\ k <= n /\ (k = n \/ k = Len(s.waiters))
  BY <1>1 DEF HandedOver
<1>3. /\ ReleaseN(s, n).permits = s.permits + (n - k)
      /\ ReleaseN(s, n).waiters = Rest(s.waiters, k)
      /\ WokenN(s, n) = First(s.waiters, k)
  BY DEF ReleaseN, WokenN, First, Rest
<1> HIDE DEF k
<1> DEFINE first == First(s.waiters, k)
           rest  == Rest(s.waiters, k)
<1>4. /\ first \in Seq(Nat) /\ rest \in Seq(Nat) /\ Len(rest) = Len(s.waiters) - k
      /\ Rising(first) /\ Rising(rest)
      /\ Members(first) \cup Members(rest) = Members(s.waiters)
      /\ \A a \in Members(first), w \in Members(rest) : a < w
  BY <1>1, <1>2, SplitLine
<1> HIDE DEF first, rest
<1>5. ReleaseN(s, n).permits > 0 => rest = <<>>
  <2>1. ReleaseN(s, n).permits > 0 => Len(rest) = 0
    BY <1>1, <1>2, <1>3, <1>4
  <2> QED
    BY <1>4, <2>1, EmptySeq
<1>6. Waiting(s) = Members(s.waiters) /\ Waiting(ReleaseN(s, n)) = Members(rest)
  BY <1>3 DEF Waiting, Members, rest
<1> QED
  BY <1>3, <1>4, <1>5, <1>6 DEF Hands, first, rest

\* A release hands the permit to the first of the line.
LEMMA ReleaseHands ==
  ASSUME NEW s \in SemaphoreState, Rising(s.waiters), s.permits > 0 => s.waiters = <<>>
  PROVE  Hands(s, Woken(s), Release(s))
<1>1. s.permits \in Nat /\ s.waiters \in Seq(Nat) /\ Len(s.waiters) \in Nat
  BY LenProperties DEF SemaphoreState
<1>2. CASE s.waiters = <<>>
  <2>1. Release(s).waiters = <<>> /\ Woken(s) = <<>>
    BY <1>1, <1>2 DEF Release, Woken, SemaphoreState
  <2> QED
    BY <1>2, <2>1 DEF Hands, Waiting, Members, Rising
<1>3. CASE s.waiters # <<>>
  <2>1. /\ Release(s).waiters = Tail(s.waiters) /\ Release(s).permits = s.permits
        /\ Woken(s) = <<Head(s.waiters)>>
    BY <1>1, <1>3 DEF Release, Woken, SemaphoreState
  <2>2. Len(s.waiters) > 0
    BY <1>1, <1>3, EmptySeq
  <2>3. Tail(s.waiters) = Rest(s.waiters, 1)
    BY <1>1, <1>3, TailIsSubSeq DEF Rest
  <2>4. <<Head(s.waiters)>> = First(s.waiters, 1)
    <3>1. /\ SubSeq(s.waiters, 1, 1) \in Seq(Nat) /\ Len(SubSeq(s.waiters, 1, 1)) = 1
          /\ SubSeq(s.waiters, 1, 1)[1] = s.waiters[1]
      <4>1. \A i \in 1 .. 1 : s.waiters[i] \in Nat
        BY <1>1, <2>2, ElementOfSeq
      <4> QED
        BY <4>1, SubSeqProperties
    <3>2. Head(s.waiters) = s.waiters[1] /\ Head(s.waiters) \in Nat
      BY <1>1, <1>3, HeadTailProperties
    <3>3. /\ <<Head(s.waiters)>> \in Seq(Nat) /\ Len(<<Head(s.waiters)>>) = 1
          /\ <<Head(s.waiters)>>[1] = s.waiters[1]
      BY <3>2
    <3> QED
      BY <3>1, <3>3, SeqEqual DEF First
  <2>5. Release(s).waiters = Rest(s.waiters, 1) /\ Woken(s) = First(s.waiters, 1)
    BY <2>1, <2>3, <2>4
  <2>6. 1 \in 0 .. Len(s.waiters)
    BY <1>1, <2>2
  <2>7. ~(Release(s).permits > 0)
    BY <1>3, <2>1
  <2>8. Waiting(s) = Members(s.waiters) /\ Waiting(Release(s)) = Members(Rest(s.waiters, 1))
    BY <2>5 DEF Waiting, Members
  <2> DEFINE first == First(s.waiters, 1)
             rest == Rest(s.waiters, 1)
  <2>9. /\ first \in Seq(Nat) /\ Rising(first) /\ Rising(rest)
        /\ Members(first) \cup Members(rest) = Members(s.waiters)
        /\ \A a \in Members(first), w \in Members(rest) : a < w
    BY <1>1, <2>6, SplitLine
  <2> HIDE DEF first, rest
  <2>10. /\ Release(s).waiters = rest /\ Woken(s) = first
         /\ Waiting(s) = Members(s.waiters) /\ Waiting(Release(s)) = Members(rest)
    BY <2>5, <2>8 DEF first, rest
  <2> QED
    BY <2>7, <2>9, <2>10 DEF Hands
<1> QED
  BY <1>2, <1>3

\* drainWaiters hands a slot to the whole line, in its order.
LEMMA DrainHands ==
  ASSUME NEW s \in SemaphoreState, Rising(s.waiters)
  PROVE  Hands(s, Drained(s), DrainWaiters(s))
<1>1. DrainWaiters(s).waiters = <<>> /\ Drained(s) = s.waiters /\ s.waiters \in Seq(Nat)
  BY DEF DrainWaiters, Drained, SemaphoreState
<1> QED
  BY <1>1 DEF Hands, Waiting, Members, Rising

\* Asking for a permit: the newcomer, younger than all that wait, is resumed at once
\* or goes to the end of the line.
LEMMA AcquireLine ==
  ASSUME NEW s \in SemaphoreState, Rising(s.waiters), s.permits > 0 => s.waiters = <<>>,
         NEW who \in Nat, \A w \in Waiting(s) : w < who
  PROVE  /\ Rising(Acquire(s, who).waiters)
         /\ Acquire(s, who).permits > 0 => Acquire(s, who).waiters = <<>>
         /\ Granted(s, who) \in Seq(Nat) /\ Rising(Granted(s, who))
         /\ \/ /\ Members(Granted(s, who)) = {who}
               /\ Waiting(s) = {} /\ Waiting(Acquire(s, who)) = {}
            \/ /\ Members(Granted(s, who)) = {}
               /\ Waiting(Acquire(s, who)) = Waiting(s) \cup {who}
<1>1. s.permits \in Nat /\ s.waiters \in Seq(Nat) /\ Len(s.waiters) \in Nat
  BY LenProperties DEF SemaphoreState
<1>2. CASE s.permits > 0
  <2>1. Acquire(s, who).waiters = <<>> /\ Granted(s, who) = <<who>> /\ s.waiters = <<>>
    BY <1>1, <1>2 DEF Acquire, Granted, SemaphoreState
  <2> QED
    BY <2>1 DEF Waiting, Members, Rising
<1>3. CASE ~(s.permits > 0)
  <2> DEFINE longer == Append(s.waiters, who)
  <2>1. /\ Acquire(s, who).waiters = longer /\ Acquire(s, who).permits = s.permits
        /\ Granted(s, who) = <<>>
    BY <1>1, <1>3 DEF Acquire, Granted, SemaphoreState
  <2>2. /\ Len(s.waiters) \in Nat
        /\ Len(longer) = Len(s.waiters) + 1 /\ longer[Len(s.waiters) + 1] = who
        /\ \A i \in 1 .. Len(s.waiters) : longer[i] = s.waiters[i]
    BY <1>1, AppendProperties
  <2> HIDE DEF longer
  <2>3. \A i \in 1 .. Len(s.waiters) : s.waiters[i] \in Waiting(s)
    BY DEF Waiting
  <2>4. Rising(longer)
    <3> SUFFICES ASSUME NEW i \in 1 .. Len(longer), NEW j \in 1 .. Len(longer), i < j
                 PROVE  longer[i] < longer[j]
      BY DEF Rising
    <3>1. i \in 1 .. Len(s.waiters) /\ (j \in 1 .. Len(s.waiters) \/ j = Len(s.waiters) + 1)
      BY <1>1, <2>2
    <3> QED
      BY <2>2, <2>3, <3>1 DEF Rising
  <2>5. Members(longer) = Waiting(s) \cup {who}
    BY <2>2, SMTT(30) DEF Waiting, Members
  <2>6. Members(Granted(s, who)) = {} /\ Rising(Granted(s, who)) /\ Granted(s, who) \in Seq(Nat)
    BY <2>1 DEF Members, Rising
  <2>7. Waiting(Acquire(s, who)) = Waiting(s) \cup {who}
    BY <2>1, <2>5 DEF Waiting, Members
  <2> QED
    BY <1>3, <2>1, <2>4, <2>6, <2>7
<1> QED
  BY <1>2, <1>3

-----------------------------------------------------------------------------
(* The ways the pipeline changes.                                          *)

\* Microtasks of others are queued, or one of them runs.
LEMMA LineAppends ==
  ASSUME NEW t \in Seq(Task), NEW x \in Seq(Task), Senders(x) = {},
         NEW b, NEW s, NEW f, InLine(t, b, s, f)
  PROVE  t \o x \in Seq(Task) /\ InLine(t \o x, b, s, f)
<1>0. t \o x \in Seq(Task) /\ Senders(t \o x) = Senders(t) \cup Senders(x)
  BY SendersConcat
<1>1. t \o x \in Seq(Task) /\ Senders(t \o x) = Senders(t)
  BY <1>0
<1>2. OrderedTasks(t \o x, f)
  BY OrderOther, OrderConcat DEF InLine
<1> QED
  BY <1>1, <1>2 DEF InLine, QueueLine

\* A microtask that is no send coroutine leaves both lines alone.
LEMMA LineSkips ==
  ASSUME NEW t \in Seq(Task), t # <<>>, Head(t).run # "send",
         NEW b, NEW s, NEW f, InLine(t, b, s, f)
  PROVE  Tail(t) \in Seq(Task) /\ InLine(Tail(t), b, s, f)
<1>1. /\ Tail(t) \in Seq(Task) /\ Senders(Tail(t)) = Senders(t)
      /\ OrderedTasks(Tail(t), f)
  BY OrderTail DEF InLine
<1> QED
  BY <1>1 DEF InLine, QueueLine

\* The budget resumes the first that wait for it.
LEMMA BudgetWakes ==
  ASSUME NEW t \in Seq(Task), NEW b, NEW s, NEW f, InLine(t, b, s, f),
         NEW ids, NEW r, Hands(b, ids, r)
  PROVE  t \o SendTasks(ids) \in Seq(Task) /\ InLine(t \o SendTasks(ids), r, s, f)
<1> DEFINE x == SendTasks(ids)
<1>1. /\ Members(ids) \subseteq At(f, "inflight") /\ Waiting(r) \subseteq Waiting(b)
      /\ Members(ids) \subseteq Waiting(b) /\ ids \in Seq(Nat) /\ Rising(ids)
      /\ Waiting(b) \subseteq At(f, "inflight")
  BY DEF Hands, InLine, QueueLine
<1>2. x \in Seq(Task) /\ Senders(x) = Members(ids) /\ OrderedTasks(x, f)
  BY <1>1, TasksType, SendersEffect, OrderSends
<1> HIDE DEF x
<1>3. t \o x \in Seq(Task) /\ Senders(t \o x) = Senders(t) \cup Members(ids)
  BY <1>2, SendersConcat
<1>4. \A c \in Members(ids) : f[c] = "inflight" /\ c \in Waiting(b)
  BY <1>1 DEF At
<1>5. OrderedTasks(t \o x, f)
  <2>1. \A a \in Senders(t), c \in Senders(x) : f[a] = f[c] => a < c
    BY <1>2, <1>4 DEF InLine, QueueLine
  <2> QED
    BY <1>2, <2>1, OrderConcat DEF InLine
<1>6. QueueLine(t \o x, r, f, "inflight")
  <2>1. \A a \in Senders(t \o x), w \in Waiting(r) : f[a] = "inflight" => a < w
    BY <1>1, <1>3 DEF InLine, QueueLine, Hands
  <2>2. At(f, "inflight") \subseteq Senders(t \o x) \cup Waiting(r)
    BY <1>3 DEF InLine, QueueLine, Hands
  <2> QED
    BY <1>1, <2>1, <2>2 DEF QueueLine, Hands
<1>7. QueueLine(t \o x, s, f, "slot")
  BY <1>3, <1>4 DEF InLine, QueueLine
<1> QED
  BY <1>1, <1>3, <1>5, <1>6, <1>7 DEF InLine, x

\* The outbound queue resumes the first that wait for room in it.
LEMMA SlotsWake ==
  ASSUME NEW t \in Seq(Task), NEW b, NEW s, NEW f, InLine(t, b, s, f),
         NEW ids, NEW r, Hands(s, ids, r)
  PROVE  t \o SendTasks(ids) \in Seq(Task) /\ InLine(t \o SendTasks(ids), b, r, f)
<1> DEFINE x == SendTasks(ids)
<1>1. /\ Members(ids) \subseteq At(f, "slot") /\ Waiting(r) \subseteq Waiting(s)
      /\ Members(ids) \subseteq Waiting(s) /\ ids \in Seq(Nat) /\ Rising(ids)
      /\ Waiting(s) \subseteq At(f, "slot")
  BY DEF Hands, InLine, QueueLine
<1>2. x \in Seq(Task) /\ Senders(x) = Members(ids) /\ OrderedTasks(x, f)
  BY <1>1, TasksType, SendersEffect, OrderSends
<1> HIDE DEF x
<1>3. t \o x \in Seq(Task) /\ Senders(t \o x) = Senders(t) \cup Members(ids)
  BY <1>2, SendersConcat
<1>4. \A c \in Members(ids) : f[c] = "slot" /\ c \in Waiting(s)
  BY <1>1 DEF At
<1>5. OrderedTasks(t \o x, f)
  <2>1. \A a \in Senders(t), c \in Senders(x) : f[a] = f[c] => a < c
    BY <1>2, <1>4 DEF InLine, QueueLine
  <2> QED
    BY <1>2, <2>1, OrderConcat DEF InLine
<1>6. QueueLine(t \o x, r, f, "slot")
  <2>1. \A a \in Senders(t \o x), w \in Waiting(r) : f[a] = "slot" => a < w
    BY <1>1, <1>3 DEF InLine, QueueLine, Hands
  <2>2. At(f, "slot") \subseteq Senders(t \o x) \cup Waiting(r)
    BY <1>3 DEF InLine, QueueLine, Hands
  <2> QED
    BY <1>1, <2>1, <2>2 DEF QueueLine, Hands
<1>7. QueueLine(t \o x, b, f, "inflight")
  BY <1>3, <1>4 DEF InLine, QueueLine
<1> QED
  BY <1>1, <1>3, <1>5, <1>6, <1>7 DEF InLine, x

\* The coroutine at the head of the microtask queue, when it is a send coroutine, is
\* nowhere else, and is the oldest at its await.
LEMMA HeadOfLine ==
  ASSUME NEW t \in Seq(Task), t # <<>>, NEW b, NEW s, NEW f, InLine(t, b, s, f),
         NEW id, Head(t) = SendTask(id)
  PROVE  /\ Tail(t) \in Seq(Task) /\ OrderedTasks(Tail(t), f)
         /\ id \in Nat /\ id \in DOMAIN f /\ f[id] \in {"inflight", "slot"}
         /\ Senders(t) = Senders(Tail(t)) \cup {id}
         /\ id \notin Senders(Tail(t)) /\ id \notin Waiting(b) /\ id \notin Waiting(s)
         /\ \A a \in At(f, f[id]) \ {id} : id < a
<1>1. Head(t).run = "send" /\ Head(t).id = id /\ Head(t) \in Task
  BY HeadTailProperties DEF SendTask
<1>2. /\ Tail(t) \in Seq(Task) /\ OrderedTasks(Tail(t), f) /\ id \in Nat
      /\ Senders(t) = Senders(Tail(t)) \cup {id}
      /\ \A a \in Senders(Tail(t)) : f[a] = f[id] => id < a
  BY <1>1, OrderTail DEF InLine, Task
<1>3. id \in DOMAIN f /\ f[id] \in {"inflight", "slot"}
  BY <1>2 DEF InLine, At
<1>4. id \notin Senders(Tail(t))
  BY <1>2
<1>5. id \notin Waiting(b)
  <2> SUFFICES ASSUME id \in Waiting(b) PROVE FALSE
    OBVIOUS
  <2>1. f[id] = "inflight"
    BY DEF InLine, QueueLine, At
  <2>2. id < id
    BY <1>2, <2>1 DEF InLine, QueueLine
  <2> QED
    BY <1>2, <2>2
<1>6. id \notin Waiting(s)
  <2> SUFFICES ASSUME id \in Waiting(s) PROVE FALSE
    OBVIOUS
  <2>1. f[id] = "slot"
    BY DEF InLine, QueueLine, At
  <2>2. id < id
    BY <1>2, <2>1 DEF InLine, QueueLine
  <2> QED
    BY <1>2, <2>2
<1>7. ASSUME NEW a \in At(f, f[id]), a # id
      PROVE  id < a
  <2>1. f[a] = f[id]
    BY <1>7 DEF At
  <2>2. CASE f[id] = "inflight"
    <3>1. a \in Senders(t) \cup Waiting(b)
      BY <1>7, <2>2 DEF InLine, QueueLine
    <3>2. a \in Waiting(b) => id < a
      BY <1>2, <2>2 DEF InLine, QueueLine
    <3> QED
      BY <1>2, <1>7, <2>1, <3>1, <3>2
  <2>3. CASE f[id] = "slot"
    <3>1. a \in Senders(t) \cup Waiting(s)
      BY <1>7, <2>3 DEF InLine, QueueLine
    <3>2. a \in Waiting(s) => id < a
      BY <1>2, <2>3 DEF InLine, QueueLine
    <3> QED
      BY <1>2, <1>7, <2>1, <3>1, <3>2
  <2> QED
    BY <1>3, <2>2, <2>3
<1> QED
  BY <1>2, <1>3, <1>4, <1>5, <1>6, <1>7

\* It leaves the pipeline.
LEMMA LineLeaves ==
  ASSUME NEW t \in Seq(Task), t # <<>>, NEW b, NEW s, NEW f, InLine(t, b, s, f),
         NEW id, Head(t) = SendTask(id),
         NEW end, end \notin {"inflight", "slot"}
  PROVE  Tail(t) \in Seq(Task) /\ InLine(Tail(t), b, s, [f EXCEPT ![id] = end])
<1> DEFINE g == [f EXCEPT ![id] = end]
<1>1. /\ Tail(t) \in Seq(Task) /\ OrderedTasks(Tail(t), f)
      /\ id \in DOMAIN f /\ Senders(t) = Senders(Tail(t)) \cup {id}
      /\ id \notin Senders(Tail(t)) /\ id \notin Waiting(b) /\ id \notin Waiting(s)
  BY HeadOfLine
<1>2. /\ DOMAIN g = DOMAIN f /\ g[id] = end
      /\ \A a \in DOMAIN f : a # id => g[a] = f[a]
  BY <1>1
<1> HIDE DEF g
<1>3. /\ At(g, "inflight") = At(f, "inflight") \ {id}
      /\ At(g, "slot") = At(f, "slot") \ {id}
  BY <1>2 DEF At
<1>4. Senders(Tail(t)) \subseteq At(g, "inflight") \cup At(g, "slot")
  BY <1>1, <1>3 DEF InLine
<1>5. \A a \in Senders(Tail(t)) : g[a] = f[a]
  BY <1>1, <1>2, <1>4 DEF At
<1>6. OrderedTasks(Tail(t), g)
  BY <1>1, <1>5, OrderSame
<1>7. QueueLine(Tail(t), b, g, "inflight") /\ QueueLine(Tail(t), s, g, "slot")
  BY <1>1, <1>3, <1>5 DEF InLine, QueueLine
<1> QED
  BY <1>1, <1>3, <1>4, <1>6, <1>7 DEF InLine, g

\* It goes on from the first await to the second.
LEMMA LineMoves ==
  ASSUME NEW t \in Seq(Task), t # <<>>, NEW b, NEW s \in SemaphoreState,
         NEW f, InLine(t, b, s, f),
         NEW id, Head(t) = SendTask(id), f[id] = "inflight"
  PROVE  /\ Tail(t) \o SendTasks(Granted(s, id)) \in Seq(Task)
         /\ InLine(Tail(t) \o SendTasks(Granted(s, id)), b, Acquire(s, id),
                   [f EXCEPT ![id] = "slot"])
<1> DEFINE g == [f EXCEPT ![id] = "slot"]
           x == SendTasks(Granted(s, id))
           r == Acquire(s, id)
           G == Members(Granted(s, id))
<1>1. /\ Tail(t) \in Seq(Task) /\ OrderedTasks(Tail(t), f) /\ id \in Nat
      /\ id \in DOMAIN f /\ Senders(t) = Senders(Tail(t)) \cup {id}
      /\ id \notin Senders(Tail(t)) /\ id \notin Waiting(b) /\ id \notin Waiting(s)
      /\ \A a \in At(f, "inflight") \ {id} : id < a
  BY HeadOfLine
<1>2. /\ DOMAIN g = DOMAIN f /\ g[id] = "slot"
      /\ \A a \in DOMAIN f : a # id => g[a] = f[a]
  BY <1>1
<1>3. /\ At(g, "inflight") = At(f, "inflight") \ {id}
      /\ At(g, "slot") = At(f, "slot") \cup {id}
      /\ id \in At(f, "inflight")
  <2> HIDE DEF g
  <2> QED
    BY <1>1, <1>2 DEF At
<1>4. \A a \in At(f, "slot") : a < id
  BY <1>3 DEF InLine
<1>5. /\ Rising(s.waiters)
      /\ s.permits > 0 => s.waiters = <<>>
      /\ \A w \in Waiting(s) : w < id /\ w \in At(f, "slot")
  BY <1>4 DEF InLine, QueueLine
<1>6. /\ Rising(r.waiters)
      /\ r.permits > 0 => r.waiters = <<>>
      /\ Granted(s, id) \in Seq(Nat) /\ Rising(Granted(s, id))
      /\ \/ G = {id} /\ Waiting(s) = {} /\ Waiting(r) = {}
         \/ G = {} /\ Waiting(r) = Waiting(s) \cup {id}
  BY <1>1, <1>5, AcquireLine
<1>7. x \in Seq(Task) /\ Senders(x) = G /\ OrderedTasks(x, g)
  BY <1>6, TasksType, SendersEffect, OrderSends
<1> HIDE DEF g, x, r, G
<1>8. /\ Tail(t) \o x \in Seq(Task) /\ Senders(Tail(t) \o x) = Senders(Tail(t)) \cup G
  BY <1>1, <1>7, SendersConcat
<1>9. Senders(Tail(t)) \subseteq At(f, "inflight") \cup At(f, "slot")
  BY <1>1 DEF InLine
<1>10. \A a \in Senders(Tail(t)) : g[a] = f[a]
  BY <1>1, <1>2, <1>9 DEF At
<1>11. OrderedTasks(Tail(t) \o x, g)
  <2>1. OrderedTasks(Tail(t), g)
    BY <1>1, <1>10, OrderSame
  <2>2. \A a \in Senders(Tail(t)), c \in Senders(x) : g[a] = g[c] => a < c
    BY <1>2, <1>4, <1>6, <1>7, <1>9, <1>10 DEF At
  <2> QED
    BY <1>1, <1>7, <2>1, <2>2, OrderConcat
<1>12. Senders(Tail(t) \o x) \subseteq At(g, "inflight") \cup At(g, "slot")
  BY <1>1, <1>3, <1>6, <1>8, <1>9
<1>13. QueueLine(Tail(t) \o x, b, g, "inflight")
  <2>1. \A a \in Senders(Tail(t) \o x), w \in Waiting(b) : g[a] = "inflight" => a < w
    BY <1>1, <1>2, <1>6, <1>8, <1>10 DEF InLine, QueueLine
  <2>2. Waiting(b) \subseteq At(g, "inflight")
    BY <1>1, <1>3 DEF InLine, QueueLine
  <2>3. At(g, "inflight") \subseteq Senders(Tail(t) \o x) \cup Waiting(b)
    BY <1>1, <1>3, <1>8 DEF InLine, QueueLine
  <2> QED
    BY <2>1, <2>2, <2>3 DEF InLine, QueueLine
<1>14. QueueLine(Tail(t) \o x, r, g, "slot")
  <2>1. \A a \in Senders(Tail(t) \o x), w \in Waiting(r) : g[a] = "slot" => a < w
    <3> SUFFICES ASSUME NEW a \in Senders(Tail(t) \o x), NEW w \in Waiting(r), g[a] = "slot"
                 PROVE  a < w
      OBVIOUS
    <3>1. /\ G = {} /\ a \in Senders(Tail(t)) /\ f[a] = "slot"
          /\ w \in Waiting(s) \cup {id}
      BY <1>6, <1>8, <1>10
    <3>2. a \in At(f, "slot") /\ a \in Senders(t)
      BY <1>1, <1>9, <3>1 DEF At
    <3> QED
      BY <1>4, <3>1, <3>2 DEF InLine, QueueLine
  <2>2. Waiting(r) \subseteq At(g, "slot")
    BY <1>3, <1>5, <1>6
  <2>3. At(g, "slot") \subseteq Senders(Tail(t) \o x) \cup Waiting(r)
    BY <1>1, <1>3, <1>6, <1>8 DEF InLine, QueueLine
  <2> QED
    BY <1>6, <2>1, <2>2, <2>3 DEF QueueLine
<1>15. \A a \in At(g, "slot"), c \in At(g, "inflight") : a < c
  BY <1>1, <1>3 DEF InLine
<1> QED
  BY <1>8, <1>11, <1>12, <1>13, <1>14, <1>15 DEF InLine, g, x, r

\* A newcomer joins the first line.
LEMMA LineJoins ==
  ASSUME NEW t \in Seq(Task), NEW b \in SemaphoreState, NEW s, NEW f, InLine(t, b, s, f),
         NEW id \in Nat, \A a \in DOMAIN f : a < id
  PROVE  /\ t \o SendTasks(Granted(b, id)) \in Seq(Task)
         /\ InLine(t \o SendTasks(Granted(b, id)), Acquire(b, id), s, With(f, id, "inflight"))
<1> DEFINE g == With(f, id, "inflight")
           x == SendTasks(Granted(b, id))
           r == Acquire(b, id)
           G == Members(Granted(b, id))
<1>1. id \notin DOMAIN f
  BY DEF InLine
<1>2. /\ DOMAIN g = DOMAIN f \cup {id} /\ g[id] = "inflight"
      /\ \A a \in DOMAIN f : g[a] = f[a]
  BY <1>1 DEF With
<1> HIDE DEF g
<1>3. /\ At(g, "inflight") = At(f, "inflight") \cup {id}
      /\ At(g, "slot") = At(f, "slot")
      /\ At(f, "inflight") \subseteq DOMAIN f /\ At(f, "slot") \subseteq DOMAIN f
  BY <1>1, <1>2 DEF At
<1>4. /\ Rising(b.waiters)
      /\ b.permits > 0 => b.waiters = <<>>
      /\ \A w \in Waiting(b) : w < id
      /\ Waiting(b) \subseteq At(f, "inflight") /\ Waiting(s) \subseteq At(f, "slot")
  BY <1>3 DEF InLine, QueueLine
<1>5. /\ Rising(r.waiters)
      /\ r.permits > 0 => r.waiters = <<>>
      /\ Granted(b, id) \in Seq(Nat) /\ Rising(Granted(b, id))
      /\ \/ G = {id} /\ Waiting(b) = {} /\ Waiting(r) = {}
         \/ G = {} /\ Waiting(r) = Waiting(b) \cup {id}
  BY <1>4, AcquireLine
<1>6. x \in Seq(Task) /\ Senders(x) = G /\ OrderedTasks(x, g)
  BY <1>5, TasksType, SendersEffect, OrderSends
<1> HIDE DEF x, r, G
<1>7. t \o x \in Seq(Task) /\ Senders(t \o x) = Senders(t) \cup G
  BY <1>6, SendersConcat
<1>8. Senders(t) \subseteq DOMAIN f
  BY <1>3 DEF InLine
<1>9. OrderedTasks(t \o x, g)
  <2>1. OrderedTasks(t, g)
    BY <1>2, <1>8, OrderSame DEF InLine
  <2>2. \A a \in Senders(t), c \in Senders(x) : g[a] = g[c] => a < c
    BY <1>5, <1>6, <1>8
  <2> QED
    BY <1>6, <2>1, <2>2, OrderConcat
<1>10. Senders(t \o x) \subseteq At(g, "inflight") \cup At(g, "slot")
  BY <1>3, <1>5, <1>7 DEF InLine
<1>11. QueueLine(t \o x, r, g, "inflight")
  <2>1. \A a \in Senders(t \o x), w \in Waiting(r) : g[a] = "inflight" => a < w
    <3> SUFFICES ASSUME NEW a \in Senders(t \o x), NEW w \in Waiting(r), g[a] = "inflight"
                 PROVE  a < w
      OBVIOUS
    <3>1. G = {} /\ a \in Senders(t) /\ w \in Waiting(b) \cup {id}
      BY <1>5, <1>7
    <3>2. f[a] = "inflight" /\ a \in DOMAIN f
      BY <1>2, <1>8, <3>1
    <3> QED
      BY <3>1, <3>2 DEF InLine, QueueLine
  <2>2. Waiting(r) \subseteq At(g, "inflight")
    BY <1>3, <1>4, <1>5
  <2>3. At(g, "inflight") \subseteq Senders(t \o x) \cup Waiting(r)
    BY <1>3, <1>5, <1>7 DEF InLine, QueueLine
  <2> QED
    BY <1>5, <2>1, <2>2, <2>3 DEF QueueLine
<1>12. QueueLine(t \o x, s, g, "slot")
  <2>1. \A a \in Senders(t \o x), w \in Waiting(s) : g[a] = "slot" => a < w
    BY <1>2, <1>5, <1>7, <1>8 DEF InLine, QueueLine
  <2>2. At(g, "slot") \subseteq Senders(t \o x) \cup Waiting(s)
    BY <1>3, <1>7 DEF InLine, QueueLine
  <2> QED
    BY <1>3, <1>4, <2>1, <2>2 DEF InLine, QueueLine
<1>13. \A a \in At(g, "slot"), c \in At(g, "inflight") : a < c
  BY <1>3 DEF InLine
<1> QED
  BY <1>7, <1>9, <1>10, <1>11, <1>12, <1>13 DEF InLine, g, x, r

-----------------------------------------------------------------------------
(* The writer's turn: it is in the microtask queue exactly when it has     *)
(* been resumed, and then once.                                            *)

WriterDue(t) == \E i \in 1 .. Len(t) : t[i] = WriterTask
WriterOnce(t) == \A i, j \in 1 .. Len(t) : t[i] = WriterTask /\ t[j] = WriterTask => i = j
WriterTurn(t, w) == WriterOnce(t) /\ (WriterDue(t) <=> w = "resumed")

\* Two lists of which one at most resumes the writer.
LEMMA WriterConcat ==
  ASSUME NEW p \in Seq(Task), NEW q \in Seq(Task), WriterOnce(p), WriterOnce(q),
         ~WriterDue(p) \/ ~WriterDue(q)
  PROVE  /\ p \o q \in Seq(Task) /\ WriterOnce(p \o q)
         /\ WriterDue(p \o q) <=> WriterDue(p) \/ WriterDue(q)
<1>1. /\ Len(p) \in Nat /\ Len(q) \in Nat /\ Len(p \o q) = Len(p) + Len(q)
      /\ p \o q \in Seq(Task)
      /\ \A i \in 1 .. Len(p) + Len(q) :
           (p \o q)[i] = IF i <= Len(p) THEN p[i] ELSE q[i - Len(p)]
  BY ConcatProperties, LenProperties
<1> DEFINE pq == p \o q
<1> HIDE DEF pq
<1>2. ASSUME NEW i \in 1 .. Len(p)
      PROVE  i \in 1 .. Len(pq) /\ pq[i] = p[i]
  BY <1>1 DEF pq
<1>3. ASSUME NEW i \in 1 .. Len(q)
      PROVE  Len(p) + i \in 1 .. Len(pq) /\ pq[Len(p) + i] = q[i]
  <2>1. /\ Len(p) + i \in 1 .. Len(p) + Len(q) /\ ~(Len(p) + i <= Len(p))
        /\ Len(p) + i - Len(p) = i
    BY <1>1
  <2> QED
    BY <1>1, <2>1 DEF pq
<1>4. ASSUME NEW i \in 1 .. Len(pq), pq[i] = WriterTask
      PROVE  \/ i \in 1 .. Len(p) /\ p[i] = WriterTask
             \/ i - Len(p) \in 1 .. Len(q) /\ q[i - Len(p)] = WriterTask
  BY <1>1, <1>4 DEF pq
<1>5. WriterDue(pq) <=> WriterDue(p) \/ WriterDue(q)
  <2>1. WriterDue(p) => WriterDue(pq)
    BY <1>2, Zenon DEF WriterDue
  <2>2. WriterDue(q) => WriterDue(pq)
    BY <1>3, Zenon DEF WriterDue
  <2>3. WriterDue(pq) => WriterDue(p) \/ WriterDue(q)
    BY <1>4, Zenon DEF WriterDue
  <2> QED
    BY <2>1, <2>2, <2>3
<1>6. WriterOnce(pq)
  <2> SUFFICES ASSUME NEW i \in 1 .. Len(pq), NEW j \in 1 .. Len(pq),
                      pq[i] = WriterTask, pq[j] = WriterTask
               PROVE  i = j
    BY DEF WriterOnce
  <2>1. CASE ~WriterDue(q)
    BY <1>4, <2>1 DEF WriterDue, WriterOnce
  <2>2. CASE ~WriterDue(p)
    <3>1. i - Len(p) = j - Len(p)
      BY <1>4, <2>2 DEF WriterDue, WriterOnce
    <3> QED
      BY <1>1, <3>1
  <2> QED
    BY <2>1, <2>2
<1> QED
  BY <1>1, <1>5, <1>6 DEF pq

\* The writer is due no more once its microtask runs.
LEMMA WriterTail ==
  ASSUME NEW q \in Seq(Task), q # <<>>, WriterOnce(q)
  PROVE  /\ Tail(q) \in Seq(Task) /\ WriterOnce(Tail(q))
         /\ Head(q) = WriterTask => WriterDue(q) /\ ~WriterDue(Tail(q))
         /\ Head(q) # WriterTask => (WriterDue(Tail(q)) <=> WriterDue(q))
<1>1. /\ Len(q) \in Nat /\ Len(q) > 0 /\ Tail(q) \in Seq(Task) /\ Len(Tail(q)) = Len(q) - 1
      /\ Head(q) = q[1]
      /\ \A i \in 1 .. Len(Tail(q)) : Tail(q)[i] = q[i + 1]
  BY HeadTailProperties, LenProperties, EmptySeq
<1> DEFINE r == Tail(q)
<1> HIDE DEF r
<1>2. ASSUME NEW i \in 1 .. Len(r)
      PROVE  i + 1 \in 1 .. Len(q) /\ i + 1 # 1 /\ r[i] = q[i + 1]
  BY <1>1 DEF r
<1>3. ASSUME NEW i \in 1 .. Len(q), i # 1
      PROVE  i - 1 \in 1 .. Len(r) /\ r[i - 1] = q[i]
  <2>1. i - 1 \in 1 .. Len(q) - 1 /\ i - 1 + 1 = i
    BY <1>1, <1>3
  <2> QED
    BY <1>1, <2>1 DEF r
<1>4. WriterOnce(r)
  <2> SUFFICES ASSUME NEW i \in 1 .. Len(r), NEW j \in 1 .. Len(r),
                      r[i] = WriterTask, r[j] = WriterTask
               PROVE  i = j
    BY DEF WriterOnce
  <2>1. i + 1 = j + 1
    BY <1>2 DEF WriterOnce
  <2> QED
    BY <2>1
<1>5. 1 \in 1 .. Len(q)
  BY <1>1
<1>6. Head(q) = WriterTask => WriterDue(q) /\ ~WriterDue(r)
  BY <1>1, <1>2, <1>5 DEF WriterDue, WriterOnce
<1>7. Head(q) # WriterTask => (WriterDue(r) <=> WriterDue(q))
  BY <1>1, <1>2, <1>3, SMTT(30) DEF WriterDue
<1> QED
  BY <1>1, <1>4, <1>6, <1>7 DEF r

\* The lists that are appended.
LEMMA WriterLists ==
  /\ ~WriterDue(<<>>) /\ WriterOnce(<<>>)
  /\ WriterDue(<<WriterTask>>) /\ WriterOnce(<<WriterTask>>)
  /\ WriterOnce(SignalWakes) /\ (WriterDue(SignalWakes) <=> writer = "waiting")
  /\ \A id \in Nat : ~WriterDue(<<AbortTask(id)>>) /\ WriterOnce(<<AbortTask(id)>>)
  /\ \A ids \in Seq(Nat) : ~WriterDue(SendTasks(ids)) /\ WriterOnce(SendTasks(ids))
<1>1. /\ ~WriterDue(<<>>) /\ WriterOnce(<<>>)
      /\ WriterDue(<<WriterTask>>) /\ WriterOnce(<<WriterTask>>)
  <2>1. /\ Len(<<>>) = 0 /\ Len(<<WriterTask>>) = 1
        /\ <<WriterTask>>[1] = WriterTask
    OBVIOUS
  <2> QED
    BY <2>1 DEF WriterDue, WriterOnce
<1>2. WriterOnce(SignalWakes) /\ (WriterDue(SignalWakes) <=> writer = "waiting")
  BY <1>1 DEF SignalWakes
<1>3. \A id \in Nat : ~WriterDue(<<AbortTask(id)>>) /\ WriterOnce(<<AbortTask(id)>>)
  BY DEF WriterDue, WriterOnce, AbortTask, WriterTask
<1>4. ASSUME NEW ids \in Seq(Nat)
      PROVE  ~WriterDue(SendTasks(ids)) /\ WriterOnce(SendTasks(ids))
  <2>1. /\ Len(SendTasks(ids)) = Len(ids)
        /\ \A i \in 1 .. Len(ids) : SendTasks(ids)[i] = SendTask(ids[i])
    BY DEF SendTasks
  <2>2. \A id : SendTask(id) # WriterTask
    BY DEF SendTask, WriterTask
  <2> QED
    BY <2>1, <2>2 DEF WriterDue, WriterOnce
<1> QED
  BY <1>1, <1>2, <1>3, <1>4

-----------------------------------------------------------------------------
(* The state of the pipeline, and what each action does to it.             *)

Pipeline(t, budget, slots, f, w) == InLine(t, budget, slots, f) /\ WriterTurn(t, w)
PipeInv == TypeOK /\ Pipeline(tasks, inflight, queueSlots, pc, writer)

\* Microtasks that are neither the writer nor a send coroutine are queued.
LEMMA PipeAppends ==
  ASSUME NEW t \in Seq(Task), NEW x \in Seq(Task), Senders(x) = {}, ~WriterDue(x), WriterOnce(x),
         NEW b, NEW s, NEW f, NEW w, Pipeline(t, b, s, f, w)
  PROVE  t \o x \in Seq(Task) /\ Pipeline(t \o x, b, s, f, w)
<1>1. t \o x \in Seq(Task) /\ InLine(t \o x, b, s, f)
  BY LineAppends DEF Pipeline
<1>2. WriterTurn(t \o x, w)
  BY WriterConcat DEF Pipeline, WriterTurn
<1> QED
  BY <1>1, <1>2 DEF Pipeline

\* The writer is resumed.
LEMMA PipeResumesWriter ==
  ASSUME NEW t \in Seq(Task), NEW b, NEW s, NEW f, NEW w, Pipeline(t, b, s, f, w),
         w # "resumed"
  PROVE  /\ t \o <<WriterTask>> \in Seq(Task)
         /\ Pipeline(t \o <<WriterTask>>, b, s, f, "resumed")
<1>1. <<WriterTask>> \in Seq(Task) /\ Senders(<<WriterTask>>) = {}
  BY WriterTaskType, SendersEffect
<1>2. t \o <<WriterTask>> \in Seq(Task) /\ InLine(t \o <<WriterTask>>, b, s, f)
  BY <1>1, LineAppends DEF Pipeline
<1>3. WriterTurn(t \o <<WriterTask>>, "resumed")
  BY <1>1, WriterLists, WriterConcat DEF Pipeline, WriterTurn
<1> QED
  BY <1>2, <1>3 DEF Pipeline

\* The writer is signalled: it is resumed if it was asleep.
LEMMA PipeSignals ==
  ASSUME NEW t \in Seq(Task), NEW b, NEW s, NEW f, Pipeline(t, b, s, f, writer)
  PROVE  /\ t \o SignalWakes \in Seq(Task)
         /\ Pipeline(t \o SignalWakes, b, s, f,
                     IF writer = "waiting" THEN "resumed" ELSE writer)
<1>1. CASE writer = "waiting"
  BY <1>1, PipeResumesWriter DEF SignalWakes
<1>2. CASE writer # "waiting"
  <2>1. SignalWakes = <<>> /\ t \o <<>> = t
    BY <1>2 DEF SignalWakes
  <2> QED
    BY <1>2, <2>1
<1> QED
  BY <1>1, <1>2

\* A semaphore resumes the first that wait for it.
LEMMA PipeWakes ==
  ASSUME NEW t \in Seq(Task), NEW b, NEW s, NEW f, NEW w, Pipeline(t, b, s, f, w),
         NEW ids, NEW r
  PROVE  /\ Hands(b, ids, r) =>
              /\ t \o SendTasks(ids) \in Seq(Task)
              /\ Pipeline(t \o SendTasks(ids), r, s, f, w)
         /\ Hands(s, ids, r) =>
              /\ t \o SendTasks(ids) \in Seq(Task)
              /\ Pipeline(t \o SendTasks(ids), b, r, f, w)
<1>1. ASSUME ids \in Seq(Nat)
      PROVE  WriterTurn(t \o SendTasks(ids), w)
  <2>1. /\ SendTasks(ids) \in Seq(Task)
        /\ ~WriterDue(SendTasks(ids)) /\ WriterOnce(SendTasks(ids))
    BY <1>1, TasksType, WriterLists
  <2> HIDE DEF SendTasks
  <2> QED
    BY <2>1, WriterConcat DEF Pipeline, WriterTurn
<1>2. ASSUME Hands(b, ids, r)
      PROVE  /\ t \o SendTasks(ids) \in Seq(Task)
             /\ Pipeline(t \o SendTasks(ids), r, s, f, w)
  BY <1>1, <1>2, BudgetWakes DEF Pipeline, Hands
<1>3. ASSUME Hands(s, ids, r)
      PROVE  /\ t \o SendTasks(ids) \in Seq(Task)
             /\ Pipeline(t \o SendTasks(ids), b, r, f, w)
  BY <1>1, <1>3, SlotsWake DEF Pipeline, Hands
<1> QED
  BY <1>2, <1>3

\* What a semaphore in line hands on.
LEMMA PipeHands ==
  ASSUME NEW t, NEW b \in SemaphoreState, NEW s \in SemaphoreState, NEW f, NEW w,
         Pipeline(t, b, s, f, w)
  PROVE  /\ Hands(b, Woken(b), Release(b))
         /\ Hands(s, Woken(s), Release(s))
         /\ \A n \in Nat : Hands(s, WokenN(s, n), ReleaseN(s, n))
         /\ Hands(s, Drained(s), DrainWaiters(s))
<1>1. /\ Rising(b.waiters) /\ Rising(s.waiters)
      /\ b.permits > 0 => b.waiters = <<>>
      /\ s.permits > 0 => s.waiters = <<>>
  BY DEF Pipeline, InLine, QueueLine
<1> QED
  BY <1>1, ReleaseHands, ReleaseNHands, DrainHands

\* Another microtask runs, and leaves the rest.
LEMMA PipeSkips ==
  ASSUME NEW t \in Seq(Task), t # <<>>, Head(t).run = "abort",
         NEW b, NEW s, NEW f, NEW w, Pipeline(t, b, s, f, w)
  PROVE  Tail(t) \in Seq(Task) /\ Pipeline(Tail(t), b, s, f, w)
<1>1. Tail(t) \in Seq(Task) /\ InLine(Tail(t), b, s, f)
  BY LineSkips DEF Pipeline
<1>2. Head(t) # WriterTask
  BY DEF WriterTask
<1>3. WriterTurn(Tail(t), w)
  BY <1>2, WriterTail DEF Pipeline, WriterTurn
<1> QED
  BY <1>1, <1>3 DEF Pipeline

\* The writer runs: it was resumed, and is not due any more.
LEMMA PipeRunsWriter ==
  ASSUME NEW t \in Seq(Task), t # <<>>, Head(t) = WriterTask,
         NEW b, NEW s, NEW f, NEW w, Pipeline(t, b, s, f, w)
  PROVE  /\ w = "resumed" /\ Tail(t) \in Seq(Task)
         /\ \A v : v # "resumed" => Pipeline(Tail(t), b, s, f, v)
<1>1. Tail(t) \in Seq(Task) /\ InLine(Tail(t), b, s, f)
  <2>1. Head(t).run # "send"
    BY DEF WriterTask
  <2> QED
    BY <2>1, LineSkips DEF Pipeline
<1>2. WriterDue(t) /\ ~WriterDue(Tail(t)) /\ WriterOnce(Tail(t))
  BY WriterTail DEF Pipeline, WriterTurn
<1> QED
  BY <1>1, <1>2 DEF Pipeline, WriterTurn

\* A request leaves the table.
LEMMA PipeFinalizes ==
  ASSUME TypeOK, NEW t \in Seq(Task), NEW w,
         Pipeline(t, inflight, queueSlots, pc, w), NEW id, Finalize(id)
  PROVE  /\ t \o FinalizeWakes(id) \in Seq(Task)
         /\ Pipeline(t \o FinalizeWakes(id), inflight', queueSlots, pc, w)
<1>1. CASE id \in permitted
  <2>1. FinalizeWakes(id) = SendTasks(Woken(inflight)) /\ inflight' = Release(inflight)
    BY <1>1 DEF FinalizeWakes, Finalize
  <2>2. Hands(inflight, Woken(inflight), Release(inflight))
    BY PipeHands DEF TypeOK
  <2> QED
    BY <2>1, <2>2, PipeWakes
<1>2. CASE id \notin permitted
  <2>1. FinalizeWakes(id) = <<>> /\ t \o <<>> = t /\ inflight' = inflight
    BY <1>2 DEF FinalizeWakes, Finalize
  <2> QED
    BY <2>1
<1> QED
  BY <1>1, <1>2

\* A cancel wakes the writer and, with the permit it returns, one coroutine.
LEMMA PipeCancel ==
  ASSUME TypeOK, NEW queue \in Seq(Task), Pipeline(queue, inflight, queueSlots, pc, writer),
         NEW id, NEW result, Cancel(id, result, queue)
  PROVE  Pipeline(tasks', inflight', queueSlots', pc', writer')
<1>0. UNCHANGED <<pc, queueSlots>>
  BY DEF Cancel
<1>1. CASE id \in pending
  <2>1. /\ SendCancel(id) /\ Finalize(id)
        /\ tasks' = (queue \o CancelWakes) \o FinalizeWakes(id)
    BY <1>1 DEF Cancel
  <2>2. /\ queue \o CancelWakes \in Seq(Task)
        /\ Pipeline(queue \o CancelWakes, inflight, queueSlots, pc, writer')
    <3>1. CASE dead
      <4>1. queue \o CancelWakes = queue /\ writer' = writer
        BY <2>1, <3>1 DEF CancelWakes, SendCancel
      <4> QED
        BY <4>1
    <3>2. CASE ~dead
      <4>1. /\ CancelWakes = SignalWakes
            /\ writer' = IF writer = "waiting" THEN "resumed" ELSE writer
        BY <2>1, <3>2 DEF CancelWakes, SendCancel, Signal
      <4> QED
        BY <4>1, PipeSignals
    <3> QED
      BY <3>1, <3>2
  <2>3. Pipeline((queue \o CancelWakes) \o FinalizeWakes(id), inflight', queueSlots, pc, writer')
    BY <2>1, <2>2, PipeFinalizes
  <2> QED
    BY <1>0, <2>1, <2>3
<1>2. CASE id \notin pending
  BY <1>0, <1>2 DEF Cancel, tableVars
<1> QED
  BY <1>1, <1>2

\* A death wakes the writer and everyone who waits for a slot, once each.
LEMMA PipeFails ==
  ASSUME PipeInv, NEW roused \in SUBSET {"draining"}, FailConnection(roused)
  PROVE  Pipeline(tasks', inflight', queueSlots', pc', writer')
<1> DEFINE told == IF dead THEN <<>> ELSE SignalWakes \o SendTasks(Drained(queueSlots))
           ended == IF writer \in roused THEN <<WriterTask>> ELSE <<>>
           roomy == IF dead THEN queueSlots ELSE DrainWaiters(queueSlots)
           woken == IF ~dead /\ writer = "waiting" THEN "resumed" ELSE writer
<1>1. /\ UNCHANGED <<pc, inflight>> /\ queueSlots' = roomy
      /\ writer' = IF writer \in roused THEN "resumed" ELSE woken
      /\ tasks' = (tasks \o told) \o ended
  BY DEF FailConnection
<1>2. /\ TypeOK /\ tasks \in Seq(Task) /\ queueSlots \in SemaphoreState
      /\ inflight \in SemaphoreState
      /\ Pipeline(tasks, inflight, queueSlots, pc, writer)
  BY DEF PipeInv, TypeOK
<1>3. tasks \o told \in Seq(Task) /\ Pipeline(tasks \o told, inflight, roomy, pc, woken)
  <2>1. CASE dead
    BY <1>2, <2>1
  <2>2. CASE ~dead
    <3> DEFINE q == tasks \o SignalWakes
               drained == Drained(queueSlots)
    <3>1. q \in Seq(Task) /\ Pipeline(q, inflight, queueSlots, pc, woken)
      BY <1>2, <2>2, PipeSignals
    <3>2. Hands(queueSlots, drained, roomy)
      BY <1>2, <2>2, PipeHands
    <3>3. SendTasks(drained) \in Seq(Task) /\ SignalWakes \in Seq(Task)
      BY <3>2, TasksType, WriterTaskType DEF Hands
    <3>4. tasks \o told = q \o SendTasks(drained)
      <4> HIDE DEF drained
      <4>1. told = SignalWakes \o SendTasks(drained)
        BY <2>2 DEF drained
      <4> HIDE DEF told
      <4>2. tasks \o (SignalWakes \o SendTasks(drained)) = (tasks \o SignalWakes) \o SendTasks(drained)
        BY <1>2, <3>3, ConcatAssociative
      <4> QED
        BY <4>1, <4>2
    <3> HIDE DEF q, drained, roomy, woken, told
    <3> QED
      BY <3>1, <3>2, <3>4, PipeWakes
  <2> QED
    BY <2>1, <2>2
<1>4. CASE writer \in roused
  <2>1. woken # "resumed" /\ ended = <<WriterTask>> /\ writer' = "resumed"
    BY <1>1, <1>4
  <2> HIDE DEF told, ended, roomy, woken
  <2> QED
    BY <1>1, <1>3, <2>1, PipeResumesWriter
<1>5. CASE writer \notin roused
  <2>1. ended = <<>> /\ writer' = woken
    BY <1>1, <1>5
  <2> HIDE DEF told, ended, roomy, woken
  <2>2. (tasks \o told) \o <<>> = tasks \o told
    BY <1>3
  <2> QED
    BY <1>1, <1>3, <2>1, <2>2
<1> QED
  BY <1>4, <1>5

\* A request is registered; "t" is what is queued before its coroutine asks for a permit.
LEMMA PipeRegisters ==
  ASSUME TypeOK, NEW t \in Seq(Task), NEW w, Pipeline(t, inflight, queueSlots, pc, w),
         NEW k, NEW result, Register(idCounter + 1, k, result)
  PROVE  Pipeline(t \o RegisterWakes(idCounter + 1), inflight', queueSlots', pc', w)
<1> DEFINE id == idCounter + 1
<1>1. /\ inflight' = Acquire(inflight, id) /\ pc' = With(pc, id, "inflight")
      /\ UNCHANGED queueSlots /\ RegisterWakes(id) = SendTasks(Granted(inflight, id))
  BY DEF Register, RegisterWakes
<1>2. id \in Nat /\ inflight \in SemaphoreState /\ \A a \in DOMAIN pc : a < id
  BY DEF TypeOK, Issued
<1> HIDE DEF id
<1>3. Granted(inflight, id) \in Seq(Nat)
  BY <1>2, AcquireType
<1>4. InLine(t \o SendTasks(Granted(inflight, id)), Acquire(inflight, id), queueSlots,
             With(pc, id, "inflight"))
  BY <1>2, LineJoins DEF Pipeline
<1>5. WriterTurn(t \o SendTasks(Granted(inflight, id)), w)
  <2>1. /\ SendTasks(Granted(inflight, id)) \in Seq(Task)
        /\ ~WriterDue(SendTasks(Granted(inflight, id)))
        /\ WriterOnce(SendTasks(Granted(inflight, id)))
    BY <1>3, TasksType, WriterLists
  <2> QED
    BY <2>1, WriterConcat DEF Pipeline, WriterTurn
<1> QED
  BY <1>1, <1>4, <1>5 DEF Pipeline, id

\* A call puts the youngest request at the end of the line for permits.
LEMMA PipeUserCall ==
  ASSUME PipeInv, UserCall
  PROVE  Pipeline(tasks', inflight', queueSlots', pc', writer')
<1>0. /\ TypeOK /\ tasks \in Seq(Task) /\ idCounter + 1 \in Nat
      /\ Pipeline(tasks, inflight, queueSlots, pc, writer)
  BY DEF PipeInv, TypeOK
<1>1. ASSUME NEW k, Open(k, <<>>)
      PROVE  Pipeline(tasks', inflight', queueSlots', pc', writer')
  <2>1. /\ Register(idCounter + 1, k, "open") /\ UNCHANGED writer
        /\ tasks' = (tasks \o <<>>) \o RegisterWakes(idCounter + 1)
    BY <1>1 DEF Open
  <2>2. tasks \o <<>> = tasks
    BY <1>0
  <2> QED
    BY <1>0, <2>1, <2>2, PipeRegisters
<1>2. ASSUME NEW k, Open(k, <<AbortTask(idCounter + 1)>>)
      PROVE  Pipeline(tasks', inflight', queueSlots', pc', writer')
  <2> DEFINE first == <<AbortTask(idCounter + 1)>>
  <2>1. /\ Register(idCounter + 1, k, "open") /\ UNCHANGED writer
        /\ tasks' = (tasks \o first) \o RegisterWakes(idCounter + 1)
    BY <1>2 DEF Open
  <2>2. /\ first \in Seq(Task) /\ Senders(first) = {}
        /\ ~WriterDue(first) /\ WriterOnce(first)
    <3>1. AbortTask(idCounter + 1) \in Task
      BY <1>0 DEF AbortTask, Task
    <3> QED
      BY <1>0, <3>1, SendersEffect, WriterLists
  <2> HIDE DEF first
  <2>3. tasks \o first \in Seq(Task) /\ Pipeline(tasks \o first, inflight, queueSlots, pc, writer)
    BY <1>0, <2>2, PipeAppends
  <2> QED
    BY <1>0, <2>1, <2>3, PipeRegisters
<1>3. ASSUME NEW k, UnaryPreAborted(k)
      PROVE  Pipeline(tasks', inflight', queueSlots', pc', writer')
  <2>1. /\ Register(idCounter + 1, k, "aborted")
        /\ writer' = IF writer = "waiting" THEN "resumed" ELSE writer
        /\ tasks' = (tasks \o SignalWakes) \o RegisterWakes(idCounter + 1)
    BY <1>3 DEF UnaryPreAborted, Signal
  <2>2. /\ tasks \o SignalWakes \in Seq(Task)
        /\ Pipeline(tasks \o SignalWakes, inflight, queueSlots, pc, writer')
    BY <1>0, <2>1, PipeSignals
  <2> QED
    BY <1>0, <2>1, <2>2, PipeRegisters
<1>4. ASSUME NEW id, NEW result, AbortUnary(id) \/ StopStream(id, result)
      PROVE  Pipeline(tasks', inflight', queueSlots', pc', writer')
  <2>1. Cancel(id, "aborted", tasks) \/ Cancel(id, result, tasks)
    BY <1>4 DEF AbortUnary, StopStream
  <2> QED
    BY <1>0, <2>1, PipeCancel
<1>5. CASE Close \/ ConnectFails
  <2>1. FailConnection({}) /\ {} \in SUBSET {"draining"}
    BY <1>5 DEF Close, ConnectFails, Destroy
  <2> QED
    BY <2>1, PipeFails
<1> QED
  BY <1>1, <1>2, <1>3, <1>4, <1>5 DEF UserCall, Unary, Stream, StreamPreAborted

\* A send coroutine resumes: what HeadOfLine and the lemmas after it need.
LEMMA PipeResumes ==
  ASSUME PipeInv, NEW id, Running("send", id)
  PROVE  /\ tasks \in Seq(Task) /\ tasks # <<>> /\ Head(tasks) = SendTask(id)
         /\ Tail(tasks) \in Seq(Task) /\ WriterTurn(Tail(tasks), writer)
         /\ InLine(tasks, inflight, queueSlots, pc)
<1>1. tasks \in Seq(Task) /\ tasks # <<>> /\ Head(tasks) = SendTask(id)
  BY DEF PipeInv, TypeOK, Running, SendTask
<1>2. Head(tasks) # WriterTask
  BY <1>1 DEF SendTask, WriterTask
<1> QED
  BY <1>1, <1>2, WriterTail DEF PipeInv, Pipeline, WriterTurn

\* A coroutine that goes no further hands its permit to the next in line.
LEMMA PipeGivesUp ==
  ASSUME PipeInv, NEW id, NEW result, Running("send", id), GiveUp(id, result)
  PROVE  Pipeline(tasks', inflight', queueSlots', pc', writer')
<1>1. /\ pc' = [pc EXCEPT ![id] = "dropped"] /\ UNCHANGED <<queueSlots, writer>>
      /\ inflight' = Release(inflight)
      /\ tasks' = Tail(tasks) \o SendTasks(Woken(inflight))
  BY DEF GiveUp, writerVars
<1>2. inflight \in SemaphoreState /\ queueSlots \in SemaphoreState
  BY DEF PipeInv, TypeOK
<1>3. Tail(tasks) \in Seq(Task) /\ Pipeline(Tail(tasks), inflight, queueSlots, pc', writer)
  BY <1>1, PipeResumes, LineLeaves DEF Pipeline
<1>4. Hands(inflight, Woken(inflight), Release(inflight))
  BY <1>2, <1>3, PipeHands
<1> QED
  BY <1>1, <1>3, <1>4, PipeWakes

\* A coroutine with its permit goes to the end of the line for slots.
LEMMA PipeTakesPermit ==
  ASSUME PipeInv, NEW id, ResumePermitted(id)
  PROVE  Pipeline(tasks', inflight', queueSlots', pc', writer')
<1>1. /\ Running("send", id) /\ pc[id] = "inflight"
      /\ pc' = [pc EXCEPT ![id] = "slot"] /\ UNCHANGED <<inflight, writer>>
      /\ queueSlots' = Acquire(queueSlots, id)
      /\ tasks' = Tail(tasks) \o SendTasks(Granted(queueSlots, id))
  BY DEF ResumePermitted, TakePermit
<1>2. queueSlots \in SemaphoreState
  BY DEF PipeInv, TypeOK
<1>3. InLine(tasks', inflight', queueSlots', pc')
  BY <1>1, <1>2, PipeResumes, LineMoves
<1>4. WriterTurn(Tail(tasks) \o SendTasks(Granted(queueSlots, id)), writer)
  <2>0. id \in Nat
    BY <1>1, PipeResumes, HeadOfLine
  <2> DEFINE x == SendTasks(Granted(queueSlots, id))
  <2>1. x \in Seq(Task) /\ ~WriterDue(x) /\ WriterOnce(x)
    BY <1>2, <2>0, AcquireType, TasksType, WriterLists
  <2> HIDE DEF x
  <2>2. Tail(tasks) \in Seq(Task) /\ WriterTurn(Tail(tasks), writer)
    BY <1>1, PipeResumes
  <2>3. WriterTurn(Tail(tasks) \o x, writer)
    BY <2>1, <2>2, WriterConcat DEF WriterTurn
  <2> QED
    BY <2>3 DEF x
<1> QED
  BY <1>1, <1>3, <1>4 DEF Pipeline

\* A coroutine with its slot leaves the lines and wakes the writer if that waits.
LEMMA PipeQueues ==
  ASSUME PipeInv, NEW id, ResumeQueued(id)
  PROVE  Pipeline(tasks', inflight', queueSlots', pc', writer')
<1>1. /\ Running("send", id)
      /\ pc' = [pc EXCEPT ![id] = "queued"] /\ UNCHANGED <<inflight, queueSlots>>
      /\ writer' = IF writer = "waiting" THEN "resumed" ELSE writer
      /\ tasks' = Tail(tasks) \o SignalWakes
  BY DEF ResumeQueued, Signal, tableVars
<1>2. Tail(tasks) \in Seq(Task) /\ Pipeline(Tail(tasks), inflight, queueSlots, pc', writer)
  BY <1>1, PipeResumes, LineLeaves DEF Pipeline
<1> QED
  BY <1>1, <1>2, PipeSignals

\* A coroutine that finds the connection dead hands its slot to the next in line.
LEMMA PipeReturnsSlot ==
  ASSUME PipeInv, NEW id, ResumeSlotDead(id)
  PROVE  Pipeline(tasks', inflight', queueSlots', pc', writer')
<1>1. /\ Running("send", id)
      /\ pc' = [pc EXCEPT ![id] = "dropped"] /\ UNCHANGED <<inflight, writer>>
      /\ queueSlots' = Release(queueSlots)
      /\ tasks' = Tail(tasks) \o SendTasks(Woken(queueSlots))
  BY DEF ResumeSlotDead, tableVars
<1>2. inflight \in SemaphoreState /\ queueSlots \in SemaphoreState
  BY DEF PipeInv, TypeOK
<1>3. Tail(tasks) \in Seq(Task) /\ Pipeline(Tail(tasks), inflight, queueSlots, pc', writer)
  BY <1>1, PipeResumes, LineLeaves DEF Pipeline
<1>4. Hands(queueSlots, Woken(queueSlots), Release(queueSlots))
  BY <1>2, <1>3, PipeHands
<1> QED
  BY <1>1, <1>3, <1>4, PipeWakes

\* The microtask of a signal that was aborted beforehand cancels its request.
LEMMA PipeAborts ==
  ASSUME PipeInv, NEW id, RunAbort(id)
  PROVE  Pipeline(tasks', inflight', queueSlots', pc', writer')
<1>1. Tail(tasks) \in Seq(Task) /\ Pipeline(Tail(tasks), inflight, queueSlots, pc, writer)
  <2>1. tasks \in Seq(Task) /\ tasks # <<>> /\ Head(tasks).run = "abort"
    BY DEF RunAbort, Running, PipeInv, TypeOK
  <2> QED
    BY <2>1, PipeSkips DEF PipeInv
<1>2. CASE outcome[id] = "open"
  BY <1>1, <1>2, PipeCancel DEF RunAbort, PipeInv
<1>3. CASE outcome[id] # "open"
  BY <1>1, <1>3 DEF RunAbort, requestVars, tableVars, writerVars
<1> QED
  BY <1>2, <1>3

\* The writer goes back to its gate.
LEMMA PipeWaits ==
  ASSUME NEW t \in Seq(Task), NEW b, NEW s, NEW f, Pipeline(t, b, s, f, "waiting"),
         GateWait(t)
  PROVE  Pipeline(tasks', b, s, f, writer')
<1>1. Append(t, WriterTask) = t \o <<WriterTask>>
  BY WriterTaskType
<1>2. Pipeline(t \o <<WriterTask>>, b, s, f, "resumed")
  BY PipeResumesWriter
<1> QED
  BY <1>1, <1>2 DEF GateWait

\* The writer hands the slots of its batch to the first in line.
LEMMA PipeWriter ==
  ASSUME PipeInv, NEW buffered \in BOOLEAN,
         WriterExits \/ WriterIdles \/ WriterWrites(buffered)
  PROVE  Pipeline(tasks', inflight', queueSlots', pc', writer')
<1>1. UNCHANGED <<pc, inflight>> /\ Running("writer", 0)
  BY DEF WriterExits, WriterIdles, WriterWrites, Write, requestVars, tableVars
<1>2. /\ tasks \in Seq(Task) /\ tasks # <<>> /\ Head(tasks) = WriterTask
      /\ inflight \in SemaphoreState /\ queueSlots \in SemaphoreState
  BY <1>1 DEF Running, WriterTask, PipeInv, TypeOK
<1>3. /\ Tail(tasks) \in Seq(Task)
      /\ \A v : v # "resumed" => Pipeline(Tail(tasks), inflight, queueSlots, pc, v)
  BY <1>2, PipeRunsWriter DEF PipeInv
<1>4. CASE WriterExits
  BY <1>1, <1>3, <1>4 DEF WriterExits
<1>5. CASE WriterIdles
  <2>1. GateWait(Tail(tasks)) /\ UNCHANGED queueSlots
    BY <1>5 DEF WriterIdles
  <2> QED
    BY <1>1, <1>3, <2>1, PipeWaits
<1>6. CASE WriterWrites(buffered)
  <2> DEFINE n == Len(outbound)
             left == Tail(tasks) \o SendTasks(WokenN(queueSlots, n))
  <2>1. /\ queueSlots' = ReleaseN(queueSlots, n)
        /\ IF buffered THEN GateWait(left)
                       ELSE writer' = "draining" /\ tasks' = left
    BY <1>6 DEF WriterWrites, Write
  <2>2. n \in Nat
    BY DEF PipeInv, TypeOK
  <2>3. \A v : v # "resumed" =>
          left \in Seq(Task) /\ Pipeline(left, inflight, ReleaseN(queueSlots, n), pc, v)
    <3> SUFFICES ASSUME NEW v, v # "resumed"
                 PROVE  left \in Seq(Task) /\ Pipeline(left, inflight, ReleaseN(queueSlots, n), pc, v)
      OBVIOUS
    <3>1. Pipeline(Tail(tasks), inflight, queueSlots, pc, v)
      BY <1>3
    <3>2. Hands(queueSlots, WokenN(queueSlots, n), ReleaseN(queueSlots, n))
      BY <1>2, <2>2, <3>1, PipeHands
    <3> HIDE DEF n
    <3> QED
      BY <1>3, <3>1, <3>2, PipeWakes
  <2> HIDE DEF n, left
  <2>4. CASE buffered
    <3>1. /\ GateWait(left) /\ left \in Seq(Task)
          /\ Pipeline(left, inflight, ReleaseN(queueSlots, n), pc, "waiting")
      BY <2>1, <2>3, <2>4
    <3> QED
      BY <1>1, <2>1, <3>1, PipeWaits
  <2>5. CASE ~buffered
    BY <1>1, <2>1, <2>3, <2>5
  <2> QED
    BY <2>4, <2>5
<1> QED
  BY <1>4, <1>5, <1>6

\* A response or a socket event wakes at most those a release or a death wakes.
LEMMA PipeEvent ==
  ASSUME PipeInv,
         \/ \E id \in pending, response \in Responses : Route(id, response)
         \/ RouteUnknown \/ RouteUnattributed \/ BadFrame \/ LocalEvent
  PROVE  Pipeline(tasks', inflight', queueSlots', pc', writer')
<1>0. /\ TypeOK /\ tasks \in Seq(Task)
      /\ Pipeline(tasks, inflight, queueSlots, pc, writer)
  BY DEF PipeInv, TypeOK
<1>1. ASSUME NEW id \in pending, NEW response \in Responses, Route(id, response)
      PROVE  Pipeline(tasks', inflight', queueSlots', pc', writer')
  <2>1. \/ \E result \in Outcomes \ {"open"} : Answer(id, result)
        \/ UNCHANGED <<requestVars, tableVars, writerVars, tasks>>
        \/ Cancel(id, "protocolError", tasks)
    BY <1>0, <1>1, RouteCases
  <2>2. CASE UNCHANGED <<requestVars, tableVars, writerVars, tasks>>
    BY <1>0, <2>2 DEF requestVars, tableVars, writerVars
  <2>3. CASE Cancel(id, "protocolError", tasks)
    BY <1>0, <2>3, PipeCancel
  <2>4. ASSUME NEW result, Answer(id, result)
        PROVE  Pipeline(tasks', inflight', queueSlots', pc', writer')
    <3>1. /\ Finalize(id) /\ UNCHANGED <<pc, queueSlots, writer>>
          /\ tasks' = tasks \o FinalizeWakes(id)
      BY <2>4 DEF Answer, writerVars
    <3> QED
      BY <1>0, <3>1, PipeFinalizes
  <2> QED
    BY <2>1, <2>2, <2>3, <2>4
<1>2. CASE RouteUnknown \/ EndChunk
  BY <1>0, <1>2 DEF RouteUnknown, EndChunk, requestVars, tableVars, writerVars
<1>3. CASE RouteUnattributed \/ BadFrame \/ SocketError \/ SocketClose
  <2>1. FailConnection({}) \/ FailConnection({"draining"})
    BY <1>3 DEF RouteUnattributed, BadFrame, SocketError, SocketClose
  <2> QED
    BY <2>1, PipeFails
<1>4. CASE DrainEvent
  <2>1. /\ tasks = <<>> /\ tasks' = <<WriterTask>> /\ writer = "draining" /\ writer' = "resumed"
        /\ UNCHANGED <<pc, inflight, queueSlots>>
    BY <1>4 DEF DrainEvent, EventDue, requestVars, tableVars
  <2>2. tasks' = tasks \o <<WriterTask>>
    BY <2>1
  <2> QED
    BY <1>0, <2>1, <2>2, PipeResumesWriter
<1> QED
  BY <1>1, <1>2, <1>3, <1>4 DEF LocalEvent

\* At first the Hello alone is under way, with a permit.
LEMMA InitPipe == Init => PipeInv
<1> SUFFICES ASSUME Init PROVE PipeInv
  OBVIOUS
<1>1. TypeOK
  BY InitType
<1>2. MaxInflightRequests \in Nat /\ MaxInflightRequests > 0 /\ HelloId \in Nat
  BY ConfigAssumption DEF HelloId
<1>3. inflight.waiters = <<>> /\ queueSlots.waiters = <<>>
  BY <1>2 DEF Init, Acquire, NewSemaphore
<1>4. tasks = <<SendTask(HelloId)>> /\ DOMAIN pc = {HelloId} /\ pc[HelloId] = "inflight"
  BY DEF Init
<1>5. Waiting(inflight) = {} /\ Waiting(queueSlots) = {}
  BY <1>3 DEF Waiting
<1>6. Senders(tasks) = {HelloId}
  <2>1. Len(tasks) = 1 /\ tasks[1] = SendTask(HelloId)
    BY <1>4
  <2>2. tasks[1].run = "send" /\ tasks[1].id = HelloId
    BY <2>1 DEF SendTask
  <2> QED
    BY <2>1, <2>2 DEF Senders
<1>7. At(pc, "inflight") = {HelloId} /\ At(pc, "slot") = {}
  BY <1>4 DEF At
<1>8. OrderedTasks(tasks, pc)
  BY <1>4 DEF OrderedTasks
<1>9. Rising(inflight.waiters) /\ Rising(queueSlots.waiters)
  BY <1>3 DEF Rising
<1>10. InLine(tasks, inflight, queueSlots, pc)
  BY <1>3, <1>5, <1>6, <1>7, <1>8, <1>9 DEF InLine, QueueLine
<1>11. WriterTurn(tasks, writer)
  <2>1. SendTask(HelloId) # WriterTask /\ writer = "waiting"
    BY DEF SendTask, WriterTask, Init
  <2> QED
    BY <1>4, <2>1 DEF WriterTurn, WriterOnce, WriterDue
<1> QED
  BY <1>1, <1>10, <1>11 DEF PipeInv, Pipeline

LEMMA StepPipe == PipeInv /\ [Next]_vars => PipeInv'
<1> SUFFICES ASSUME PipeInv, [Next]_vars
             PROVE  PipeInv'
  OBVIOUS
<1>1. TypeOK'
  BY StepType DEF PipeInv
<1>2. CASE Microtask
  <2>1. ASSUME NEW id \in Issued, ResumeGone(id) \/ ResumeDead(id) \/ ResumeTooLarge(id)
        PROVE  Pipeline(tasks', inflight', queueSlots', pc', writer')
    BY <2>1, PipeGivesUp DEF ResumeGone, ResumeDead, ResumeTooLarge
  <2>2. Pipeline(tasks', inflight', queueSlots', pc', writer')
    BY <1>2, <2>1, PipeTakesPermit, PipeQueues, PipeReturnsSlot, PipeAborts, PipeWriter
       DEF Microtask
  <2> QED
    BY <1>1, <2>2 DEF PipeInv
<1>3. CASE UNCHANGED vars
  BY <1>1, <1>3 DEF PipeInv, vars, requestVars, tableVars, writerVars
<1>4. CASE Next /\ ~Microtask
  BY <1>1, <1>4, PipeUserCall, PipeEvent DEF Next, PipeInv
<1> QED
  BY <1>2, <1>3, <1>4

-----------------------------------------------------------------------------
(* Woken once.                                                             *)

\* What occurs at most once in a sequence is counted once or not at all.
LEMMA CountOnce ==
  ASSUME NEW q, NEW v, \A i, j \in 1 .. Len(q) : q[i] = v /\ q[j] = v => i = j
  PROVE  Cardinality({i \in 1 .. Len(q) : q[i] = v})
           = IF \E i \in 1 .. Len(q) : q[i] = v THEN 1 ELSE 0
<1>1. CASE \E i \in 1 .. Len(q) : q[i] = v
  <2>1. PICK i \in 1 .. Len(q) : q[i] = v
    BY <1>1
  <2>2. {j \in 1 .. Len(q) : q[j] = v} = {i}
    BY <2>1
  <2> QED
    BY <1>1, <2>2, FS_Singleton
<1>2. CASE ~\E i \in 1 .. Len(q) : q[i] = v
  <2>1. {j \in 1 .. Len(q) : q[j] = v} = {}
    BY <1>2
  <2> QED
    BY <1>2, <2>1, FS_EmptySet
<1> QED
  BY <1>1, <1>2

\* Who waits is counted once, as is who has been resumed.
LEMMA WaitsOnce ==
  ASSUME NEW s \in SemaphoreState, Rising(s.waiters), NEW id
  PROVE  WaitCount(s, id) = IF id \in Waiting(s) THEN 1 ELSE 0
<1>1. Len(s.waiters) \in Nat /\ \A i \in 1 .. Len(s.waiters) : s.waiters[i] \in Nat
  BY LenProperties, ElementOfSeq DEF SemaphoreState
<1>2. \A i, j \in 1 .. Len(s.waiters) : s.waiters[i] = id /\ s.waiters[j] = id => i = j
  <2> SUFFICES ASSUME NEW i \in 1 .. Len(s.waiters), NEW j \in 1 .. Len(s.waiters),
                      s.waiters[i] = id, s.waiters[j] = id, i # j
               PROVE  FALSE
    OBVIOUS
  <2>1. i < j \/ j < i
    BY <1>1
  <2> QED
    BY <1>1, <2>1 DEF Rising
<1>3. WaitCount(s, id) = IF \E i \in 1 .. Len(s.waiters) : s.waiters[i] = id THEN 1 ELSE 0
  BY <1>2, CountOnce DEF WaitCount
<1> QED
  BY <1>3 DEF Waiting

\* A send coroutine is due once or not at all.
LEMMA ResumesOnce ==
  ASSUME PipeInv, NEW id
  PROVE  TaskCount(SendTask(id)) = IF id \in Senders(tasks) THEN 1 ELSE 0
<1>1. /\ Len(tasks) \in Nat /\ OrderedTasks(tasks, pc)
      /\ \A i \in 1 .. Len(tasks) : tasks[i] \in Task
  BY LenProperties, ElementOfSeq DEF PipeInv, Pipeline, InLine, TypeOK
<1>2. \A i \in 1 .. Len(tasks) :
        tasks[i] = SendTask(id) <=> tasks[i].run = "send" /\ tasks[i].id = id
  BY <1>1 DEF Task, SendTask
<1>3. \A i, j \in 1 .. Len(tasks) : tasks[i] = SendTask(id) /\ tasks[j] = SendTask(id) => i = j
  <2> SUFFICES ASSUME NEW i \in 1 .. Len(tasks), NEW j \in 1 .. Len(tasks),
                      tasks[i] = SendTask(id), tasks[j] = SendTask(id), i # j
               PROVE  FALSE
    OBVIOUS
  <2>1. i < j \/ j < i
    BY <1>1
  <2>2. id < id /\ id \in Nat
    <3>1. /\ tasks[i].run = "send" /\ tasks[j].run = "send"
          /\ tasks[i].id = id /\ tasks[j].id = id
      BY <1>2
    <3>2. id \in Nat
      BY <1>1, <3>1 DEF Task
    <3> QED
      BY <1>1, <2>1, <3>1, <3>2 DEF OrderedTasks
  <2> QED
    BY <2>2
<1>4. TaskCount(SendTask(id))
        = IF \E i \in 1 .. Len(tasks) : tasks[i] = SendTask(id) THEN 1 ELSE 0
  BY <1>3, CountOnce DEF TaskCount
<1>5. (\E i \in 1 .. Len(tasks) : tasks[i] = SendTask(id)) <=> id \in Senders(tasks)
  BY <1>2 DEF Senders
<1> QED
  BY <1>4, <1>5

\* Who is due once or waits once is woken once.
LEMMA PipeWokenOnce == PipeInv => WokenOnce
<1> SUFFICES ASSUME PipeInv PROVE WokenOnce
  OBVIOUS
<1>1. /\ inflight \in SemaphoreState /\ queueSlots \in SemaphoreState
      /\ Rising(inflight.waiters) /\ Rising(queueSlots.waiters)
      /\ Issued \subseteq Nat
  BY DEF PipeInv, Pipeline, InLine, QueueLine, TypeOK
<1>2. ASSUME NEW id \in Issued
      PROVE  TaskCount(SendTask(id)) + WaitCount(inflight, id) + WaitCount(queueSlots, id)
               = IF pc[id] \in {"inflight", "slot"} THEN 1 ELSE 0
  <2>1. /\ TaskCount(SendTask(id)) = IF id \in Senders(tasks) THEN 1 ELSE 0
        /\ WaitCount(inflight, id) = IF id \in Waiting(inflight) THEN 1 ELSE 0
        /\ WaitCount(queueSlots, id) = IF id \in Waiting(queueSlots) THEN 1 ELSE 0
    BY <1>1, WaitsOnce, ResumesOnce
  <2>2. /\ id \in Waiting(inflight) => pc[id] = "inflight"
        /\ id \in Waiting(queueSlots) => pc[id] = "slot"
        /\ id \in Senders(tasks) => pc[id] \in {"inflight", "slot"}
        /\ pc[id] = "inflight" => id \in Senders(tasks) \cup Waiting(inflight)
        /\ pc[id] = "slot" => id \in Senders(tasks) \cup Waiting(queueSlots)
    BY DEF PipeInv, Pipeline, InLine, QueueLine, At, Issued
  <2>3. ~(id < id)
    BY <1>1
  <2>4. /\ ~(id \in Senders(tasks) /\ id \in Waiting(inflight))
        /\ ~(id \in Senders(tasks) /\ id \in Waiting(queueSlots))
    BY <2>2, <2>3 DEF PipeInv, Pipeline, InLine, QueueLine
  <2> QED
    BY <2>1, <2>2, <2>4
<1>3. TaskCount(WriterTask) = IF writer = "resumed" THEN 1 ELSE 0
  <2>1. WriterTurn(tasks, writer)
    BY DEF PipeInv, Pipeline
  <2>2. TaskCount(WriterTask)
          = IF \E i \in 1 .. Len(tasks) : tasks[i] = WriterTask THEN 1 ELSE 0
    BY <2>1, CountOnce DEF TaskCount, WriterTurn, WriterOnce
  <2> QED
    BY <2>1, <2>2 DEF WriterTurn, WriterDue
<1> QED
  BY <1>2, <1>3 DEF WokenOnce

\* No wake-up of a coroutine is lost and none is given twice: it waits in one line
\* once, or is in the microtask queue once.
THEOREM EachWokenOnce == Spec => []WokenOnce
<1>1. Init => PipeInv
  BY InitPipe
<1>2. PipeInv /\ [Next]_vars => PipeInv'
  BY StepPipe
<1>3. PipeInv => WokenOnce
  BY PipeWokenOnce
<1> QED
  BY <1>1, <1>2, <1>3, PTL DEF Spec

-----------------------------------------------------------------------------
(* The order of the requests on the wire.                                  *)

FrameIds(w) == {w[i].id : i \in {j \in 1 .. Len(w) : w[j].type = "request"}}
RisingFrames(w) ==
  \A i, j \in 1 .. Len(w) :
    i < j /\ w[i].type = "request" /\ w[j].type = "request" => w[i].id < w[j].id

\* Two stretches of frames are in order together exactly when each is, and the first
\* is older than the second.
LEMMA FramesConcat ==
  ASSUME NEW p \in Seq(Frame), NEW q \in Seq(Frame)
  PROVE  /\ p \o q \in Seq(Frame)
         /\ FrameIds(p \o q) = FrameIds(p) \cup FrameIds(q)
         /\ RisingFrames(p \o q) <=>
              /\ RisingFrames(p) /\ RisingFrames(q)
              /\ \A a \in FrameIds(p), b \in FrameIds(q) : a < b
<1> DEFINE pq == p \o q
<1>1. /\ Len(p) \in Nat /\ Len(q) \in Nat /\ Len(pq) = Len(p) + Len(q)
      /\ pq \in Seq(Frame)
      /\ \A i \in 1 .. Len(p) + Len(q) :
           pq[i] = IF i <= Len(p) THEN p[i] ELSE q[i - Len(p)]
  BY ConcatProperties, LenProperties
<1> HIDE DEF pq
<1>2. ASSUME NEW i \in 1 .. Len(p)
      PROVE  i \in 1 .. Len(pq) /\ pq[i] = p[i]
  BY <1>1
<1>3. ASSUME NEW i \in 1 .. Len(q)
      PROVE  Len(p) + i \in 1 .. Len(pq) /\ pq[Len(p) + i] = q[i]
  <2>1. /\ Len(p) + i \in 1 .. Len(p) + Len(q) /\ ~(Len(p) + i <= Len(p))
        /\ Len(p) + i - Len(p) = i
    BY <1>1
  <2> QED
    BY <1>1, <2>1
<1>4. ASSUME NEW i \in 1 .. Len(pq)
      PROVE  \/ i \in 1 .. Len(p) /\ pq[i] = p[i]
             \/ i - Len(p) \in 1 .. Len(q) /\ pq[i] = q[i - Len(p)] /\ Len(p) < i
  BY <1>1
<1>5. FrameIds(p) \cup FrameIds(q) \subseteq FrameIds(pq)
  <2>1. ASSUME NEW i \in 1 .. Len(p), p[i].type = "request"
        PROVE  p[i].id \in FrameIds(pq)
    BY <1>2, <2>1 DEF FrameIds
  <2>2. ASSUME NEW i \in 1 .. Len(q), q[i].type = "request"
        PROVE  q[i].id \in FrameIds(pq)
    BY <1>3, <2>2 DEF FrameIds
  <2> QED
    BY <2>1, <2>2 DEF FrameIds
<1>6. FrameIds(pq) \subseteq FrameIds(p) \cup FrameIds(q)
  <2>1. ASSUME NEW i \in 1 .. Len(pq), pq[i].type = "request"
        PROVE  pq[i].id \in FrameIds(p) \cup FrameIds(q)
    BY <1>4, <2>1 DEF FrameIds
  <2> QED
    BY <2>1 DEF FrameIds
<1>7. ASSUME RisingFrames(pq)
      PROVE  /\ RisingFrames(p) /\ RisingFrames(q)
             /\ \A a \in FrameIds(p), b \in FrameIds(q) : a < b
  <2>1. RisingFrames(p)
    BY <1>2, <1>7 DEF RisingFrames
  <2>2. RisingFrames(q)
    <3> SUFFICES ASSUME NEW i \in 1 .. Len(q), NEW j \in 1 .. Len(q), i < j,
                        q[i].type = "request", q[j].type = "request"
                 PROVE  q[i].id < q[j].id
      BY DEF RisingFrames
    <3>1. Len(p) + i < Len(p) + j
      BY <1>1
    <3> QED
      BY <1>3, <1>7, <3>1 DEF RisingFrames
  <2>3. ASSUME NEW i \in 1 .. Len(p), NEW j \in 1 .. Len(q),
               p[i].type = "request", q[j].type = "request"
        PROVE  p[i].id < q[j].id
    <3>1. i < Len(p) + j
      BY <1>1
    <3> QED
      BY <1>2, <1>3, <1>7, <2>3, <3>1 DEF RisingFrames
  <2> QED
    BY <2>1, <2>2, <2>3 DEF FrameIds
<1>8. ASSUME RisingFrames(p), RisingFrames(q),
             \A a \in FrameIds(p), b \in FrameIds(q) : a < b
      PROVE  RisingFrames(pq)
  <2> SUFFICES ASSUME NEW i \in 1 .. Len(pq), NEW j \in 1 .. Len(pq), i < j,
                      pq[i].type = "request", pq[j].type = "request"
               PROVE  pq[i].id < pq[j].id
    BY DEF RisingFrames
  <2>1. CASE j \in 1 .. Len(p) /\ pq[j] = p[j]
    <3>1. i \in 1 .. Len(p) /\ pq[i] = p[i]
      BY <1>1, <1>2, <2>1
    <3> QED
      BY <1>8, <2>1, <3>1 DEF RisingFrames
  <2>2. CASE j - Len(p) \in 1 .. Len(q) /\ pq[j] = q[j - Len(p)] /\ Len(p) < j
    <3>1. CASE i \in 1 .. Len(p) /\ pq[i] = p[i]
      <4>1. pq[i].id \in FrameIds(p) /\ pq[j].id \in FrameIds(q)
        BY <2>2, <3>1 DEF FrameIds
      <4> QED
        BY <1>8, <4>1
    <3>2. CASE i - Len(p) \in 1 .. Len(q) /\ pq[i] = q[i - Len(p)] /\ Len(p) < i
      <4>1. i - Len(p) < j - Len(p)
        BY <1>1
      <4> QED
        BY <1>8, <2>2, <3>2, <4>1 DEF RisingFrames
    <3> QED
      BY <1>4, <3>1, <3>2
  <2> QED
    BY <1>4, <2>1, <2>2
<1>9. FrameIds(pq) = FrameIds(p) \cup FrameIds(q)
  BY <1>5, <1>6
<1> QED
  BY <1>1, <1>7, <1>8, <1>9 DEF pq

\* What the frames of cancels and of requests amount to.
LEMMA FramesOf ==
  ASSUME NEW ids \in Seq(Nat)
  PROVE  /\ CancelFrames(ids) \in Seq(Frame) /\ RequestFrames(ids) \in Seq(Frame)
         /\ FrameIds(CancelFrames(ids)) = {} /\ RisingFrames(CancelFrames(ids))
         /\ FrameIds(RequestFrames(ids)) = Members(ids)
<1>1. CancelFrames(ids) \in Seq(Frame) /\ RequestFrames(ids) \in Seq(Frame)
  BY FramesType
<1>2. /\ Len(CancelFrames(ids)) = Len(ids) /\ Len(RequestFrames(ids)) = Len(ids)
      /\ \A i \in 1 .. Len(ids) : CancelFrames(ids)[i].type = "cancel"
      /\ \A i \in 1 .. Len(ids) : RequestFrames(ids)[i].type = "request"
      /\ \A i \in 1 .. Len(ids) : RequestFrames(ids)[i].id = ids[i]
  BY DEF CancelFrames, RequestFrames, CancelFrame, RequestFrame
<1>3. FrameIds(CancelFrames(ids)) = {} /\ RisingFrames(CancelFrames(ids))
  BY <1>2 DEF FrameIds, RisingFrames
<1>4. FrameIds(RequestFrames(ids)) = Members(ids)
  BY <1>2 DEF FrameIds, Members
<1> QED
  BY <1>1, <1>3, <1>4

\* One more request is queued.
LEMMA FramesAppend ==
  ASSUME NEW ids \in Seq(Nat), NEW id \in Nat
  PROVE  RequestFrames(Append(ids, id)) = RequestFrames(ids) \o RequestFrames(<<id>>)
<1> DEFINE longer == Append(ids, id)
           one == RequestFrames(<<id>>)
           x == RequestFrames(ids)
           y == RequestFrames(longer)
<1>1. /\ Len(ids) \in Nat /\ longer \in Seq(Nat) /\ Len(longer) = Len(ids) + 1
      /\ longer[Len(ids) + 1] = id
      /\ \A i \in 1 .. Len(ids) : longer[i] = ids[i]
  BY AppendProperties, LenProperties
<1>2. /\ one \in Seq(Frame) /\ Len(one) = 1 /\ one[1] = RequestFrame(id)
  <2>1. <<id>> \in Seq(Nat) /\ Len(<<id>>) = 1 /\ <<id>>[1] = id
    OBVIOUS
  <2>2. one \in Seq(Frame)
    BY <2>1, FramesType
  <2> QED
    BY <2>1, <2>2 DEF RequestFrames
<1> HIDE DEF longer, one
<1>3. /\ y \in Seq(Frame) /\ x \in Seq(Frame)
      /\ Len(y) = Len(ids) + 1 /\ Len(x) = Len(ids)
      /\ \A i \in 1 .. Len(ids) + 1 : y[i] = RequestFrame(longer[i])
      /\ \A i \in 1 .. Len(ids) : x[i] = RequestFrame(ids[i])
  <2>1. y \in Seq(Frame) /\ x \in Seq(Frame)
    BY <1>1, FramesType
  <2> QED
    BY <1>1, <2>1 DEF RequestFrames
<1> HIDE DEF x, y
<1>4. /\ x \o one \in Seq(Frame) /\ Len(x \o one) = Len(ids) + 1
      /\ \A i \in 1 .. Len(ids) + 1 :
           (x \o one)[i] = IF i <= Len(ids) THEN x[i] ELSE one[i - Len(ids)]
  <2>1. /\ x \o one \in Seq(Frame) /\ Len(x \o one) = Len(x) + Len(one)
        /\ \A i \in 1 .. Len(x) + Len(one) :
             (x \o one)[i] = IF i <= Len(x) THEN x[i] ELSE one[i - Len(x)]
    <3>1. x \in Seq(Frame) /\ one \in Seq(Frame)
      BY <1>2, <1>3
    <3> QED
      BY <3>1, ConcatProperties, Zenon
  <2>2. Len(x) = Len(ids) /\ Len(one) = 1
    BY <1>2, <1>3
  <2> QED
    BY <2>1, <2>2
<1>5. \A i \in 1 .. Len(ids) + 1 : (x \o one)[i] = y[i]
  <2>1. ASSUME NEW i \in 1 .. Len(ids) + 1
        PROVE  (x \o one)[i] = y[i]
    <3>1. CASE i <= Len(ids)
      BY <1>1, <1>3, <1>4, <3>1
    <3>2. CASE i = Len(ids) + 1
      <4>1. ~(i <= Len(ids)) /\ i - Len(ids) = 1
        BY <1>1, <3>2
      <4> QED
        BY <1>1, <1>2, <1>3, <1>4, <3>2, <4>1
    <3>3. Len(ids) \in Nat /\ (i <= Len(ids) \/ i = Len(ids) + 1)
      BY <1>1
    <3> QED
      BY <3>1, <3>2, <3>3
  <2> QED
    BY <2>1
<1>6. x \o one = y
  BY <1>3, <1>4, <1>5, SeqEqual
<1> QED
  BY <1>6 DEF x, y, one, longer

\* Where the order comes from: what has departed is older than all that are still at an
\* await, and only those that have left the second await have departed.
OrderInv ==
  /\ PipeInv
  /\ RisingFrames(Departing)
  /\ FrameIds(Departing) \subseteq At(pc, "queued")
  /\ \A a \in FrameIds(Departing), id \in At(pc, "inflight") \cup At(pc, "slot") : a < id

\* A step that lets nothing depart.
LEMMA OrderKept ==
  ASSUME OrderInv, Next,
         FrameIds(Departing') = FrameIds(Departing), RisingFrames(Departing')
  PROVE  OrderInv'
<1>1. PipeInv' /\ TypeOK
  BY StepPipe DEF OrderInv, PipeInv
<1>2. FrameIds(Departing) \subseteq Issued /\ Issued \subseteq 1 .. idCounter /\ idCounter \in Nat
  BY <1>1 DEF OrderInv, At, Issued, TypeOK
<1>3. ASSUME NEW a \in FrameIds(Departing)
      PROVE  a \in At(pc, "queued")'
  <2>1. a \in Issued /\ pc[a] = "queued"
    BY <1>3 DEF OrderInv, At, Issued
  <2> QED
    BY <1>1, <2>1, Progress DEF At, Issued
<1>4. ASSUME NEW a \in FrameIds(Departing), NEW id \in Issued', pc'[id] \in {"inflight", "slot"}
      PROVE  a < id
  <2>1. CASE id \in Issued
    <3>1. pc[id] \in {"inflight", "slot"}
      BY <1>1, <1>4, <2>1, Progress
    <3> QED
      BY <2>1, <3>1 DEF OrderInv, At, Issued
  <2>2. CASE id \notin Issued
    <3>1. id = idCounter + 1
      BY <1>1, <2>2, NewIds
    <3>2. a \in 1 .. idCounter
      BY <1>2, <1>4
    <3> QED
      BY <1>2, <3>1, <3>2
  <2> QED
    BY <2>1, <2>2
<1>5. \A a \in FrameIds(Departing'),
         id \in At(pc, "inflight")' \cup At(pc, "slot")' : a < id
  BY <1>4 DEF At, Issued
<1> QED
  BY <1>1, <1>3, <1>5 DEF OrderInv

\* A request is queued: it is the oldest of those that had not departed.
LEMMA OrderQueues ==
  ASSUME OrderInv, NEW id \in Issued, ResumeQueued(id)
  PROVE  OrderInv'
<1>1. PipeInv' /\ TypeOK /\ PipeInv
  <2>1. Next
    BY DEF Next, Microtask
  <2> QED
    BY <2>1, StepPipe DEF OrderInv, PipeInv
<1>2. /\ Running("send", id) /\ pc[id] = "slot" /\ wire' = wire
      /\ pc' = [pc EXCEPT ![id] = "queued"] /\ outbound' = Append(outbound, id)
  BY DEF ResumeQueued
<1>3. /\ wire \in Seq(Frame) /\ outbound \in Seq(Nat) /\ id \in Nat
      /\ FrameIds(Departing) \subseteq Nat
  BY <1>1 DEF TypeOK, OrderInv, At, Issued
<1>4. /\ RequestFrames(outbound) \in Seq(Frame) /\ RequestFrames(<<id>>) \in Seq(Frame)
      /\ FrameIds(RequestFrames(<<id>>)) = {id} /\ RisingFrames(RequestFrames(<<id>>))
  <2>1. <<id>> \in Seq(Nat) /\ Members(<<id>>) = {id}
    BY <1>3 DEF Members
  <2>2. RisingFrames(RequestFrames(<<id>>))
    <3>1. Len(RequestFrames(<<id>>)) = 1
      BY DEF RequestFrames
    <3> QED
      BY <3>1 DEF RisingFrames
  <2> QED
    BY <1>3, <2>1, <2>2, FramesOf
<1>5. Departing' = Departing \o RequestFrames(<<id>>) /\ Departing \in Seq(Frame)
  <2>1. RequestFrames(outbound') = RequestFrames(outbound) \o RequestFrames(<<id>>)
    BY <1>2, <1>3, FramesAppend
  <2>2. (wire \o RequestFrames(outbound)) \o RequestFrames(<<id>>)
          = wire \o (RequestFrames(outbound) \o RequestFrames(<<id>>))
    BY <1>3, <1>4, ConcatAssociative
  <2>3. wire \o RequestFrames(outbound) \in Seq(Frame)
    BY <1>3, <1>4, FramesConcat
  <2> QED
    BY <1>2, <2>1, <2>2, <2>3 DEF Departing
<1>6. \A a \in FrameIds(Departing) : a < id
  BY <1>2 DEF OrderInv, At, Issued
<1>7. FrameIds(Departing') = FrameIds(Departing) \cup {id} /\ RisingFrames(Departing')
  <2>1. /\ FrameIds(Departing \o RequestFrames(<<id>>)) = FrameIds(Departing) \cup {id}
        /\ RisingFrames(Departing \o RequestFrames(<<id>>)) <=>
             /\ RisingFrames(Departing) /\ RisingFrames(RequestFrames(<<id>>))
             /\ \A a \in FrameIds(Departing), b \in {id} : a < b
    BY <1>4, <1>5, FramesConcat
  <2> QED
    BY <1>4, <1>5, <1>6, <2>1 DEF OrderInv
<1>8. \A other \in At(pc, "inflight") \cup At(pc, "slot") : other # id => id < other
  <2>1. \A a \in At(pc, "slot") \ {id} : id < a
    BY <1>1, <1>2, PipeResumes, HeadOfLine
  <2>2. id \in At(pc, "slot")
    BY <1>2 DEF At, Issued
  <2> QED
    BY <1>1, <2>1, <2>2 DEF PipeInv, Pipeline, InLine
<1>9. /\ At(pc, "inflight")' = At(pc, "inflight") \ {id}
      /\ At(pc, "slot")' = At(pc, "slot") \ {id}
      /\ At(pc, "queued")' = At(pc, "queued") \cup {id}
  <2>1. /\ DOMAIN pc' = DOMAIN pc /\ id \in DOMAIN pc /\ pc'[id] = "queued"
        /\ \A i \in DOMAIN pc \ {id} : pc'[i] = pc[i]
    BY <1>2 DEF Issued
  <2> QED
    BY <1>2, <2>1 DEF At
<1>10. FrameIds(Departing') \subseteq At(pc, "queued")'
  BY <1>7, <1>9 DEF OrderInv
<1>11. \A a \in FrameIds(Departing'),
          other \in At(pc, "inflight")' \cup At(pc, "slot")' : a < other
  BY <1>7, <1>8, <1>9 DEF OrderInv
<1> QED
  BY <1>1, <1>7, <1>10, <1>11 DEF OrderInv

\* A write moves what is queued behind what is written, with cancels in between.
LEMMA OrderWrites ==
  ASSUME OrderInv, NEW buffered \in BOOLEAN, WriterWrites(buffered)
  PROVE  OrderInv'
<1> DEFINE cancels == CancelFrames(priority)
           requests == RequestFrames(outbound)
<1>1. Next
  BY DEF Next, Microtask
<1>2. /\ wire \in Seq(Frame) /\ outbound \in Seq(Nat) /\ priority \in Seq(Nat)
  BY DEF OrderInv, PipeInv, TypeOK
<1>3. wire' = (wire \o cancels) \o requests /\ outbound' = <<>>
  BY DEF WriterWrites, Write
<1>4. /\ cancels \in Seq(Frame) /\ requests \in Seq(Frame)
      /\ FrameIds(cancels) = {} /\ RisingFrames(cancels)
  BY <1>2, FramesOf
<1>5. Departing = wire \o requests /\ Departing' = wire' \o <<>>
  <2>1. RequestFrames(<<>>) = <<>>
    BY DEF RequestFrames
  <2> QED
    BY <1>3, <2>1 DEF Departing
<1> HIDE DEF cancels, requests
<1>6. /\ wire \o cancels \in Seq(Frame)
      /\ FrameIds(wire \o cancels) = FrameIds(wire)
      /\ RisingFrames(wire \o cancels) <=> RisingFrames(wire)
  <2>1. /\ wire \o cancels \in Seq(Frame)
        /\ FrameIds(wire \o cancels) = FrameIds(wire) \cup FrameIds(cancels)
        /\ RisingFrames(wire \o cancels) <=>
             /\ RisingFrames(wire) /\ RisingFrames(cancels)
             /\ \A a \in FrameIds(wire), b \in FrameIds(cancels) : a < b
    BY <1>2, <1>4, FramesConcat
  <2> QED
    BY <1>4, <2>1
<1>7. /\ wire' \in Seq(Frame)
      /\ FrameIds(wire') = FrameIds(wire) \cup FrameIds(requests)
      /\ RisingFrames(wire') <=>
           /\ RisingFrames(wire) /\ RisingFrames(requests)
           /\ \A a \in FrameIds(wire), b \in FrameIds(requests) : a < b
  <2>1. /\ (wire \o cancels) \o requests \in Seq(Frame)
        /\ FrameIds((wire \o cancels) \o requests) = FrameIds(wire \o cancels) \cup FrameIds(requests)
        /\ RisingFrames((wire \o cancels) \o requests) <=>
             /\ RisingFrames(wire \o cancels) /\ RisingFrames(requests)
             /\ \A a \in FrameIds(wire \o cancels), b \in FrameIds(requests) : a < b
    BY <1>4, <1>6, FramesConcat
  <2> QED
    BY <1>3, <1>6, <2>1
<1>8. Departing' = wire'
  BY <1>5, <1>7
<1>9. /\ FrameIds(Departing) = FrameIds(wire) \cup FrameIds(requests)
      /\ RisingFrames(Departing) <=>
           /\ RisingFrames(wire) /\ RisingFrames(requests)
           /\ \A a \in FrameIds(wire), b \in FrameIds(requests) : a < b
  BY <1>2, <1>4, <1>5, FramesConcat
<1>10. FrameIds(Departing') = FrameIds(Departing) /\ RisingFrames(Departing')
  BY <1>7, <1>8, <1>9 DEF OrderInv
<1> QED
  BY <1>1, <1>10, OrderKept

LEMMA InitOrder == Init => OrderInv
<1> SUFFICES ASSUME Init PROVE OrderInv
  OBVIOUS
<1>1. Departing = <<>>
  <2>1. RequestFrames(<<>>) = <<>>
    BY DEF RequestFrames
  <2> QED
    BY <2>1 DEF Departing, Init
<1>2. FrameIds(<<>>) = {} /\ RisingFrames(<<>>)
  BY DEF FrameIds, RisingFrames
<1> QED
  BY <1>1, <1>2, InitPipe DEF OrderInv

LEMMA StepOrder == OrderInv /\ [Next]_vars => OrderInv'
<1> SUFFICES ASSUME OrderInv, [Next]_vars
             PROVE  OrderInv'
  OBVIOUS
<1>1. ASSUME UNCHANGED <<wire, outbound>>, Next
      PROVE  OrderInv'
  <2>1. Departing' = Departing
    BY <1>1 DEF Departing
  <2>2. FrameIds(Departing') = FrameIds(Departing) /\ RisingFrames(Departing')
    BY <2>1 DEF OrderInv
  <2> QED
    BY <1>1, <2>2, OrderKept
<1>2. ASSUME NEW id \in Issued, ResumePermitted(id), Next
      PROVE  OrderInv'
  BY <1>1, <1>2 DEF ResumePermitted, TakePermit
<1>3. CASE Next
  <2>1. TypeOK
    BY DEF OrderInv, PipeInv
  <2>2. \/ UNCHANGED <<wire, outbound>>
        \/ \E id \in Issued : ResumePermitted(id) \/ ResumeQueued(id)
        \/ \E buffered \in BOOLEAN : WriterWrites(buffered)
    BY <1>3, <2>1, QueueEffect
  <2> QED
    BY <1>1, <1>2, <1>3, <2>2, OrderQueues, OrderWrites
<1>4. CASE UNCHANGED vars
  <2>1. PipeInv'
    BY StepPipe DEF OrderInv
  <2>2. Departing' = Departing /\ pc' = pc
    BY <1>4 DEF Departing, vars, writerVars, requestVars
  <2> QED
    BY <2>1, <2>2 DEF OrderInv
<1> QED
  BY <1>3, <1>4

\* Requests reach the socket in the order they were issued, whatever is cancelled,
\* refused or too large in between and however the writer batches.
THEOREM OrderKeptToSocket == Spec => []InIssueOrder
<1>1. Init => OrderInv
  BY InitOrder
<1>2. OrderInv /\ [Next]_vars => OrderInv'
  BY StepOrder
<1>3. OrderInv => InIssueOrder
  <2> SUFFICES ASSUME OrderInv PROVE InIssueOrder
    OBVIOUS
  <2>1. ASSUME NEW id \in Issued, pc[id] \in {"inflight", "slot"},
               NEW i \in 1 .. Len(Departing), Departing[i].type = "request"
        PROVE  Departing[i].id < id
    <3>1. Departing[i].id \in FrameIds(Departing)
      BY <2>1 DEF FrameIds
    <3>2. id \in At(pc, "inflight") \cup At(pc, "slot")
      BY <2>1 DEF At, Issued
    <3> QED
      BY <3>1, <3>2 DEF OrderInv
  <2> QED
    BY <2>1 DEF InIssueOrder, OrderInv, RisingFrames
<1> QED
  BY <1>1, <1>2, <1>3, PTL DEF Spec

-----------------------------------------------------------------------------
(* The depth of the outbound queue.                                        *)

\* Slotted and QueueDepth count like Holding and InflightBudget in ConnectionProofs; only
\* the writer's many releases at once are new.
DepthInv == PipeInv /\ QueueDepth

LEMMA RisingCount ==
  ASSUME NEW q \in Seq(Nat), Rising(q)
  PROVE  IsFiniteSet(Members(q)) /\ Cardinality(Members(q)) = Len(q)
<1>1. /\ Len(q) \in Nat /\ q \in [1 .. Len(q) -> Nat]
      /\ \A i \in 1 .. Len(q) : q[i] \in Nat
  BY LenProperties, ElementOfSeq
<1>2. q \in [1 .. Len(q) -> Members(q)]
  BY <1>1 DEF Members
<1>3. \A i, j \in 1 .. Len(q) : q[i] = q[j] => i = j
  <2> SUFFICES ASSUME NEW i \in 1 .. Len(q), NEW j \in 1 .. Len(q), q[i] = q[j], i # j
               PROVE  FALSE
    OBVIOUS
  <2>1. i < j \/ j < i
    BY <1>1
  <2> QED
    BY <1>1, <2>1 DEF Rising
<1>4. \A x \in Members(q) : \E i \in 1 .. Len(q) : q[i] = x
  BY DEF Members
<1>5. q \in Bijection(1 .. Len(q), Members(q))
  BY <1>2, <1>3, <1>4, Fun_IsBij
<1>6. ExistsBijection(1 .. Len(q), Members(q))
  BY <1>5 DEF ExistsBijection
<1>7. Cardinality(Members(q)) = Len(q)
  BY <1>1, <1>6, FS_CountingElements
<1>8. IsFiniteSet(Members(q))
  <2>1. IsFiniteSet(1 .. Len(q))
    BY <1>1, FS_Interval
  <2> QED
    BY <1>6, <2>1, FS_Bijection
<1> QED
  BY <1>7, <1>8

\* n holders give their permits back at once: each is free again, or handed on.
LEMMA ReleaseNCount ==
  ASSUME NEW s \in SemaphoreState, Rising(s.waiters), NEW n \in Nat,
         NEW H, IsFiniteSet(H), H \cap Waiting(s) = {}
  PROVE  /\ Waiting(ReleaseN(s, n)) = Waiting(s) \ Members(WokenN(s, n))
         /\ Members(WokenN(s, n)) \subseteq Waiting(s)
         /\ ReleaseN(s, n).permits + Cardinality(H \cup Members(WokenN(s, n)))
              = s.permits + Cardinality(H) + n
<1> DEFINE k == HandedOver(s, n)
           first == First(s.waiters, k)
           rest == Rest(s.waiters, k)
<1>1. s.permits \in Nat /\ s.waiters \in Seq(Nat) /\ Len(s.waiters) \in Nat
  BY LenProperties DEF SemaphoreState
<1>2. k \in 0 .. Len(s.waiters) /\ k <= n
  BY <1>1 DEF HandedOver
<1>3. /\ ReleaseN(s, n).permits = s.permits + (n - k)
      /\ ReleaseN(s, n).waiters = rest /\ WokenN(s, n) = first
  BY DEF ReleaseN, WokenN, First, Rest
<1> HIDE DEF k
<1>4. /\ first \in Seq(Nat) /\ Len(first) = k /\ Rising(first)
      /\ Members(first) \cup Members(rest) = Members(s.waiters)
      /\ \A a \in Members(first), w \in Members(rest) : a < w
  BY <1>1, <1>2, SplitLine
<1> HIDE DEF first, rest
<1>5. /\ Waiting(s) = Members(first) \cup Members(rest)
      /\ Waiting(ReleaseN(s, n)) = Members(rest)
      /\ Members(first) \subseteq Nat
  <2>1. \A i \in 1 .. Len(first) : first[i] \in Nat
    BY <1>4, ElementOfSeq
  <2> QED
    BY <1>3, <1>4, <2>1 DEF Waiting, Members
<1>6. Members(first) \cap Members(rest) = {}
  <2> SUFFICES ASSUME NEW a \in Members(first), a \in Members(rest) PROVE FALSE
    OBVIOUS
  <2>1. a < a /\ a \in Nat
    BY <1>4, <1>5
  <2> QED
    BY <2>1
<1>7. Cardinality(H \cup Members(first)) = Cardinality(H) + k /\ Cardinality(H) \in Nat
  <2>1. IsFiniteSet(Members(first)) /\ Cardinality(Members(first)) = k
    BY <1>4, RisingCount
  <2>2. H \cap Members(first) = {}
    BY <1>5
  <2>3. Cardinality(H \cup Members(first))
          = Cardinality(H) + Cardinality(Members(first)) - Cardinality(H \cap Members(first))
    BY <2>1, FS_Union
  <2>4. Cardinality(H \cap Members(first)) = 0 /\ Cardinality(H) \in Nat
    BY <2>2, FS_EmptySet, FS_CardinalityType
  <2> QED
    BY <1>2, <2>1, <2>3, <2>4
<1>8. ReleaseN(s, n).permits + Cardinality(H \cup Members(first)) = s.permits + Cardinality(H) + n
  BY <1>1, <1>2, <1>3, <1>7
<1> QED
  BY <1>3, <1>5, <1>6, <1>8

\* What the count of slots needs to know of its parts.
LEMMA DepthFacts ==
  ASSUME PipeInv
  PROVE  /\ queueSlots \in SemaphoreState /\ Rising(queueSlots.waiters)
         /\ Distinct(queueSlots.waiters) /\ IsFiniteSet(Slotted)
         /\ Cardinality(Slotted) \in Nat /\ Slotted \cap Waiting(queueSlots) = {}
         /\ outbound \in Seq(Nat) /\ Len(outbound) \in Nat
<1>1. /\ queueSlots \in SemaphoreState /\ Rising(queueSlots.waiters)
      /\ outbound \in Seq(Nat) /\ Len(outbound) \in Nat
      /\ Slotted \cap Waiting(queueSlots) = {}
  BY LenProperties DEF PipeInv, Pipeline, InLine, QueueLine, TypeOK, Slotted
<1>2. Distinct(queueSlots.waiters)
  <2>1. /\ Len(queueSlots.waiters) \in Nat
        /\ \A i \in 1 .. Len(queueSlots.waiters) : queueSlots.waiters[i] \in Nat
    BY <1>1, LenProperties, ElementOfSeq DEF SemaphoreState
  <2> SUFFICES ASSUME NEW i \in 1 .. Len(queueSlots.waiters),
                      NEW j \in 1 .. Len(queueSlots.waiters),
                      queueSlots.waiters[i] = queueSlots.waiters[j], i # j
               PROVE  FALSE
    BY DEF Distinct
  <2>2. i < j \/ j < i
    BY <2>1
  <2> QED
    BY <1>1, <2>1, <2>2 DEF Rising
<1>3. IsFiniteSet(Slotted) /\ Cardinality(Slotted) \in Nat
  <2>1. Slotted \subseteq 1 .. idCounter /\ idCounter \in Nat
    BY DEF PipeInv, TypeOK, Slotted
  <2>2. IsFiniteSet(1 .. idCounter)
    BY <2>1, FS_Interval
  <2>3. IsFiniteSet(Slotted)
    BY <2>1, <2>2, FS_Subset
  <2> QED
    BY <2>3, FS_CardinalityType
<1> QED
  BY <1>1, <1>2, <1>3

\* A coroutine gets a slot, or waits for one.
LEMMA DepthTakes ==
  ASSUME DepthInv, NEW id \in Issued, ResumePermitted(id), ~dead'
  PROVE  QueueDepth'
<1> DEFINE G == Members(Granted(queueSlots, id))
<1>1. /\ Running("send", id) /\ pc[id] = "inflight" /\ ~dead
      /\ queueSlots' = Acquire(queueSlots, id) /\ UNCHANGED outbound
      /\ Issued' = Issued /\ pc'[id] = "slot"
      /\ \A i \in Issued \ {id} : pc'[i] = pc[i]
  BY DEF ResumePermitted, TakePermit, Issued, DepthInv, PipeInv, TypeOK
<1>2. id \in Nat /\ id \notin Waiting(queueSlots) /\ id \notin Slotted
  BY <1>1, PipeResumes, HeadOfLine DEF DepthInv, Slotted
<1>3. Slotted' = Slotted \cup G
  <2>1. \/ G = {id} /\ Waiting(queueSlots') = Waiting(queueSlots)
        \/ G = {} /\ Waiting(queueSlots') = Waiting(queueSlots) \cup {id}
    BY <1>1, <1>2, DepthFacts, AcquireEffect DEF DepthInv
  <2> HIDE DEF G
  <2> QED
    BY <1>1, <1>2, <2>1 DEF Slotted
<1>4. Acquire(queueSlots, id).permits + Cardinality(Slotted \cup G)
        = queueSlots.permits + Cardinality(Slotted)
  BY <1>2, DepthFacts, AcquireCount DEF DepthInv
<1> HIDE DEF G
<1> QED
  BY <1>1, <1>3, <1>4 DEF DepthInv, QueueDepth

\* It spends its slot on a frame.
LEMMA DepthQueues ==
  ASSUME DepthInv, NEW id \in Issued, ResumeQueued(id)
  PROVE  QueueDepth'
<1>1. /\ Running("send", id) /\ pc[id] = "slot" /\ ~dead
      /\ UNCHANGED <<queueSlots, dead>> /\ outbound' = Append(outbound, id)
      /\ Issued' = Issued /\ pc'[id] = "queued"
      /\ \A i \in Issued \ {id} : pc'[i] = pc[i]
  BY DEF ResumeQueued, Issued, DepthInv, PipeInv, TypeOK, eventVars
<1>2. id \in Nat /\ id \in Slotted
  BY <1>1, PipeResumes, HeadOfLine DEF DepthInv, Slotted
<1>3. Slotted' = Slotted \ {id}
  BY <1>1 DEF Slotted
<1>4. Cardinality(Slotted \ {id}) = Cardinality(Slotted) - 1
  BY <1>2, DepthFacts, FS_RemoveElement DEF DepthInv
<1>5. Len(outbound') = Len(outbound) + 1
  BY <1>1, <1>2, DepthFacts, AppendProperties DEF DepthInv
<1>6. queueSlots.permits \in Nat /\ Cardinality(Slotted) \in Nat /\ Len(outbound) \in Nat
  BY DepthFacts DEF DepthInv, SemaphoreState
<1>7. queueSlots.permits + Cardinality(Slotted) + Len(outbound) = RequestQueueDepth
  BY <1>1 DEF DepthInv, QueueDepth
<1>8. /\ queueSlots' = queueSlots
      /\ Cardinality(Slotted') = Cardinality(Slotted) - 1
      /\ Len(outbound') = Len(outbound) + 1
  BY <1>1, <1>3, <1>4, <1>5
<1>9. queueSlots'.permits + Cardinality(Slotted') + Len(outbound') = RequestQueueDepth
  BY <1>6, <1>7, <1>8
<1> QED
  BY <1>9 DEF QueueDepth

\* The writer frees as many slots as it takes frames.
LEMMA DepthWrites ==
  ASSUME DepthInv, NEW buffered \in BOOLEAN, WriterWrites(buffered)
  PROVE  QueueDepth'
<1> DEFINE n == Len(outbound)
           W == Members(WokenN(queueSlots, n))
<1>1. /\ ~dead /\ UNCHANGED pc /\ Issued' = Issued
      /\ queueSlots' = ReleaseN(queueSlots, n) /\ outbound' = <<>>
  BY DEF WriterWrites, Write, requestVars, Issued
<1>2. n \in Nat
  BY DepthFacts DEF DepthInv
<1>3. Len(outbound') = 0
  BY <1>1
<1> HIDE DEF n
<1>4. /\ Waiting(queueSlots') = Waiting(queueSlots) \ W
      /\ W \subseteq Waiting(queueSlots)
      /\ queueSlots'.permits + Cardinality(Slotted \cup W)
           = queueSlots.permits + Cardinality(Slotted) + n
  BY <1>1, <1>2, DepthFacts, ReleaseNCount DEF DepthInv
<1> HIDE DEF W
<1>5. Slotted' = Slotted \cup W
  <2>1. \A i \in W : i \in Issued /\ pc[i] = "slot"
    BY <1>4 DEF DepthInv, PipeInv, Pipeline, InLine, QueueLine, At, Issued
  <2> QED
    BY <1>1, <1>4, <2>1 DEF Slotted
<1>6. /\ queueSlots.permits + Cardinality(Slotted) + n = RequestQueueDepth
      /\ queueSlots'.permits + Cardinality(Slotted') = RequestQueueDepth
  BY <1>1, <1>4, <1>5 DEF DepthInv, QueueDepth, n
<1> QED
  <2>1. RequestQueueDepth \in Nat
    BY ConfigAssumption
  <2> QED
    BY <1>3, <1>6, <2>1 DEF QueueDepth

LEMMA InitDepth == Init => DepthInv
<1> SUFFICES ASSUME Init PROVE DepthInv
  OBVIOUS
<1>1. RequestQueueDepth \in Nat
  BY ConfigAssumption
<1>2. queueSlots.permits = RequestQueueDepth /\ outbound = <<>>
  BY DEF Init, NewSemaphore
<1>3. Slotted = {}
  BY DEF Init, Slotted, Issued
<1>4. Cardinality(Slotted) = 0 /\ Len(outbound) = 0
  BY <1>2, <1>3, FS_EmptySet
<1> QED
  BY <1>1, <1>2, <1>4, InitPipe DEF DepthInv, QueueDepth

LEMMA StepDepth == DepthInv /\ [Next]_vars => DepthInv'
<1> SUFFICES ASSUME DepthInv, [Next]_vars
             PROVE  DepthInv'
  OBVIOUS
<1>1. PipeInv'
  BY StepPipe DEF DepthInv
<1>2. CASE Next
  <2>1. TypeOK
    BY DEF DepthInv, PipeInv
  <2>2. CASE dead'
    BY <1>1, <2>2 DEF DepthInv, QueueDepth
  <2>3. CASE ~dead' /\ UNCHANGED <<outbound, queueSlots>>
                    /\ {i \in Issued' : pc'[i] = "slot"} = {i \in Issued : pc[i] = "slot"}
    <3>1. ~dead
      BY <1>2, <2>1, <2>3, QueueEffect
    <3>2. Slotted' = Slotted
      BY <2>3 DEF Slotted
    <3>3. QueueDepth'
      BY <2>3, <3>1, <3>2 DEF DepthInv, QueueDepth
    <3> QED
      BY <1>1, <3>3 DEF DepthInv
  <2>4. ASSUME NEW id \in Issued, ResumePermitted(id) \/ ResumeQueued(id), ~dead'
        PROVE  QueueDepth'
    BY <2>4, DepthTakes, DepthQueues
  <2>5. \/ dead'
        \/ /\ UNCHANGED <<outbound, queueSlots>>
           /\ {i \in Issued' : pc'[i] = "slot"} = {i \in Issued : pc[i] = "slot"}
        \/ \E id \in Issued : ResumePermitted(id) \/ ResumeQueued(id)
        \/ \E buffered \in BOOLEAN : WriterWrites(buffered)
    BY <1>2, <2>1, QueueEffect
  <2> QED
    BY <1>1, <2>2, <2>3, <2>4, <2>5, DepthWrites DEF DepthInv
<1>3. CASE UNCHANGED vars
  <2>1. UNCHANGED <<dead, queueSlots, outbound, pc>>
    BY <1>3 DEF vars, eventVars, writerVars, requestVars
  <2>2. Slotted' = Slotted
    BY <2>1 DEF Slotted, Issued
  <2> QED
    BY <1>1, <2>1, <2>2 DEF DepthInv, QueueDepth
<1> QED
  BY <1>2, <1>3

\* While the connection lives every slot of the outbound queue is free, granted or taken
\* by a queued frame: the queue never grows beyond its configured depth.
THEOREM DepthConserved == Spec => []QueueDepth
<1>1. Init => DepthInv
  BY InitDepth
<1>2. DepthInv /\ [Next]_vars => DepthInv'
  BY StepDepth
<1>3. DepthInv => QueueDepth
  BY DEF DepthInv
<1> QED
  BY <1>1, <1>2, <1>3, PTL DEF Spec

-----------------------------------------------------------------------------
(* What the server may be serving.                                         *)

\* The server serves only requests that were written, so whose send coroutine is past
\* both its awaits.  An entry that outlives its connection is not such a request, so
\* that no response finds its request open on a connection that is dead.
SessionInv ==
  /\ OrderInv /\ PendingIsOpen /\ DeadPendingUnsent
  /\ taken \in 0 .. Len(wire)
  /\ serving \subseteq FrameIds(wire)
  /\ NoProtocolError

\* Only a request that is written is served, and one that is open is open on a live
\* connection.
LEMMA ServedIsWritten ==
  ASSUME SessionInv, NEW id \in serving
  PROVE  /\ id \in Issued /\ pc[id] = "queued" /\ kind[id] \in Kinds
         /\ id \in pending => ~dead
<1>1. wire \in Seq(Frame) /\ RequestFrames(outbound) \in Seq(Frame)
  BY FramesType DEF SessionInv, OrderInv, PipeInv, TypeOK
<1>2. FrameIds(wire) \subseteq FrameIds(Departing)
  BY <1>1, FramesConcat DEF Departing
<1>3. id \in At(pc, "queued")
  BY <1>2 DEF SessionInv, OrderInv
<1>4. id \in Issued /\ pc[id] = "queued"
  BY <1>3 DEF At, Issued
<1>5. kind[id] \in Kinds
  BY <1>4 DEF SessionInv, OrderInv, PipeInv, TypeOK
<1> QED
  BY <1>4, <1>5 DEF SessionInv, DeadPendingUnsent

\* The last response the protocol allows a request settles it with that response or with
\* the error it carries.
LEMMA FinalSettles ==
  ASSUME NEW id, kind[id] \in Kinds, NEW response \in FinalReplies(kind[id]),
         Route(id, response)
  PROVE  \E result \in {"ok", "serverError"} : Answer(id, result)
<1>1. CASE kind[id] = "hello"
  BY <1>1 DEF FinalReplies, Route, RouteHello, RouteUnary, RouteItem, RouteEnd,
              RouteMismatch, UnaryKinds, StreamKinds
<1>2. CASE kind[id] \in UnaryKinds
  <2>1. response = kind[id] \/ response = "error"
    BY <1>2 DEF FinalReplies, UnaryKinds
  <2>2. RouteUnary(id, response)
    BY <1>2 DEF Route, RouteHello, RouteUnary, RouteItem, RouteEnd, RouteMismatch,
                UnaryKinds, StreamKinds
  <2>3. CASE response = "error"
    BY <2>2, <2>3 DEF RouteUnary
  <2>4. CASE response = kind[id] /\ response # "error"
    BY <2>2, <2>4 DEF RouteUnary
  <2> QED
    BY <2>1, <2>3, <2>4
<1>3. CASE kind[id] \in StreamKinds
  <2>1. \/ kind[id] = "read" /\ response = "readEnd"
        \/ response = "error"
    BY <1>3 DEF FinalReplies, StreamKinds
  <2>2. RouteEnd(id, response)
    BY <1>3, <2>1 DEF Route, RouteHello, RouteUnary, RouteItem, RouteMismatch,
                      UnaryKinds, StreamKinds, Items
  <2> QED
    BY <2>2 DEF RouteEnd
<1> QED
  BY <1>1, <1>2, <1>3 DEF Kinds

\* An item of a stream changes no request.
LEMMA ItemPasses ==
  ASSUME NEW id, kind[id] \in StreamKinds, NEW response \in ItemReplies(kind[id]),
         Route(id, response)
  PROVE  UNCHANGED <<requestVars, tableVars, writerVars, tasks, dead>>
<1>1. response \in Items(kind[id]) /\ response # "error" /\ response # "readEnd"
  BY DEF ItemReplies, Items
<1>2. RouteItem(id, response)
  BY <1>1 DEF Route, RouteHello, RouteUnary, RouteEnd, RouteMismatch, UnaryKinds,
              StreamKinds
<1> QED
  BY <1>2 DEF RouteItem, Route

\* The steps of the session are steps of the connection.
LEMMA SessionStepIsStep ==
  ASSUME SessionInv, [SessionNext]_sessionVars
  PROVE  [Next]_vars
<1>1. CASE (UserCall \/ Microtask \/ LocalEvent) /\ UNCHANGED serverVars
  BY <1>1 DEF Next
<1>2. CASE ServerTakes \/ FatalFrame
  BY <1>2 DEF ServerTakes, FatalFrame, Next
<1>3. ASSUME NEW id \in serving, ServerFinishes(id) \/ ServerSends(id)
      PROVE  [Next]_vars
  <2>1. PICK response \in Responses : Delivered(id, response)
    BY <1>3, ServedIsWritten
    DEF ServerFinishes, ServerSends, FinalReplies, ItemReplies, Responses, Kinds,
        UnaryKinds, StreamKinds
  <2> QED
    BY <2>1 DEF Delivered, Next
<1>4. CASE UNCHANGED sessionVars
  BY <1>4 DEF sessionVars
<1> QED
  BY <1>1, <1>2, <1>3, <1>4 DEF SessionNext

-----------------------------------------------------------------------------
(* What a step of the session may do to the outcomes.                      *)

\* The results a request can settle with when the server follows the protocol.
Rightful == ({"ok"} \cup Contract!Failures) \ {"protocolError"}

\* A step the contract allows, and no protocol error in it.
Kept ==
  \/ \E id \in DOMAIN outcome', first \in {"open", "aborted"} : Contract!Issue(id, first)
  \/ \E id \in DOMAIN outcome, result \in Rightful : Contract!Settle(id, result)
  \/ Contract!Lose
  \/ UNCHANGED <<outcome, dead>>

\* Settling a request once, and leaving alone one that is settled.
LEMMA SettleKeeps ==
  ASSUME TypeOK, NEW id \in Issued, NEW result \in Rightful, Settle(id, result),
         outcome[id] = "open" /\ result = "ok" => ~dead, UNCHANGED dead
  PROVE  Kept
<1>1. DOMAIN outcome = Issued
  BY DEF TypeOK
<1>2. CASE outcome[id] = "open"
  <2>1. outcome' = [outcome EXCEPT ![id] = result]
    BY <1>1, <1>2 DEF Settle
  <2>2. Contract!Settle(id, result)
    BY <1>1, <1>2, <2>1 DEF Contract!Settle, Contract!Open
  <2> QED
    BY <1>1, <2>2 DEF Kept
<1>3. CASE outcome[id] # "open"
  <2>1. outcome' = outcome
    BY <1>1, <1>3 DEF Settle, TypeOK
  <2> QED
    BY <2>1 DEF Kept
<1> QED
  BY <1>2, <1>3

\* Losing the connection settles all that is open, and only the first time.
LEMMA FailKeeps ==
  ASSUME TypeOK, PendingIsOpen, NEW roused, FailConnection(roused)
  PROVE  Kept
<1>1. /\ DOMAIN outcome = Issued
      /\ dead' = TRUE
      /\ outcome' = [i \in DOMAIN outcome |->
                       IF i \in Failed /\ outcome[i] = "open"
                       THEN "connError" ELSE outcome[i]]
  BY DEF TypeOK, FailConnection
<1>2. CASE dead
  <2>1. outcome' = outcome
    BY <1>1, <1>2 DEF Failed, TypeOK
  <2> QED
    BY <1>1, <1>2, <2>1 DEF Kept, TypeOK
<1>3. CASE ~dead
  <2>1. Failed = Contract!Open
    BY <1>1, <1>3 DEF Failed, Contract!Open, PendingIsOpen, TypeOK
  <2>2. outcome' = [i \in DOMAIN outcome |->
                      IF i \in Contract!Open THEN "connError" ELSE outcome[i]]
    BY <1>1, <2>1 DEF Contract!Open
  <2>3. Contract!Lose
    BY <1>1, <1>3, <2>2 DEF Contract!Lose
  <2> QED
    BY <2>3 DEF Kept
<1> QED
  BY <1>2, <1>3

\* A new request has a number above all others.
LEMMA RegisterKeeps ==
  ASSUME TypeOK, NEW k, NEW first \in {"open", "aborted"},
         Register(idCounter + 1, k, first)
  PROVE  Kept
<1>1. DOMAIN outcome = Issued /\ \A earlier \in DOMAIN outcome : earlier < idCounter + 1
  BY DEF TypeOK
<1>2. /\ outcome' = With(outcome, idCounter + 1, first)
      /\ dead' = dead
  BY DEF Register, eventVars
<1>3. /\ idCounter + 1 \in DOMAIN outcome'
      /\ outcome' = [i \in DOMAIN outcome \cup {idCounter + 1} |->
                       IF i = idCounter + 1 THEN first ELSE outcome[i]]
  BY <1>2 DEF With
<1>4. Contract!Issue(idCounter + 1, first)
  BY <1>1, <1>2, <1>3 DEF Contract!Issue
<1> QED
  BY <1>3, <1>4 DEF Kept

\* The calls of the user.
LEMMA UserCallKeeps ==
  ASSUME TypeOK, PendingIsOpen, UserCall
  PROVE  Kept
<1>1. ASSUME NEW k \in UserKinds,
             Unary(k) \/ UnaryPreAborted(k) \/ Stream(k) \/ StreamPreAborted(k)
      PROVE  Kept
  <2>1. \E first \in {"open", "aborted"} : Register(idCounter + 1, k, first)
    BY <1>1 DEF Unary, UnaryPreAborted, Stream, StreamPreAborted, Open
  <2> QED
    BY <2>1, RegisterKeeps
<1>2. ASSUME NEW id \in Issued, NEW result \in {"aborted", "ended"},
             AbortUnary(id) \/ StopStream(id, result)
      PROVE  Kept
  <2>1. /\ Settle(id, "aborted") \/ Settle(id, result)
        /\ UNCHANGED dead
    BY <1>2 DEF AbortUnary, StopStream, Cancel, eventVars
  <2>2. {"aborted", "ended"} \subseteq Rightful
    BY DEF Rightful, Contract!Failures
  <2> QED
    BY <2>1, <2>2, SettleKeeps
<1>3. CASE Close \/ ConnectFails
  BY <1>3, FailKeeps DEF Close, ConnectFails, Destroy
<1> QED
  BY <1>1, <1>2, <1>3 DEF UserCall

\* The microtasks.
LEMMA MicrotaskKeeps ==
  ASSUME TypeOK, Microtask
  PROVE  Kept
<1>0. {"connError", "tooLarge", "aborted"} \subseteq Rightful
  BY DEF Rightful, Contract!Failures
<1>1. ASSUME NEW id \in Issued, ResumeGone(id) \/ ResumeDead(id) \/ ResumeTooLarge(id)
      PROVE  Kept
  <2>1. /\ UNCHANGED dead
        /\ \/ \E result \in {"connError", "tooLarge"} : Settle(id, result)
           \/ UNCHANGED outcome
    BY <1>1 DEF ResumeGone, ResumeDead, ResumeTooLarge, GiveUp, eventVars
  <2>2. CASE UNCHANGED outcome
    BY <2>1, <2>2 DEF Kept
  <2> QED
    BY <1>0, <2>1, <2>2, SettleKeeps
<1>2. ASSUME NEW id \in Issued,
             ResumePermitted(id) \/ ResumeQueued(id) \/ ResumeSlotDead(id)
      PROVE  Kept
  BY <1>2 DEF ResumePermitted, TakePermit, ResumeQueued, ResumeSlotDead, eventVars, Kept
<1>3. ASSUME NEW id \in Issued, RunAbort(id)
      PROVE  Kept
  <2>1. UNCHANGED dead /\ (Settle(id, "aborted") \/ UNCHANGED outcome)
    BY <1>3 DEF RunAbort, Cancel, eventVars, requestVars
  <2>2. CASE UNCHANGED outcome
    BY <2>1, <2>2 DEF Kept
  <2> QED
    BY <1>0, <2>1, <2>2, SettleKeeps
<1>4. CASE WriterExits \/ WriterIdles
  BY <1>4 DEF WriterExits, WriterIdles, requestVars, eventVars, Kept
<1>5. ASSUME NEW buffered \in BOOLEAN, WriterWrites(buffered)
      PROVE  Kept
  BY <1>5 DEF WriterWrites, Write, requestVars, eventVars, Kept
<1> QED
  BY <1>1, <1>2, <1>3, <1>4, <1>5 DEF Microtask

\* What the server sends.
LEMMA ServerKeeps ==
  ASSUME SessionInv, NEW id \in serving, ServerFinishes(id) \/ ServerSends(id)
  PROVE  Kept
<1>1. TypeOK /\ id \in Issued /\ kind[id] \in Kinds /\ (id \in pending => ~dead)
  BY ServedIsWritten DEF SessionInv, OrderInv, PipeInv
<1>2. CASE RouteUnknown
  BY <1>2 DEF RouteUnknown, requestVars, Kept
<1>3. ASSUME id \in pending, NEW response \in FinalReplies(kind[id]), Route(id, response)
      PROVE  Kept
  <2>1. PICK result \in {"ok", "serverError"} : Answer(id, result)
    BY <1>1, <1>3, FinalSettles
  <2>2. Settle(id, result) /\ UNCHANGED dead /\ result \in Rightful
    BY <1>3, <2>1 DEF Answer, Route, Rightful, Contract!Failures
  <2> QED
    BY <1>1, <1>3, <2>2, SettleKeeps
<1>4. ASSUME kind[id] \in StreamKinds, NEW response \in ItemReplies(kind[id]),
             Route(id, response)
      PROVE  Kept
  BY <1>4, ItemPasses DEF requestVars, Kept
<1> QED
  BY <1>2, <1>3, <1>4 DEF ServerFinishes, ServerSends, Delivered

\* Every step of the session.
LEMMA SessionKeeps ==
  ASSUME SessionInv, [SessionNext]_sessionVars
  PROVE  Kept
<1>0. TypeOK /\ PendingIsOpen
  BY DEF SessionInv, OrderInv, PipeInv
<1>1. CASE UserCall
  BY <1>0, <1>1, UserCallKeeps
<1>2. CASE Microtask
  BY <1>0, <1>2, MicrotaskKeeps
<1>3. CASE LocalEvent
  <2>1. CASE EndChunk \/ DrainEvent
    BY <2>1 DEF EndChunk, DrainEvent, requestVars, eventVars, Kept
  <2>2. CASE SocketError \/ SocketClose
    BY <1>0, <2>2, FailKeeps DEF SocketError, SocketClose
  <2> QED
    BY <1>3, <2>1, <2>2 DEF LocalEvent
<1>4. ASSUME NEW id \in serving, ServerFinishes(id) \/ ServerSends(id)
      PROVE  Kept
  BY <1>4, ServerKeeps
<1>5. CASE ServerTakes \/ UNCHANGED sessionVars
  BY <1>5 DEF ServerTakes, sessionVars, vars, requestVars, eventVars, Kept
<1>6. CASE FatalFrame
  BY <1>0, <1>6, FailKeeps DEF FatalFrame, BadFrame, RouteUnattributed
<1> QED
  BY <1>1, <1>2, <1>3, <1>4, <1>5, <1>6 DEF SessionNext

-----------------------------------------------------------------------------
(* The session.                                                            *)

LEMMA InitSession == SessionInit => SessionInv
<1> SUFFICES ASSUME SessionInit PROVE SessionInv
  OBVIOUS
<1>1. OrderInv /\ PendingIsOpen /\ DeadPendingUnsent
  BY InitOrder, InitTable DEF SessionInit, TableInv
<1>2. taken \in 0 .. Len(wire) /\ serving \subseteq FrameIds(wire)
  BY DEF SessionInit, Init
<1>3. NoProtocolError
  BY DEF SessionInit, Init, NoProtocolError, Issued
<1> QED
  BY <1>1, <1>2, <1>3 DEF SessionInv

\* What is written stays written.
LEMMA WireGrows ==
  ASSUME TypeOK, [Next]_vars
  PROVE  /\ wire' \in Seq(Frame)
         /\ Len(wire) <= Len(wire') /\ FrameIds(wire) \subseteq FrameIds(wire')
<1>1. wire \in Seq(Frame) /\ wire' \in Seq(Frame)
  BY StepType DEF TypeOK
<1>2. CASE wire' = wire
  BY <1>1, <1>2
<1>3. ASSUME NEW buffered \in BOOLEAN, WriterWrites(buffered)
      PROVE  Len(wire) <= Len(wire') /\ FrameIds(wire) \subseteq FrameIds(wire')
  <2> DEFINE cancels == CancelFrames(priority)
             requests == RequestFrames(outbound)
  <2>1. cancels \in Seq(Frame) /\ requests \in Seq(Frame)
    BY FramesType DEF TypeOK
  <2>2. wire' = (wire \o cancels) \o requests
    BY <1>3 DEF WriterWrites, Write
  <2> HIDE DEF cancels, requests
  <2>3. /\ wire \o cancels \in Seq(Frame)
        /\ FrameIds(wire \o cancels) = FrameIds(wire) \cup FrameIds(cancels)
    BY <1>1, <2>1, FramesConcat
  <2>4. FrameIds((wire \o cancels) \o requests)
          = FrameIds(wire \o cancels) \cup FrameIds(requests)
    BY <2>1, <2>3, FramesConcat
  <2>5. Len(wire \o cancels) = Len(wire) + Len(cancels)
    BY <1>1, <2>1
  <2>6. Len((wire \o cancels) \o requests) = Len(wire \o cancels) + Len(requests)
    BY <2>1, <2>3
  <2>7. Len(wire) \in Nat /\ Len(cancels) \in Nat /\ Len(requests) \in Nat
    BY <1>1, <2>1
  <2>8. Len(wire) <= Len(wire')
    BY <2>2, <2>5, <2>6, <2>7
  <2> QED
    BY <2>2, <2>3, <2>4, <2>8
<1>4. ASSUME Next PROVE wire' = wire \/ \E buffered \in BOOLEAN : WriterWrites(buffered)
  BY <1>4, QueueEffect DEF ResumePermitted, TakePermit, ResumeQueued
<1> QED
  BY <1>1, <1>2, <1>3, <1>4 DEF vars, writerVars

\* What the server is serving, after a step.
LEMMA ServingWritten ==
  ASSUME SessionInv, [SessionNext]_sessionVars
  PROVE  taken' \in 0 .. Len(wire') /\ serving' \subseteq FrameIds(wire')
<1>1. /\ wire \in Seq(Frame) /\ wire' \in Seq(Frame)
      /\ Len(wire) <= Len(wire') /\ FrameIds(wire) \subseteq FrameIds(wire')
  BY SessionStepIsStep, WireGrows DEF SessionInv, OrderInv, PipeInv, TypeOK
<1>2. Len(wire) \in Nat /\ Len(wire') \in Nat /\ taken \in 0 .. Len(wire)
  BY <1>1 DEF SessionInv
<1>3. CASE ServerTakes
  <2>1. taken + 1 \in 1 .. Len(wire) /\ taken' = taken + 1 /\ wire' = wire
    BY <1>2, <1>3 DEF ServerTakes, vars, writerVars
  <2>2. \/ serving' \subseteq serving
        \/ wire[taken + 1].type = "request" /\ serving' = serving \cup {wire[taken + 1].id}
    BY <1>3 DEF ServerTakes
  <2>3. wire[taken + 1].type = "request" => wire[taken + 1].id \in FrameIds(wire)
    BY <2>1 DEF FrameIds
  <2> QED
    BY <1>2, <2>1, <2>2, <2>3 DEF SessionInv
<1>4. CASE taken' = taken /\ serving' \subseteq serving
  BY <1>1, <1>2, <1>4 DEF SessionInv
<1>5. ServerTakes \/ (taken' = taken /\ serving' \subseteq serving)
  BY DEF SessionNext, FatalFrame, sessionVars, serverVars, ServerFinishes, ServerSends
<1> QED
  BY <1>3, <1>4, <1>5

\* A step that keeps the contract without a protocol error leaves none behind.
LEMMA KeptHasNoError ==
  ASSUME TypeOK, TypeOK', NoProtocolError, Kept
  PROVE  NoProtocolError'
<1>1. DOMAIN outcome = Issued /\ DOMAIN outcome' = Issued'
  BY DEF TypeOK
<1>2. ASSUME NEW id \in DOMAIN outcome', NEW first \in {"open", "aborted"},
             Contract!Issue(id, first)
      PROVE  NoProtocolError'
  BY <1>1, <1>2 DEF Contract!Issue, NoProtocolError
<1>3. ASSUME NEW id \in DOMAIN outcome, NEW result \in Rightful,
             Contract!Settle(id, result)
      PROVE  NoProtocolError'
  BY <1>1, <1>3 DEF Contract!Settle, NoProtocolError, Rightful
<1>4. CASE Contract!Lose
  BY <1>1, <1>4 DEF Contract!Lose, NoProtocolError
<1>5. CASE UNCHANGED <<outcome, dead>>
  BY <1>1, <1>5 DEF NoProtocolError
<1> QED
  BY <1>2, <1>3, <1>4, <1>5 DEF Kept

LEMMA StepSession == SessionInv /\ [SessionNext]_sessionVars => SessionInv'
<1> SUFFICES ASSUME SessionInv, [SessionNext]_sessionVars PROVE SessionInv'
  OBVIOUS
<1>1. [Next]_vars /\ TypeOK
  BY SessionStepIsStep DEF SessionInv, OrderInv, PipeInv
<1>2. OrderInv' /\ TypeOK'
  BY <1>1, StepOrder, StepType DEF SessionInv
<1>3. PendingIsOpen' /\ DeadPendingUnsent'
  BY <1>1, StepTable DEF SessionInv, TableInv
<1>4. taken' \in 0 .. Len(wire') /\ serving' \subseteq FrameIds(wire')
  BY ServingWritten
<1>5. NoProtocolError'
  BY <1>1, <1>2, SessionKeeps, KeptHasNoError DEF SessionInv
<1> QED
  BY <1>2, <1>3, <1>4, <1>5 DEF SessionInv

\* With a server that follows the protocol no request of this client ends in a protocol
\* error, whatever crosses a cancel or arrives late.
THEOREM ProtocolUnderstood == SessionSpec => []NoProtocolError
<1>1. SessionInv => NoProtocolError
  BY DEF SessionInv
<1> QED
  BY <1>1, InitSession, StepSession, PTL DEF SessionSpec

\* Permits, queues, frames and microtasks implement the promise of Requests: every
\* request is settled at most once, losing the connection settles all that are open at
\* one stroke, and nothing succeeds on a connection that is lost.
THEOREM ContractKept == SessionSpec => KeepsContract
<1>1. SessionInit => Contract!Init
  BY DEF SessionInit, Init, Contract!Init
<1>2. SessionInv /\ [SessionNext]_sessionVars => [Contract!Next]_<<outcome, dead>>
  BY SessionKeeps DEF Kept, Rightful, Contract!Next
<1> QED
  BY <1>1, <1>2, InitSession, StepSession, PTL DEF SessionSpec, KeepsContract, Contract!Spec
=============================================================================
