--------------------------- MODULE DecoderProofs ---------------------------
(***************************************************************************)
(* What the loop of a decoder makes of pieces of bytes that are read as    *)
(* one field each, proved once for every decoder of Messages.tla.          *)
(***************************************************************************)
EXTENDS Decoder, Integers, TLAPS

CONSTANT Reads(_, _)   \* a piece of bytes that is read as a field

-----------------------------------------------------------------------------
(* Each piece leads from one message to the next.                          *)

Step(m, piece, to) == \E f : Reads(piece, f) /\ Case(m, f) = {to}

\* Piece by piece from one message to another, over messages of "via" only.
Leads(from, pieces, to, via) ==
  \E g : /\ g[0] = from /\ g[Len(pieces)] = to
         /\ \A n \in 0 .. Len(pieces) : g[n] \in via
         /\ \A n \in 1 .. Len(pieces) : Step(g[n - 1], pieces[n], g[n])

Takes(from, pieces, to) == \E via : Leads(from, pieces, to, via)

\* Sequences, and parts of them.
LEMMA Joined ==
  ASSUME NEW S, NEW s \in Seq(S), NEW t \in Seq(S)
  PROVE  /\ Len(s) \in Nat /\ Len(t) \in Nat
         /\ s \o t \in Seq(S)
         /\ Len(s \o t) = Len(s) + Len(t)
         /\ \A n \in 1 .. Len(s) + Len(t) :
              (s \o t)[n] = IF n <= Len(s) THEN s[n] ELSE t[n - Len(s)]
OBVIOUS

LEMMA Part ==
  ASSUME NEW S, NEW s, NEW a \in Int, NEW b \in Int, \A n \in a .. b : s[n] \in S
  PROVE  /\ SubSeq(s, a, b) \in Seq(S)
         /\ Len(SubSeq(s, a, b)) = IF a <= b THEN b - a + 1 ELSE 0
         /\ \A n \in 1 .. b - a + 1 : SubSeq(s, a, b)[n] = s[a + n - 1]
         /\ b < a => SubSeq(s, a, b) = <<>>
OBVIOUS

\* No pieces lead nowhere.
LEMMA LeadsNone ==
  ASSUME NEW m, NEW via, m \in via
  PROVE  Leads(m, <<>>, m, via)
<1> DEFINE g == [n \in {0} |-> m]
<1>1. g[0] = m /\ Len(<<>>) = 0 /\ (\A n \in 1 .. 0 : FALSE) /\ \A n \in 0 .. 0 : n = 0
  OBVIOUS
<1> HIDE DEF g
<1>2. /\ g[0] = m /\ g[Len(<<>>)] = m
      /\ \A n \in 0 .. Len(<<>>) : g[n] \in via
      /\ \A n \in 1 .. Len(<<>>) : Step(g[n - 1], <<>>[n], g[n])
  <2>1. \A n \in 0 .. Len(<<>>) : g[n] \in via
    BY <1>1
  <2>2. \A n \in 1 .. Len(<<>>) : FALSE
    BY <1>1
  <2> QED
    BY <1>1, <2>1, <2>2, Zenon
<1> QED
  BY <1>2, Zenon DEF Leads

\* One piece leads where the field it is read as does.
LEMMA LeadsOne ==
  ASSUME NEW m, NEW piece, NEW to, Step(m, piece, to), NEW via, m \in via, to \in via
  PROVE  Leads(m, <<piece>>, to, via)
<1> DEFINE g == [n \in 0 .. 1 |-> IF n = 0 THEN m ELSE to]
           one == <<piece>>
<1>1. /\ g[0] = m /\ g[1] = to
      /\ Len(one) = 1 /\ one[1] = piece
  OBVIOUS
<1>2. (\A n \in 1 .. 1 : n = 1 /\ n - 1 = 0) /\ \A n \in 0 .. 1 : n = 0 \/ n = 1
  OBVIOUS
<1> HIDE DEF g, one
<1>3. \A n \in 1 .. Len(one) : Step(g[n - 1], one[n], g[n])
  BY <1>1, <1>2
<1>4. \A n \in 0 .. Len(one) : g[n] \in via
  BY <1>1, <1>2
<1>5. Leads(m, one, to, via)
  BY <1>1, <1>3, <1>4, Zenon DEF Leads
<1> QED
  BY <1>5 DEF one

LEMMA LeadsWider ==
  ASSUME NEW m, NEW s, NEW to, NEW via, Leads(m, s, to, via), NEW wider, via \subseteq wider
  PROVE  Leads(m, s, to, wider)
<1>1. PICK g : /\ g[0] = m /\ g[Len(s)] = to
               /\ \A n \in 0 .. Len(s) : g[n] \in via
               /\ \A n \in 1 .. Len(s) : Step(g[n - 1], s[n], g[n])
  BY DEF Leads
<1>2. \A n \in 0 .. Len(s) : g[n] \in wider
  BY <1>1
<1> QED
  BY <1>1, <1>2, Zenon DEF Leads

\* Pieces after pieces.
LEMMA LeadsOn ==
  ASSUME NEW S, NEW s \in Seq(S), NEW t \in Seq(S), NEW via,
         NEW m, NEW to, NEW end, Leads(m, s, to, via), Leads(to, t, end, via)
  PROVE  Leads(m, s \o t, end, via)
<1> DEFINE a == Len(s)
           b == Len(t)
           st == s \o t
<1>1. /\ a \in Nat /\ b \in Nat /\ Len(st) = a + b
      /\ \A n \in 1 .. a + b : st[n] = IF n <= a THEN s[n] ELSE t[n - a]
  BY Joined
<1>2. PICK g : /\ g[0] = m /\ g[a] = to
               /\ \A n \in 0 .. a : g[n] \in via
               /\ \A n \in 1 .. a : Step(g[n - 1], s[n], g[n])
  BY DEF Leads
<1>3. PICK h : /\ h[0] = to /\ h[b] = end
               /\ \A n \in 0 .. b : h[n] \in via
               /\ \A n \in 1 .. b : Step(h[n - 1], t[n], h[n])
  BY DEF Leads
<1> HIDE DEF a, b, st
<1> DEFINE k == [n \in 0 .. a + b |-> IF n <= a THEN g[n] ELSE h[n - a]]
<1>4. \A n \in 0 .. a : k[n] = g[n]
  BY <1>1
<1>5. \A n \in 0 .. b : k[a + n] = h[n]
  <2>1. k[a + 0] = h[0]
    BY <1>1, <1>2, <1>3
  <2>2. ASSUME NEW n \in 1 .. b PROVE k[a + n] = h[n]
    <3> DEFINE j == a + n
    <3>1. j \in 0 .. a + b /\ ~(j <= a) /\ j - a = n
      BY <1>1
    <3>2. \A i \in 0 .. a + b : k[i] = IF i <= a THEN g[i] ELSE h[i - a]
      OBVIOUS
    <3> HIDE DEF k, j
    <3>3. k[j] = h[n]
      BY <3>1, <3>2
    <3> QED
      BY <3>3 DEF j
  <2>3. \A n \in 0 .. b : n = 0 \/ n \in 1 .. b
    BY <1>1
  <2> HIDE DEF k
  <2> QED
    BY <2>1, <2>2, <2>3
<1> HIDE DEF k
<1>6. k[0] = m /\ k[Len(st)] = end
  BY <1>1, <1>2, <1>3, <1>4, <1>5
<1>7. ASSUME NEW n \in 1 .. Len(st)
      PROVE  Step(k[n - 1], st[n], k[n])
  <2>1. CASE n <= a
    <3>1. n \in 1 .. a /\ n \in 0 .. a /\ n - 1 \in 0 .. a /\ n \in 1 .. a + b
      BY <1>1, <2>1
    <3>2. k[n - 1] = g[n - 1] /\ k[n] = g[n] /\ st[n] = s[n]
      BY <1>1, <1>4, <2>1, <3>1
    <3>3. Step(g[n - 1], s[n], g[n])
      BY <1>2, <3>1
    <3> QED
      BY <3>2, <3>3
  <2>2. CASE ~(n <= a)
    <3> DEFINE i == n - a
    <3>1. /\ i \in 1 .. b /\ i \in 0 .. b /\ i - 1 \in 0 .. b /\ n \in 1 .. a + b
          /\ n = a + i /\ n - 1 = a + (i - 1)
      BY <1>1, <2>2
    <3> HIDE DEF i
    <3>2. k[n - 1] = h[i - 1] /\ k[n] = h[i]
      BY <1>5, <3>1
    <3>3. st[n] = t[i]
      BY <1>1, <2>2, <3>1 DEF i
    <3>4. Step(h[i - 1], t[i], h[i])
      BY <1>3, <3>1
    <3> QED
      BY <3>2, <3>3, <3>4
  <2> QED
    BY <2>1, <2>2
<1>8. ASSUME NEW n \in 0 .. Len(st)
      PROVE  k[n] \in via
  <2>1. CASE n <= a
    <3>1. n \in 0 .. a
      BY <1>1, <2>1
    <3> QED
      BY <1>2, <1>4, <3>1
  <2>2. CASE ~(n <= a)
    <3> DEFINE i == n - a
    <3>1. i \in 0 .. b /\ n = a + i
      BY <1>1, <2>2
    <3> HIDE DEF i
    <3> QED
      BY <1>3, <1>5, <3>1
  <2> QED
    BY <2>1, <2>2
<1>9. Leads(m, st, end, via)
  BY <1>6, <1>7, <1>8, Zenon DEF Leads
<1> QED
  BY <1>9 DEF st

\* Pieces that lead somewhere pass some message at each place among them.
LEMMA LeadsSplit ==
  ASSUME NEW S, NEW s \in Seq(S), NEW m, NEW to, NEW via, Leads(m, s, to, via),
         NEW i \in 0 .. Len(s)
  PROVE  \E mid \in via : /\ Leads(m, SubSeq(s, 1, i), mid, via)
                          /\ Leads(mid, SubSeq(s, i + 1, Len(s)), to, via)
<1> DEFINE p == SubSeq(s, 1, i)
           q == SubSeq(s, i + 1, Len(s))
<1>0. Len(s) \in Nat /\ i \in Nat
  OBVIOUS
<1>1. /\ Len(p) = i /\ \A n \in 1 .. i : p[n] = s[n]
  BY <1>0, Part
<1>2. /\ Len(q) = Len(s) - i /\ \A n \in 1 .. Len(s) - i : q[n] = s[i + n]
  <2>1. i + 1 \in 1 .. Len(s) + 1 /\ Len(s) \in i .. Len(s)
    BY <1>0
  <2>2. CASE i = Len(s)
    <3>1. q = <<>>
      BY <1>0, <2>2, Part
    <3> QED
      BY <1>0, <2>2, <3>1
  <2>3. CASE i # Len(s)
    <3>1. i + 1 \in 1 .. Len(s) /\ Len(s) \in 1 .. Len(s)
      BY <1>0, <2>3
    <3>2. Len(q) = Len(s) - (i + 1) + 1 /\ \A n \in 1 .. Len(s) - (i + 1) + 1 : q[n] = s[i + 1 + n - 1]
      BY <3>1, Part
    <3> QED
      BY <1>0, <3>2
  <2> QED
    BY <2>2, <2>3
<1>3. PICK g : /\ g[0] = m /\ g[Len(s)] = to
               /\ \A n \in 0 .. Len(s) : g[n] \in via
               /\ \A n \in 1 .. Len(s) : Step(g[n - 1], s[n], g[n])
  BY DEF Leads
<1> HIDE DEF p, q
<1>4. Leads(m, p, g[i], via)
  <2>1. \A n \in 1 .. Len(p) : n \in 1 .. Len(s) /\ p[n] = s[n]
    BY <1>0, <1>1
  <2>2. \A n \in 1 .. Len(p) : Step(g[n - 1], p[n], g[n])
    BY <1>3, <2>1
  <2>3. \A n \in 0 .. Len(p) : g[n] \in via
    BY <1>0, <1>1, <1>3
  <2> QED
    BY <1>1, <1>3, <2>2, <2>3, Zenon DEF Leads
<1>5. Leads(g[i], q, to, via)
  <2> DEFINE h == [n \in 0 .. Len(s) - i |-> g[i + n]]
  <2>1. h[0] = g[i] /\ h[Len(q)] = to
    BY <1>0, <1>2, <1>3
  <2>2. ASSUME NEW n \in 1 .. Len(q) PROVE Step(h[n - 1], q[n], h[n])
    <3> DEFINE j == i + n
    <3>1. /\ n - 1 \in 0 .. Len(s) - i /\ n \in 0 .. Len(s) - i /\ n \in 1 .. Len(s) - i
          /\ j \in 1 .. Len(s) /\ i + (n - 1) = j - 1
      BY <1>0, <1>2
    <3>2. h[n - 1] = g[j - 1] /\ h[n] = g[j] /\ q[n] = s[j]
      BY <1>2, <3>1
    <3> HIDE DEF h, j
    <3>3. Step(g[j - 1], s[j], g[j])
      BY <1>3, <3>1
    <3> QED
      BY <3>2, <3>3
  <2>3. ASSUME NEW n \in 0 .. Len(q) PROVE h[n] \in via
    <3>1. n \in 0 .. Len(s) - i /\ i + n \in 0 .. Len(s)
      BY <1>0, <1>2
    <3> QED
      BY <1>3, <3>1
  <2> HIDE DEF h
  <2> QED
    BY <2>1, <2>2, <2>3, Zenon DEF Leads
<1>6. g[i] \in via
  BY <1>3
<1> QED
  BY <1>4, <1>5, <1>6 DEF p, q

\* A piece that changes no message may stand anywhere among the others.
LEMMA LeadsPast ==
  ASSUME NEW S, NEW s \in Seq(S), NEW m, NEW to, NEW via, Leads(m, s, to, via),
         NEW i \in 0 .. Len(s), NEW piece \in S, \A x \in via : Step(x, piece, x)
  PROVE  Leads(m, SubSeq(s, 1, i) \o <<piece>> \o SubSeq(s, i + 1, Len(s)), to, via)
<1>1. PICK mid \in via : /\ Leads(m, SubSeq(s, 1, i), mid, via)
                         /\ Leads(mid, SubSeq(s, i + 1, Len(s)), to, via)
  BY LeadsSplit
<1>2. Leads(mid, <<piece>>, mid, via)
  BY LeadsOne
<1> DEFINE p == SubSeq(s, 1, i)
           q == SubSeq(s, i + 1, Len(s))
           one == <<piece>>
<1>3. p \in Seq(S) /\ q \in Seq(S) /\ one \in Seq(S)
  <2>1. Len(s) \in Nat
    OBVIOUS
  <2>2. \A n \in 1 .. i : s[n] \in S
    BY <2>1
  <2>3. \A n \in i + 1 .. Len(s) : s[n] \in S
    BY <2>1
  <2> QED
    BY <2>1, <2>2, <2>3, Part
<1> HIDE DEF p, q, one
<1>4. Leads(m, p \o one, mid, via)
  <2>1. Leads(m, p, mid, via) /\ Leads(mid, one, mid, via)
    BY <1>1, <1>2 DEF p, one
  <2> QED
    BY <1>3, <2>1, LeadsOn
<1>5. p \o one \in Seq(S)
  BY <1>3, Joined
<1>6. Leads(m, (p \o one) \o q, to, via)
  <2>1. Leads(mid, q, to, via)
    BY <1>1 DEF q
  <2> QED
    BY <1>3, <1>4, <1>5, <2>1, LeadsOn
<1> QED
  BY <1>6 DEF p, q, one

\* An optional field: no piece, or one.
LEMMA TakesIf ==
  ASSUME NEW m, NEW pieces, NEW to,
         \/ pieces = <<>> /\ to = m
         \/ \E piece : pieces = <<piece>> /\ Step(m, piece, to)
  PROVE  Takes(m, pieces, to)
<1> DEFINE via == {m, to}
<1>1. m \in via /\ to \in via
  OBVIOUS
<1> HIDE DEF via
<1>2. CASE pieces = <<>> /\ to = m
  BY <1>1, <1>2, LeadsNone DEF Takes
<1>3. CASE \E piece : pieces = <<piece>> /\ Step(m, piece, to)
  BY <1>1, <1>3, LeadsOne DEF Takes
<1> QED
  BY <1>2, <1>3

LEMMA TakesOn ==
  ASSUME NEW S, NEW s \in Seq(S), NEW t \in Seq(S),
         NEW m, NEW to, NEW end, Takes(m, s, to), Takes(to, t, end)
  PROVE  Takes(m, s \o t, end)
<1>1. PICK v, w : Leads(m, s, to, v) /\ Leads(to, t, end, w)
  BY DEF Takes
<1>2. v \subseteq v \cup w /\ w \subseteq v \cup w
  OBVIOUS
<1>3. Leads(m, s, to, v \cup w) /\ Leads(to, t, end, v \cup w)
  BY <1>1, <1>2, LeadsWider
<1>4. Leads(m, s \o t, end, v \cup w)
  BY <1>3, LeadsOn
<1> QED
  BY <1>4 DEF Takes

\* A repeated field: the pieces lead over a message each.
LEMMA TakesMany ==
  ASSUME NEW pieces, NEW g, \A n \in 1 .. Len(pieces) : Step(g[n - 1], pieces[n], g[n])
  PROVE  Takes(g[0], pieces, g[Len(pieces)])
<1> DEFINE via == {g[n] : n \in 0 .. Len(pieces)}
<1>1. \A n \in 0 .. Len(pieces) : g[n] \in via
  OBVIOUS
<1> HIDE DEF via
<1>2. Leads(g[0], pieces, g[Len(pieces)], via)
  BY <1>1, Zenon DEF Leads
<1> QED
  BY <1>2 DEF Takes

\* Pieces of one value after another.
LEMMA TakesEach ==
  ASSUME NEW S, NEW N \in Nat, NEW h, NEW t, NEW g, h[0] = <<>>,
         \A T \in SUBSET Nat : T # {} => \E n \in T : \A k \in T : n <= k,
         \A n \in 1 .. N :
           /\ h[n - 1] \in Seq(S) /\ t[n] \in Seq(S) /\ h[n] = h[n - 1] \o t[n]
           /\ Takes(g[n - 1], t[n], g[n])
  PROVE  Takes(g[0], h[N], g[N])
<1> DEFINE T == {n \in 0 .. N : ~Takes(g[0], h[n], g[n])}
<1>1. T = {}
  <2>1. SUFFICES ASSUME T # {} PROVE FALSE
    OBVIOUS
  <2>2. PICK n \in T : \A k \in T : n <= k
    <3>1. T \in SUBSET Nat
      OBVIOUS
    <3> HIDE DEF T
    <3> QED
      BY <2>1, <3>1, Zenon
  <2>3. Takes(g[0], h[0], g[0])
    BY TakesIf
  <2>4. n \in 0 .. N /\ ~Takes(g[0], h[n], g[n]) /\ n # 0
    BY <2>3
  <2>5. n \in 1 .. N /\ n - 1 \in 0 .. N /\ ~(n <= n - 1)
    BY <2>4
  <2>6. Takes(g[0], h[n - 1], g[n - 1])
    BY <2>2, <2>5, Zenon
  <2>7. Takes(g[0], h[n - 1] \o t[n], g[n])
    BY <2>5, <2>6, TakesOn
  <2> QED
    BY <2>4, <2>5, <2>7
<1>2. N \in 0 .. N
  OBVIOUS
<1> QED
  BY <1>1, <1>2

\* Pieces of a repeated field, each of which appends a value.
LEMMA TakesRepeated ==
  ASSUME NEW S, NEW values \in Seq(S), NEW M, NEW pieces, Len(pieces) = Len(values),
         \A n \in 1 .. Len(values) : \A s \in Seq(S) :
           Step(M[s], pieces[n], M[Append(s, values[n])])
  PROVE  Takes(M[<<>>], pieces, M[values])
<1> DEFINE N == Len(values)
           g == [n \in 0 .. N |-> M[SubSeq(values, 1, n)]]
<1>1. N \in Nat /\ \A n \in 1 .. N : values[n] \in S
  OBVIOUS
<1>2. g[0] = M[<<>>] /\ g[N] = M[values]
  <2>1. 0 \in 0 .. N /\ N \in 0 .. N
    BY <1>1
  <2>2. g[0] = M[SubSeq(values, 1, 0)] /\ g[N] = M[SubSeq(values, 1, N)]
    BY <2>1, Zenon
  <2>3. SubSeq(values, 1, 0) = <<>> /\ SubSeq(values, 1, N) = values
    BY Part
  <2> QED
    BY <2>2, <2>3, Zenon
<1>3. ASSUME NEW n \in 1 .. N PROVE Step(g[n - 1], pieces[n], g[n])
  <2>1. n \in 0 .. N /\ n - 1 \in 0 .. N /\ 1 \in 1 .. N /\ n \in Int /\ 1 \in Int
          /\ \A i \in 1 .. n - 1 : i \in 1 .. N
    BY <1>1
  <2>2. g[n - 1] = M[SubSeq(values, 1, n - 1)] /\ g[n] = M[SubSeq(values, 1, n)]
    BY <2>1, Zenon
  <2> DEFINE s == SubSeq(values, 1, n - 1)
  <2>3. s \in Seq(S)
    <3>1. n - 1 \in Int /\ \A i \in 1 .. n - 1 : values[i] \in S
      BY <1>1, <2>1
    <3> QED
      BY <2>1, <3>1, Part
  <2>4. SubSeq(values, 1, n) = s \o <<values[n]>>
    BY <2>1
  <2> HIDE DEF s
  <2>5. s \o <<values[n]>> = Append(s, values[n])
    BY <1>1, <2>3
  <2>6. Step(M[s], pieces[n], M[Append(s, values[n])])
    BY <2>3
  <2> HIDE DEF g
  <2> QED
    BY <2>2, <2>4, <2>5, <2>6, Zenon DEF s
<1> HIDE DEF g
<1>4. Takes(g[0], pieces, g[Len(pieces)])
  BY <1>3, TakesMany, Zenon
<1> QED
  BY <1>2, <1>4

\* A first field that may be omitted, and a second.
LEMMA LeadsTwo ==
  ASSUME NEW S, NEW s \in Seq(S), NEW t \in Seq(S), NEW m, NEW to, NEW end,
         \/ s = <<>> /\ to = m
         \/ \E piece : s = <<piece>> /\ Step(m, piece, to),
         \/ t = <<>> /\ end = to
         \/ \E piece : t = <<piece>> /\ Step(to, piece, end)
  PROVE  Leads(m, s \o t, end, {m, to, end})
<1> DEFINE via == {m, to, end}
<1>1. m \in via /\ to \in via /\ end \in via
  OBVIOUS
<1> HIDE DEF via
<1>2. Leads(m, s, to, via)
  <2>1. CASE s = <<>> /\ to = m
    BY <1>1, <2>1, LeadsNone
  <2>2. CASE \E piece : s = <<piece>> /\ Step(m, piece, to)
    BY <1>1, <2>2, LeadsOne
  <2> QED
    BY <2>1, <2>2
<1>3. Leads(to, t, end, via)
  <2>1. CASE t = <<>> /\ end = to
    BY <1>1, <2>1, LeadsNone
  <2>2. CASE \E piece : t = <<piece>> /\ Step(to, piece, end)
    BY <1>1, <2>2, LeadsOne
  <2> QED
    BY <2>1, <2>2
<1>4. Leads(m, s \o t, end, via)
  BY <1>2, <1>3, LeadsOn
<1> QED
  BY <1>4 DEF via

-----------------------------------------------------------------------------
(* The fields the pieces are read as, and what the loop makes of them.     *)

\* The loop arrives where the fields lead.
LEMMA LoopLeads ==
  ASSUME NEW fields, Len(fields) \in Nat, NEW g, g[0] = Fresh,
         \A T \in SUBSET Nat : T # {} => \E n \in T : \A k \in T : n <= k,
         \A n \in 1 .. Len(fields) : Case(g[n - 1], fields[n]) = {g[n]}
  PROVE  Merged(fields) = {g[Len(fields)]}
<1> DEFINE N == Len(fields)
           Turns(u) == u = [n \in 0 .. N |->
                              IF n = 0 THEN {Fresh}
                              ELSE UNION {Case(x, fields[n]) : x \in u[n - 1]}]
           one == [n \in 0 .. N |-> {g[n]}]
<1>0. N \in Nat /\ \A n \in 1 .. N : Case(g[n - 1], fields[n]) = {g[n]}
  OBVIOUS
<1>4. Merged(fields) = (CHOOSE u : Turns(u))[N]
  BY DEF Merged
<1> HIDE DEF N
<1>2. Turns(one)
  <2>1. ASSUME NEW n \in 0 .. N, n # 0
        PROVE  UNION {Case(x, fields[n]) : x \in one[n - 1]} = {g[n]}
    <3>1. n \in 1 .. N /\ n - 1 \in 0 .. N
      BY <1>0, <2>1
    <3>2. one[n - 1] = {g[n - 1]}
      BY <3>1
    <3>3. Case(g[n - 1], fields[n]) = {g[n]}
      BY <1>0, <3>1
    <3> HIDE DEF one
    <3> QED
      BY <3>2, <3>3
  <2>2. 0 \in 0 .. N
    BY <1>0
  <2>3. \A n \in 0 .. N : {g[n]} = IF n = 0 THEN {Fresh}
                                  ELSE UNION {Case(x, fields[n]) : x \in one[n - 1]}
    BY <2>1
  <2> QED
    BY <2>3, Zenon
<1> DEFINE up == CHOOSE u : Turns(u)
<1>3. Turns(up)
  <2> HIDE DEF Turns, one
  <2> QED
    BY <1>2, Zenon
<1> HIDE DEF up, one
<1>5. /\ up[0] = {Fresh}
      /\ \A n \in 1 .. N : up[n] = UNION {Case(x, fields[n]) : x \in up[n - 1]}
  <2>1. \A n \in 0 .. N : up[n] = IF n = 0 THEN {Fresh}
                                  ELSE UNION {Case(x, fields[n]) : x \in up[n - 1]}
    BY <1>3, Zenon
  <2>2. 0 \in 0 .. N /\ \A n \in 1 .. N : n \in 0 .. N /\ n # 0
    BY <1>0
  <2> QED
    BY <2>1, <2>2, Zenon
<1> HIDE DEF Turns
<1> DEFINE T == {n \in 0 .. N : up[n] # {g[n]}}
<1>6. T = {}
  <2>1. SUFFICES ASSUME T # {} PROVE FALSE
    OBVIOUS
  <2>2. PICK n \in T : \A k \in T : n <= k
    <3>1. T \in SUBSET Nat
      BY <1>0
    <3> HIDE DEF T
    <3> QED
      BY <2>1, <3>1, Zenon
  <2>3. n \in 0 .. N /\ up[n] # {g[n]} /\ n # 0
    BY <1>5
  <2>4. n \in 1 .. N /\ n - 1 \in 0 .. N /\ ~(n <= n - 1)
    BY <1>0, <2>3
  <2>5. up[n - 1] = {g[n - 1]}
    BY <2>2, <2>4, Zenon
  <2>6. up[n] = UNION {Case(x, fields[n]) : x \in {g[n - 1]}} /\ Case(g[n - 1], fields[n]) = {g[n]}
    BY <1>0, <1>5, <2>4, <2>5
  <2> QED
    BY <2>3, <2>6
<1>7. up[N] = {g[N]}
  <2>1. N \in 0 .. N
    BY <1>0
  <2> QED
    BY <1>6, <2>1
<1>8. Merged(fields) = up[N]
  BY <1>4 DEF up
<1> QED
  BY <1>7, <1>8 DEF N

\* Pieces are read as fields of which the loop makes a message.  Of the first of them,
\* and of one more that changes nothing, it makes a message on the way.
AreRead(pieces, fields, m, via) ==
  /\ Len(fields) = Len(pieces)
  /\ \A n \in 1 .. Len(pieces) : Reads(pieces[n], fields[n])
  /\ Merged(fields) = {m}
  /\ \A k \in 0 .. Len(pieces) : \E x \in via :
       /\ Merged(SubSeq(fields, 1, k)) = {x}
       /\ \A u : Case(x, u) = {x} => Merged(SubSeq(fields, 1, k) \o <<u>>) = {x}

\* Pieces that lead to a message are read as such fields.
LEMMA LoopTakes ==
  ASSUME NEW S, NEW pieces \in Seq(S), NEW m, NEW via, Leads(Fresh, pieces, m, via),
         \A T \in SUBSET Nat : T # {} => \E n \in T : \A k \in T : n <= k
  PROVE  \E F : \E fields \in Seq(F) : AreRead(pieces, fields, m, via)
<1> DEFINE N == Len(pieces)
<1>0. N \in Nat
  OBVIOUS
<1>1. PICK g : /\ g[0] = Fresh /\ g[N] = m
               /\ \A n \in 0 .. N : g[n] \in via
               /\ \A n \in 1 .. N : Step(g[n - 1], pieces[n], g[n])
  BY DEF Leads
<1> HIDE DEF N
<1> DEFINE Read(n, f) == Reads(pieces[n], f) /\ Case(g[n - 1], f) = {g[n]}
           fields == [n \in 1 .. N |-> CHOOSE f : Read(n, f)]
           F == {fields[n] : n \in 1 .. N}
<1>2. \A n \in 1 .. N : Read(n, fields[n])
  <2>1. \A n \in 1 .. N : \E f : Read(n, f)
    BY <1>1 DEF Step
  <2> HIDE DEF Read
  <2> QED
    BY <2>1
<1>3. fields \in Seq(F) /\ Len(fields) = N
  <2>1. \A n \in 1 .. N : fields[n] \in F
    OBVIOUS
  <2>2. fields = [n \in 1 .. N |-> fields[n]]
    OBVIOUS
  <2> HIDE DEF fields, F
  <2>3. fields \in [1 .. N -> F]
    BY <2>1, <2>2
  <2> QED
    BY <1>0, <2>3
<1> HIDE DEF fields, F
<1>4. \A n \in 1 .. N : Reads(pieces[n], fields[n]) /\ Case(g[n - 1], fields[n]) = {g[n]}
  BY <1>2
<1> HIDE DEF Read
<1>5. ASSUME NEW k \in 0 .. N
      PROVE  /\ Merged(SubSeq(fields, 1, k)) = {g[k]}
             /\ \A u : Case(g[k], u) = {g[k]} => Merged(SubSeq(fields, 1, k) \o <<u>>) = {g[k]}
  <2> DEFINE p == SubSeq(fields, 1, k)
  <2>1. /\ p \in Seq(F) /\ Len(p) = k /\ k \in Nat
        /\ \A n \in 1 .. k : p[n] = fields[n] /\ n \in 1 .. N
    <3>1. \A n \in 1 .. k : fields[n] \in F /\ n \in 1 .. N
      BY <1>0, <1>3
    <3>2. k \in Int /\ 1 \in Int /\ k \in Nat
      BY <1>0
    <3>3. p \in Seq(F) /\ Len(p) = (IF 1 <= k THEN k - 1 + 1 ELSE 0)
            /\ \A n \in 1 .. k - 1 + 1 : p[n] = fields[1 + n - 1]
      BY <3>1, <3>2, Part
    <3>4. \A n \in 1 .. k : n \in 1 .. k - 1 + 1 /\ 1 + n - 1 = n
      BY <3>2
    <3>5. Len(p) = k
      BY <3>2, <3>3
    <3> HIDE DEF p
    <3> QED
      BY <3>1, <3>2, <3>3, <3>4, <3>5
  <2> HIDE DEF p
  <2>2. Merged(p) = {g[k]}
    <3>1. \A n \in 1 .. Len(p) : Case(g[n - 1], p[n]) = {g[n]}
      BY <1>4, <2>1
    <3>2. Len(p) \in Nat /\ g[0] = Fresh
      BY <1>1, <2>1
    <3> QED
      BY <2>1, <3>1, <3>2, LoopLeads
  <2>3. ASSUME NEW u, Case(g[k], u) = {g[k]} PROVE Merged(p \o <<u>>) = {g[k]}
    <3> DEFINE q == p \o <<u>>
               h == [n \in 0 .. k + 1 |-> IF n <= k THEN g[n] ELSE g[k]]
    <3>1. Len(q) = k + 1 /\ (\A n \in 1 .. k : q[n] = p[n]) /\ q[k + 1] = u
      <4> DEFINE E == F \cup {u}
                 one == <<u>>
      <4>1. p \in Seq(E)
        <5>1. F \subseteq E
          OBVIOUS
        <5> HIDE DEF E
        <5> QED
          BY <2>1, <5>1
      <4>2. one \in Seq(E) /\ Len(one) = 1 /\ one[1] = u
        OBVIOUS
      <4> HIDE DEF E, one
      <4>3. Len(p \o one) = Len(p) + Len(one)
              /\ \A i \in 1 .. Len(p) + Len(one) :
                   (p \o one)[i] = IF i <= Len(p) THEN p[i] ELSE one[i - Len(p)]
        BY <4>1, <4>2, Joined
      <4>4. k + 1 \in 1 .. k + 1 /\ ~(k + 1 <= k) /\ k + 1 - k = 1
              /\ \A i \in 1 .. k : i <= k /\ i \in 1 .. k + 1
        BY <2>1
      <4>5. Len(p \o one) = k + 1 /\ (\A n \in 1 .. k : (p \o one)[n] = p[n]) /\ (p \o one)[k + 1] = u
        BY <2>1, <4>2, <4>3, <4>4
      <4> QED
        BY <4>5 DEF one
    <3>2. \A n \in 0 .. k : h[n] = g[n]
      BY <2>1
    <3>3. h[k + 1] = g[k]
      BY <2>1
    <3> HIDE DEF q, h
    <3>4. ASSUME NEW n \in 1 .. Len(q) PROVE Case(h[n - 1], q[n]) = {h[n]}
      <4>1. CASE n <= k
        <5>1. n \in 1 .. k /\ n - 1 \in 0 .. k /\ n \in 0 .. k
          BY <2>1, <3>1, <4>1
        <5>2. h[n - 1] = g[n - 1] /\ h[n] = g[n] /\ q[n] = fields[n] /\ n \in 1 .. N
          BY <2>1, <3>1, <3>2, <5>1
        <5>3. Case(g[n - 1], fields[n]) = {g[n]}
          BY <1>4, <5>2
        <5> QED
          BY <5>2, <5>3
      <4>2. CASE ~(n <= k)
        <5>1. n = k + 1 /\ n - 1 = k /\ k \in 0 .. k
          BY <2>1, <3>1, <4>2
        <5>2. h[n - 1] = g[k] /\ h[n] = g[k] /\ q[n] = u
          BY <3>1, <3>2, <3>3, <5>1
        <5> QED
          BY <2>3, <5>2
      <4> QED
        BY <4>1, <4>2
    <3>5. Len(q) \in Nat /\ h[0] = Fresh /\ h[Len(q)] = g[k]
      BY <1>1, <2>1, <3>1, <3>2, <3>3
    <3>6. Merged(q) = {g[k]}
      BY <3>4, <3>5, LoopLeads
    <3> QED
      BY <3>6 DEF q
  <2> QED
    BY <2>2, <2>3 DEF p
<1>6. Merged(fields) = {m}
  <2>1. \A n \in 1 .. Len(fields) : Case(g[n - 1], fields[n]) = {g[n]}
    BY <1>3, <1>4
  <2>2. Len(fields) \in Nat /\ g[0] = Fresh /\ g[Len(fields)] = m
    BY <1>0, <1>1, <1>3
  <2> QED
    BY <2>1, <2>2, LoopLeads
<1>7. \A k \in 0 .. N : \E x \in via :
        /\ Merged(SubSeq(fields, 1, k)) = {x}
        /\ \A u : Case(x, u) = {x} => Merged(SubSeq(fields, 1, k) \o <<u>>) = {x}
  BY <1>1, <1>5
<1>8. /\ fields \in Seq(F)
      /\ Len(fields) = Len(pieces)
      /\ \A n \in 1 .. Len(pieces) : Reads(pieces[n], fields[n])
      /\ Merged(fields) = {m}
      /\ \A k \in 0 .. Len(pieces) : \E x \in via :
           /\ Merged(SubSeq(fields, 1, k)) = {x}
           /\ \A u : Case(x, u) = {x} => Merged(SubSeq(fields, 1, k) \o <<u>>) = {x}
  BY <1>3, <1>4, <1>6, <1>7 DEF N
<1>9. AreRead(pieces, fields, m, via)
  BY <1>8, Zenon DEF AreRead
<1> QED
  BY <1>8, <1>9, Zenon
=============================================================================
