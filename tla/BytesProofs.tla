---------------------------- MODULE BytesProofs ----------------------------
(***************************************************************************)
(* Theorems about the decoder of framing.ts, for every maximal length,     *)
(* every sequence of frames and every way to cut it into chunks; then the  *)
(* lemmas about wire.ts that CodecProofs.tla rests on: what a reader makes *)
(* of the bytes that a writer appends, of every number, string and field.  *)
(*                                                                         *)
(* The loop of push and the bytes of the peer are recursive functions.     *)
(* What they compute is proved by induction, each time in the form "take   *)
(* the least number for which it fails": a set with its least element is   *)
(* all the provers need.                                                   *)
(***************************************************************************)
EXTENDS Framing, Wire, SequenceTheorems, WellFoundedInduction, TLAPS

-----------------------------------------------------------------------------
(* Induction, as the least element of a set of numbers.                    *)

\* The well-foundedness of "<" as a fact about sets.
LEMMA Least ==
  ASSUME NEW T, T \subseteq Nat, T # {}
  PROVE  \E x \in T : \A y \in T : x <= y
<1> DEFINE R == OpToRel(<, Nat)
<1>1. IsWellFoundedOn(R, Nat)
  BY NatLessThanWellFounded
<1>2. \A x, y \in Nat : <<y, x>> \in R <=> y < x
  BY DEF OpToRel
<1> HIDE DEF R
<1>3. \E x \in T : \A y \in T : ~(<<y, x>> \in R)
  BY <1>1, WFMin
<1>4. PICK x \in T : \A y \in T : ~(<<y, x>> \in R)
  BY <1>3
<1>5. ASSUME NEW y \in T PROVE x <= y
  <2>1. x \in Nat /\ y \in Nat
    OBVIOUS
  <2>2. ~(y < x)
    BY <1>2, <1>4, <2>1
  <2> QED
    BY <2>1, <2>2
<1> QED
  BY <1>5

\* A bounded set of numbers has a greatest one.
LEMMA Greatest ==
  ASSUME NEW m \in Nat, NEW T, T \subseteq 0 .. m, T # {}
  PROVE  \E x \in T : \A y \in T : y <= x
<1> DEFINE U == {m - x : x \in T}
<1>1. U \subseteq Nat /\ U # {}
  <2>1. PICK y \in T : TRUE
    OBVIOUS
  <2>2. m - y \in U
    OBVIOUS
  <2>3. \A x \in T : m - x \in Nat
    OBVIOUS
  <2> QED
    BY <2>2, <2>3
<1>2. PICK u \in U : \A y \in U : u <= y
  <2> HIDE DEF U
  <2> QED
    BY <1>1, Least
<1>3. PICK x \in T : u = m - x
  OBVIOUS
<1>4. \A y \in T : m - x <= m - y
  BY <1>2, <1>3
<1> QED
  BY <1>4

-----------------------------------------------------------------------------
(* The four bytes of a length.                                             *)

\* The four digits of a number to the base 256 make up the number.
LEMMA FourDigits ==
  ASSUME NEW len \in Nat, len \div 16777216 \in 0 .. 255
  PROVE  /\ (len \div 16777216) % 256 \in 0 .. 255
         /\ (len \div 65536) % 256 \in 0 .. 255
         /\ (len \div 256) % 256 \in 0 .. 255
         /\ len % 256 \in 0 .. 255
         /\ 16777216 * ((len \div 16777216) % 256) + 65536 * ((len \div 65536) % 256)
              + 256 * ((len \div 256) % 256) + (len % 256) = len
<1> DEFINE a == len \div 16777216
           b == len \div 65536
           c == len \div 256
<1>1. /\ a \in 0 .. 255 /\ b \in Nat /\ c \in Nat
      /\ a % 256 = a
  OBVIOUS
<1>2. len = 256 * c + (len % 256) /\ len % 256 \in 0 .. 255
  OBVIOUS
<1>3. c = 256 * b + (c % 256) /\ c % 256 \in 0 .. 255
  OBVIOUS
<1>4. b = 256 * a + (b % 256) /\ b % 256 \in 0 .. 255
  OBVIOUS
<1> HIDE DEF a, b, c
<1>5. 16777216 * (a % 256) + 65536 * (b % 256) + 256 * (c % 256) + (len % 256) = len
  BY <1>1, <1>2, <1>3, <1>4
<1> QED
  BY <1>1, <1>2, <1>3, <1>4, <1>5 DEF a, b, c

\* The prefix is four bytes.
LEMMA PrefixBytes ==
  ASSUME NEW len \in Nat, FitsHeader(len)
  PROVE  Prefix(len) \in Seq(Byte) /\ Len(Prefix(len)) = 4
  BY FourDigits, SMT DEF FitsHeader, Prefix, Byte

\* What readU32BE reads is the length whose prefix is there.
LEMMA ReadPrefix ==
  ASSUME NEW len \in Nat, FitsHeader(len), NEW buf, NEW o \in Nat,
         \A i \in 1 .. 4 : buf[o + i] = Prefix(len)[i]
  PROVE  ReadU32BE(buf, o) = len
<1>1. /\ buf[o + 1] = (len \div 16777216) % 256
      /\ buf[o + 2] = (len \div 65536) % 256
      /\ buf[o + 3] = (len \div 256) % 256
      /\ buf[o + 4] = len % 256
  BY SMT DEF Prefix
<1> QED
  BY <1>1, FourDigits, SMT DEF ReadU32BE, FitsHeader, Byte

\* The same four bytes read the same anywhere.
LEMMA ReadAlike ==
  ASSUME NEW buf, NEW o \in Nat, NEW u, NEW p \in Nat,
         \A i \in 1 .. 4 : buf[o + i] = u[p + i]
  PROVE  ReadU32BE(buf, o) = ReadU32BE(u, p)
  BY SMT DEF ReadU32BE

\* Bytes are numbers.
LEMMA ByteNat == \A x \in Byte : x \in Nat
  BY DEF Byte

\* Four bytes in base 256 are a number.
LEMMA FourBytes == \A a, b, c, d \in Nat : 16777216 * a + 65536 * b + 256 * c + d \in Nat
  BY SMT

\* A length that is read is a number.
LEMMA ReadType ==
  ASSUME NEW buf \in Seq(Byte), NEW o \in Nat, o + 4 <= Len(buf)
  PROVE  ReadU32BE(buf, o) \in Nat
<1>1. ASSUME NEW i \in 1 .. 4 PROVE buf[o + i] \in Nat
  <2>1. o + i \in 1 .. Len(buf)
    OBVIOUS
  <2>2. buf[o + i] \in Byte
    BY <2>1
  <2> QED
    BY <2>2, ByteNat
<1>2. buf[o + 1] \in Nat /\ buf[o + 2] \in Nat /\ buf[o + 3] \in Nat /\ buf[o + 4] \in Nat
  BY <1>1
<1>3. \A a, b, c, d : a \in Nat /\ b \in Nat /\ c \in Nat /\ d \in Nat
                       => 16777216 * a + 65536 * b + 256 * c + d \in Nat
  BY FourBytes, SMT
<1>4. 16777216 * buf[o + 1] + 65536 * buf[o + 2] + 256 * buf[o + 3] + buf[o + 4] \in Nat
  BY <1>2, <1>3, SMTT(30)
<1> QED
  BY <1>4, SMT DEF ReadU32BE

-----------------------------------------------------------------------------
(* The loop of push is a function of the offset: it exists, from the end   *)
(* of the buffer backwards, since each turn uses what later offsets yield. *)

\* A turn looks only at what later offsets yield.
LEMMA YieldLocal ==
  ASSUME NEW buf \in Seq(Byte), NEW f, NEW g, NEW o \in 0 .. Len(buf),
         \A p \in 0 .. Len(buf) : o < p => f[p] = g[p]
  PROVE  Yield(buf, f, o) = Yield(buf, g, o)
<1>1. CASE Len(buf) - o < HeaderLen
  BY <1>1 DEF Yield
<1>2. CASE ~(Len(buf) - o < HeaderLen)
  <2> DEFINE next == o + HeaderLen + ReadU32BE(buf, o)
  <2>1. ReadU32BE(buf, o) \in Nat
    BY <1>2, ReadType DEF HeaderLen
  <2>2. CASE Len(buf) < next
    BY <2>2 DEF Yield
  <2>3. CASE ~(Len(buf) < next)
    <3>1. f[next] = g[next]
      BY <2>1, <2>3 DEF HeaderLen
    <3> QED
      BY <3>1 DEF Yield
  <2> QED
    BY <2>2, <2>3
<1> QED
  BY <1>1, <1>2

\* "from" is the loop on buf, from the offset "first" on.
Runs(buf, from, first) ==
  from = [offset \in first .. Len(buf) |-> Yield(buf, from, offset)]

\* Otherwise take the last offset from which there is none: its turn extends the
\* function there is from the next one.
LEMMA RunExists ==
  ASSUME NEW buf \in Seq(Byte)
  PROVE  \E f : Runs(buf, f, 0)
<1> DEFINE N == Len(buf)
           T == {k \in 0 .. N : \A f : ~Runs(buf, f, N - k)}
<1>0. N \in Nat
  OBVIOUS
<1>1. SUFFICES T = {}
  <2>1. N \notin T
    BY <1>1
  <2> QED
    BY <2>1, <1>0
<1>2. SUFFICES ASSUME T # {} PROVE FALSE
  OBVIOUS
<1>3. PICK k \in T : \A y \in T : k <= y
  <2>1. T \subseteq Nat
    OBVIOUS
  <2> HIDE DEF T
  <2> QED
    BY <1>2, <2>1, Least
<1>4. \E f : \A p \in N - k + 1 .. N : f[p] = Yield(buf, f, p)
  <2>1. CASE k = 0
    BY <2>1, <1>0
  <2>2. CASE k # 0
    <3>1. k - 1 \in 0 .. N /\ k - 1 \notin T
      BY <1>3, <2>2, <1>0
    <3>2. PICK f : Runs(buf, f, N - (k - 1))
      BY <3>1
    <3>3. \A p \in N - k + 1 .. N : f[p] = Yield(buf, f, p)
      BY <3>1, <3>2, <1>0 DEF Runs
    <3> QED
      BY <3>3
  <2> QED
    BY <2>1, <2>2
<1>5. PICK f : \A p \in N - k + 1 .. N : f[p] = Yield(buf, f, p)
  BY <1>4
<1> DEFINE g == [p \in N - k .. N |-> IF p = N - k THEN Yield(buf, f, p) ELSE f[p]]
<1>6. \A p \in N - k .. N : g[p] = Yield(buf, f, p)
  BY <1>5, <1>0
<1>7. \A p \in N - k .. N : Yield(buf, f, p) = Yield(buf, g, p)
  <2>1. TAKE p \in N - k .. N
  <2>2. \A q \in 0 .. Len(buf) : p < q => f[q] = g[q]
    BY <1>0, <1>3
  <2>3. p \in 0 .. Len(buf)
    BY <1>0, <1>3
  <2> HIDE DEF g
  <2> QED
    BY <2>2, <2>3, YieldLocal
<1>8. Runs(buf, g, N - k)
  <2>1. g = [p \in N - k .. N |-> g[p]]
    OBVIOUS
  <2>2. \A p \in N - k .. N : g[p] = Yield(buf, g, p)
    BY <1>6, <1>7
  <2> HIDE DEF g
  <2> QED
    BY <2>1, <2>2 DEF Runs
<1> QED
  BY <1>3, <1>8

Run(buf) == CHOOSE from : Runs(buf, from, 0)

\* Scan is the loop from offset 0, and the loop does a turn at each offset.
LEMMA ScanRuns ==
  ASSUME NEW buf \in Seq(Byte)
  PROVE  /\ Scan(buf) = Run(buf)[0]
         /\ \A o \in 0 .. Len(buf) : Run(buf)[o] = Yield(buf, Run(buf), o)
<1>1. Scan(buf) = Run(buf)[0]
  BY DEF Scan, Run, Runs
<1>2. Runs(buf, Run(buf), 0)
  BY RunExists DEF Run
<1>3. \A o \in 0 .. Len(buf) : Run(buf)[o] = Yield(buf, Run(buf), o)
  BY <1>2 DEF Runs
<1> QED
  BY <1>1, <1>3

-----------------------------------------------------------------------------
(* What the peer writes, frame by frame.                                   *)

\* Frames that a peer with the same maximum writes.
Frames(frames) ==
  /\ frames \in Seq(Seq(Byte))
  /\ \A i \in 1 .. Len(frames) :
       Len(frames[i]) <= MaxFrameLen /\ FitsHeader(Len(frames[i]))

\* A frame is its four bytes and its body.
LEMMA EncodeBytes ==
  ASSUME NEW body \in Seq(Byte), FitsHeader(Len(body))
  PROVE  /\ Encode(body) \in Seq(Byte)
         /\ Len(Encode(body)) = 4 + Len(body)
         /\ \A i \in 1 .. 4 : Encode(body)[i] = Prefix(Len(body))[i]
         /\ \A i \in 1 .. Len(body) : Encode(body)[4 + i] = body[i]
<1>1. Prefix(Len(body)) \in Seq(Byte) /\ Len(Prefix(Len(body))) = 4
  BY PrefixBytes
<1> DEFINE p == Prefix(Len(body))
<1>2. /\ p \o body \in Seq(Byte)
      /\ Len(p \o body) = 4 + Len(body)
      /\ \A i \in 1 .. 4 + Len(body) : (p \o body)[i] = IF i <= 4 THEN p[i] ELSE body[i - 4]
  <2> HIDE DEF p
  <2>1. p \in Seq(Byte) /\ Len(p) = 4
    BY <1>1 DEF p
  <2>2. /\ p \o body \in Seq(Byte)
        /\ Len(p \o body) = Len(p) + Len(body)
        /\ \A i \in 1 .. Len(p) + Len(body) :
             (p \o body)[i] = IF i <= Len(p) THEN p[i] ELSE body[i - Len(p)]
    BY <2>1, ConcatProperties
  <2> QED
    BY <2>1, <2>2
<1>3. Encode(body) = p \o body
  BY DEF Encode
<1> HIDE DEF p
<1>4. \A i \in 1 .. Len(body) : (p \o body)[4 + i] = body[i]
  BY <1>2
<1>5. \A i \in 1 .. 4 : (p \o body)[i] = p[i]
  BY <1>2
<1> QED
  BY <1>2, <1>3, <1>4, <1>5 DEF p

\* f[n] is what the first n frames are on the wire, up to n = last.
Sums(frames, f, last) ==
  f = [n \in 0 .. last |-> IF n = 0 THEN <<>> ELSE f[n - 1] \o Encode(frames[n])]

\* That function exists, from no frame upwards.
LEMMA SumsExist ==
  ASSUME NEW frames, Len(frames) \in Nat
  PROVE  \E f : Sums(frames, f, Len(frames))
<1> DEFINE N == Len(frames)
           T == {k \in 0 .. N : \A f : ~Sums(frames, f, k)}
<1>1. SUFFICES ASSUME T # {} PROVE FALSE
  <2>1. N \in T \/ \E f : Sums(frames, f, N)
    OBVIOUS
  <2> QED
    BY <2>1, <1>1
<1>2. PICK k \in T : \A y \in T : k <= y
  <2>1. T \subseteq Nat
    OBVIOUS
  <2> HIDE DEF T
  <2> QED
    BY <1>1, <2>1, Least
<1>3. CASE k = 0
  <2> DEFINE f == [n \in 0 .. 0 |-> <<>>]
  <2>1. f = [n \in 0 .. 0 |-> IF n = 0 THEN <<>> ELSE f[n - 1] \o Encode(frames[n])]
    OBVIOUS
  <2>2. Sums(frames, f, 0)
    <3> HIDE DEF f
    <3> QED
      BY <2>1 DEF Sums
  <2> QED
    BY <2>2, <1>3, <1>2
<1>4. CASE k # 0
  <2>1. k - 1 \in 0 .. N /\ k - 1 \notin T
    BY <1>2, <1>4
  <2>2. PICK f : Sums(frames, f, k - 1)
    BY <2>1
  <2> DEFINE g == [n \in 0 .. k |-> IF n = k THEN f[n - 1] \o Encode(frames[n]) ELSE f[n]]
  <2>3. \A n \in 0 .. k - 1 : f[n] = IF n = 0 THEN <<>> ELSE f[n - 1] \o Encode(frames[n])
    BY <2>2, <2>1 DEF Sums
  <2>4. \A n \in 0 .. k - 1 : g[n] = f[n]
    BY <2>1
  <2>5. ASSUME NEW n \in 0 .. k
        PROVE  g[n] = IF n = 0 THEN <<>> ELSE g[n - 1] \o Encode(frames[n])
    <3>1. CASE n = 0
      <4>1. g[n] = f[n]
        BY <3>1, <2>1, <2>4
      <4>2. f[n] = <<>>
        BY <3>1, <2>1, <2>3
      <4> HIDE DEF g
      <4> QED
        BY <3>1, <4>1, <4>2
    <3>2. CASE n # 0
      <4>1. n - 1 \in 0 .. k - 1
        BY <3>2, <2>1
      <4>2. g[n - 1] = f[n - 1]
        BY <4>1, <2>4
      <4>3. g[n] = f[n - 1] \o Encode(frames[n])
        <5>1. CASE n = k
          BY <5>1
        <5>2. CASE n # k
          <6>1. n \in 0 .. k - 1
            BY <5>2, <2>1
          <6>2. g[n] = f[n] /\ f[n] = f[n - 1] \o Encode(frames[n])
            BY <6>1, <3>2, <2>3, <2>4
          <6> HIDE DEF g
          <6> QED
            BY <6>2
        <5> QED
          BY <5>1, <5>2
      <4> HIDE DEF g
      <4> QED
        BY <3>2, <4>2, <4>3
    <3> QED
      BY <3>1, <3>2
  <2>6. g = [n \in 0 .. k |-> g[n]]
    OBVIOUS
  <2>7. Sums(frames, g, k)
    <3> HIDE DEF g
    <3> QED
      BY <2>5, <2>6 DEF Sums
  <2> QED
    BY <2>7, <1>2
<1> QED
  BY <1>3, <1>4

\* Each frame is appended to those before it.
LEMMA FrameBytesStep ==
  ASSUME NEW frames, Len(frames) \in Nat
  PROVE  /\ FrameBytes(frames, 0) = <<>>
         /\ \A n \in 1 .. Len(frames) :
              FrameBytes(frames, n) = FrameBytes(frames, n - 1) \o Encode(frames[n])
<1> DEFINE upTo == CHOOSE f : Sums(frames, f, Len(frames))
<1>1. \A k : FrameBytes(frames, k) = upTo[k]
  BY DEF FrameBytes, Sums
<1>2. Sums(frames, upTo, Len(frames))
  BY SumsExist
<1> HIDE DEF upTo
<1>3. \A n \in 0 .. Len(frames) :
        upTo[n] = IF n = 0 THEN <<>> ELSE upTo[n - 1] \o Encode(frames[n])
  BY <1>2 DEF Sums
<1>4. upTo[0] = <<>>
  BY <1>3
<1>5. ASSUME NEW n \in 1 .. Len(frames)
      PROVE  upTo[n] = upTo[n - 1] \o Encode(frames[n])
  <2>1. n \in 0 .. Len(frames) /\ n # 0
    OBVIOUS
  <2> QED
    BY <1>3, <2>1, Zenon
<1> QED
  BY <1>1, <1>4, <1>5

\* Where each frame ends.
LEMMA FrameBytesType ==
  ASSUME NEW frames, Frames(frames)
  PROVE  /\ \A n \in 0 .. Len(frames) : FrameBytes(frames, n) \in Seq(Byte)
         /\ Len(FrameBytes(frames, 0)) = 0
         /\ \A n \in 1 .. Len(frames) :
              Len(FrameBytes(frames, n)) = Len(FrameBytes(frames, n - 1)) + 4 + Len(frames[n])
<1>0. Len(frames) \in Nat /\ \A i \in 1 .. Len(frames) : frames[i] \in Seq(Byte)
  BY DEF Frames
<1>1. /\ FrameBytes(frames, 0) = <<>>
      /\ \A n \in 1 .. Len(frames) :
           FrameBytes(frames, n) = FrameBytes(frames, n - 1) \o Encode(frames[n])
  BY <1>0, FrameBytesStep
<1>2. \A n \in 1 .. Len(frames) :
        Encode(frames[n]) \in Seq(Byte) /\ Len(Encode(frames[n])) = 4 + Len(frames[n])
  BY <1>0, EncodeBytes DEF Frames
<1> DEFINE T == {n \in 0 .. Len(frames) : FrameBytes(frames, n) \notin Seq(Byte)}
<1>3. T = {}
  <2>1. SUFFICES ASSUME T # {} PROVE FALSE
    OBVIOUS
  <2>2. PICK n \in T : \A y \in T : n <= y
    <3>1. T \subseteq Nat
      OBVIOUS
    <3> HIDE DEF T
    <3> QED
      BY <2>1, <3>1, Least
  <2>3. n # 0
    <3>1. FrameBytes(frames, 0) \in Seq(Byte)
      BY <1>1, EmptySeq
    <3> QED
      BY <3>1
  <2>4. n - 1 \in 0 .. Len(frames) /\ n - 1 \notin T /\ n \in 1 .. Len(frames)
    BY <2>2, <2>3, <1>0
  <2>5. FrameBytes(frames, n - 1) \in Seq(Byte)
    BY <2>4
  <2>6. FrameBytes(frames, n) \in Seq(Byte)
    <3>1. FrameBytes(frames, n) = FrameBytes(frames, n - 1) \o Encode(frames[n])
      BY <1>1, <2>4
    <3>2. Encode(frames[n]) \in Seq(Byte)
      BY <1>2, <2>4
    <3> HIDE DEF T
    <3>3. FrameBytes(frames, n - 1) \o Encode(frames[n]) \in Seq(Byte)
      BY <2>5, <3>2, ConcatProperties, Zenon
    <3> QED
      BY <3>1, <3>3
  <2> QED
    BY <2>6
<1>4. \A n \in 0 .. Len(frames) : FrameBytes(frames, n) \in Seq(Byte)
  BY <1>3
<1>5. ASSUME NEW n \in 1 .. Len(frames)
      PROVE  Len(FrameBytes(frames, n)) = Len(FrameBytes(frames, n - 1)) + 4 + Len(frames[n])
  <2>1. n - 1 \in 0 .. Len(frames)
    BY <1>0
  <2>2. FrameBytes(frames, n - 1) \in Seq(Byte)
    BY <2>1, <1>4
  <2>3. Len(FrameBytes(frames, n - 1) \o Encode(frames[n]))
          = Len(FrameBytes(frames, n - 1)) + Len(Encode(frames[n]))
    BY <2>2, <1>2, ConcatProperties
  <2>4. Len(FrameBytes(frames, n - 1)) \in Nat /\ Len(frames[n]) \in Nat
    BY <2>2, <1>0
  <2>5. FrameBytes(frames, n) = FrameBytes(frames, n - 1) \o Encode(frames[n])
        /\ Len(Encode(frames[n])) = 4 + Len(frames[n])
    BY <1>1, <1>2
  <2>6. Len(FrameBytes(frames, n)) = Len(FrameBytes(frames, n - 1)) + Len(Encode(frames[n]))
    BY <2>3, <2>5, Zenon
  <2> HIDE DEF T
  <2>7. \A a, b \in Nat : a + (4 + b) = a + 4 + b
    OBVIOUS
  <2>8. Len(FrameBytes(frames, n)) = Len(FrameBytes(frames, n - 1)) + (4 + Len(frames[n]))
    BY <2>5, <2>6, Zenon
  <2> QED
    BY <2>4, <2>7, <2>8, Zenon
<1>6. Len(FrameBytes(frames, 0)) = 0
  BY <1>1, EmptySeq
<1> QED
  BY <1>4, <1>5, <1>6
\* What follows a frame does not change its bytes.
LEMMA FrameBytesPrefix ==
  ASSUME NEW frames, Frames(frames), NEW j \in 0 .. Len(frames)
  PROVE  \A k \in j .. Len(frames) :
           /\ Len(FrameBytes(frames, j)) <= Len(FrameBytes(frames, k))
           /\ \A x \in 1 .. Len(FrameBytes(frames, j)) :
                FrameBytes(frames, k)[x] = FrameBytes(frames, j)[x]
<1> DEFINE F(k) == FrameBytes(frames, k)
           P(k) == /\ Len(F(j)) <= Len(F(k))
                   /\ \A x \in 1 .. Len(F(j)) : F(k)[x] = F(j)[x]
           T == {k \in j .. Len(frames) : ~P(k)}
<1>0. Len(frames) \in Nat /\ \A i \in 1 .. Len(frames) : frames[i] \in Seq(Byte)
  BY DEF Frames
<1>1. ASSUME NEW n \in 0 .. Len(frames) PROVE F(n) \in Seq(Byte) /\ Len(F(n)) \in Nat
  <2>1. F(n) \in Seq(Byte)
    BY FrameBytesType
  <2> QED
    BY <2>1, LenProperties
<1>2. SUFFICES ASSUME T # {} PROVE FALSE
  OBVIOUS
<1>3. PICK k \in T : \A y \in T : k <= y
  <2>1. T \subseteq Nat
    BY <1>0
  <2> HIDE DEF T
  <2> QED
    BY <1>2, <2>1, Least
<1>4. k # j
  BY <1>1
<1>5. k - 1 \in j .. Len(frames) /\ k - 1 \notin T /\ k \in 1 .. Len(frames)
      /\ k - 1 \in 0 .. Len(frames)
  BY <1>0, <1>3, <1>4
<1>6. P(k - 1)
  BY <1>5
<1>7. F(k) = F(k - 1) \o Encode(frames[k])
  BY <1>0, <1>5, FrameBytesStep
<1>8. Encode(frames[k]) \in Seq(Byte) /\ Len(Encode(frames[k])) \in Nat
  BY <1>0, <1>5, EncodeBytes DEF Frames
<1>9. /\ Len(F(k)) = Len(F(k - 1)) + Len(Encode(frames[k]))
      /\ \A x \in 1 .. Len(F(k - 1)) + Len(Encode(frames[k])) :
           F(k)[x] = IF x <= Len(F(k - 1)) THEN F(k - 1)[x]
                     ELSE Encode(frames[k])[x - Len(F(k - 1))]
  <2> HIDE DEF F
  <2>1. F(k - 1) \in Seq(Byte)
    BY <1>1, <1>5
  <2>2. /\ Len(F(k - 1) \o Encode(frames[k])) = Len(F(k - 1)) + Len(Encode(frames[k]))
        /\ \A x \in 1 .. Len(F(k - 1)) + Len(Encode(frames[k])) :
             (F(k - 1) \o Encode(frames[k]))[x]
                 = IF x <= Len(F(k - 1)) THEN F(k - 1)[x]
                   ELSE Encode(frames[k])[x - Len(F(k - 1))]
    BY <2>1, <1>8, ConcatProperties
  <2> QED
    BY <2>2, <1>7, Zenon
<1>10. P(k)
  <2> HIDE DEF F
  <2>1. Len(F(k - 1)) \in Nat /\ Len(F(j)) \in Nat
    BY <1>1, <1>5
  <2>2. Len(F(j)) <= Len(F(k))
    BY <1>6, <1>8, <1>9, <2>1
  <2>3. ASSUME NEW x \in 1 .. Len(F(j)) PROVE F(k)[x] = F(j)[x]
    <3>1. x <= Len(F(k - 1)) /\ x \in 1 .. Len(F(k - 1)) + Len(Encode(frames[k]))
      BY <1>6, <1>8, <2>1
    <3>2. F(k)[x] = F(k - 1)[x]
      BY <1>9, <3>1
    <3>3. F(k - 1)[x] = F(j)[x]
      BY <1>6
    <3> QED
      BY <3>2, <3>3
  <2> QED
    BY <2>2, <2>3
<1> QED
  BY <1>3, <1>10

-----------------------------------------------------------------------------
(* The layout of the stream: where each frame begins, and what is there.   *)

Oversized(bad) == bad \in Nat /\ FitsHeader(bad) /\ (bad = 0 \/ bad > MaxFrameLen)

Announce(bad) == IF bad = 0 THEN <<>> ELSE Prefix(bad) \o [i \in 1 .. MaxTail |-> 0]
Sent(frames, bad) == FrameBytes(frames, Len(frames)) \o Announce(bad)

\* Bounds(frames)[k] is where frame k ends, and k + 1 begins.
Bounds(frames) == [k \in 0 .. Len(frames) |-> Len(FrameBytes(frames, k))]

\* The stream s, cut at b, has a length and a body for each frame and then, perhaps,
\* the length that is too large.
Layout(s, b, frames, bad) ==
  /\ s \in Seq(Byte) /\ frames \in Seq(Seq(Byte)) /\ bad \in Nat
  /\ \A k \in 0 .. Len(frames) : b[k] \in 0 .. Len(s)
  /\ b[0] = 0
  /\ \A k \in 1 .. Len(frames) :
       /\ b[k] = b[k - 1] + 4 + Len(frames[k])
       /\ Len(frames[k]) <= MaxFrameLen
       /\ ReadU32BE(s, b[k - 1]) = Len(frames[k])
       /\ \A i \in 1 .. Len(frames[k]) : s[b[k - 1] + 4 + i] = frames[k][i]
  /\ bad = 0 => Len(s) = b[Len(frames)]
  /\ bad # 0 => /\ bad > MaxFrameLen
                /\ Len(s) >= b[Len(frames)] + 4
                /\ ReadU32BE(s, b[Len(frames)]) = bad

\* What follows the frames is nothing, or begins with the oversized length.
LEMMA AnnounceBytes ==
  ASSUME NEW bad, Oversized(bad)
  PROVE  /\ Announce(bad) \in Seq(Byte)
         /\ bad = 0 => Len(Announce(bad)) = 0
         /\ bad # 0 => /\ Len(Announce(bad)) >= 4
                       /\ \A i \in 1 .. 4 : Announce(bad)[i] = Prefix(bad)[i]
<1>1. CASE bad = 0
  BY <1>1, EmptySeq DEF Announce
<1>2. CASE bad # 0
  <2> DEFINE zeros == [i \in 1 .. MaxTail |-> 0]
             p == Prefix(bad)
  <2>1. zeros \in Seq(Byte) /\ Len(zeros) \in Nat
    <3>1. MaxTail \in Nat
      BY FramingAssumption
    <3>2. 0 \in Byte
      BY DEF Byte
    <3> QED
      BY <3>1, <3>2
  <2>2. p \in Seq(Byte) /\ Len(p) = 4
    BY PrefixBytes DEF Oversized
  <2>3. Announce(bad) = p \o zeros
    BY <1>2 DEF Announce
  <2> HIDE DEF zeros, p
  <2>4. /\ p \o zeros \in Seq(Byte)
        /\ Len(p \o zeros) = Len(p) + Len(zeros)
        /\ \A i \in 1 .. Len(p) + Len(zeros) :
             (p \o zeros)[i] = IF i <= Len(p) THEN p[i] ELSE zeros[i - Len(p)]
    BY <2>1, <2>2, ConcatProperties
  <2>5. Len(p \o zeros) >= 4 /\ \A i \in 1 .. 4 : (p \o zeros)[i] = p[i]
    BY <2>1, <2>2, <2>4
  <2> QED
    BY <1>2, <2>3, <2>4, <2>5 DEF p
<1> QED
  BY <1>1, <1>2
\* Where the frames are in what the peer writes.
LEMMA WrittenLayout ==
  ASSUME NEW frames, Frames(frames), NEW bad, Oversized(bad)
  PROVE  Layout(Sent(frames, bad), Bounds(frames), frames, bad)
<1> DEFINE F(k) == FrameBytes(frames, k)
           b == Bounds(frames)
           N == Len(frames)
           a == Announce(bad)
           s == Sent(frames, bad)
<1>0. /\ N \in Nat /\ \A i \in 1 .. N : frames[i] \in Seq(Byte) /\ Len(frames[i]) \in Nat
      /\ \A i \in 1 .. N : FitsHeader(Len(frames[i]))
  BY LenProperties DEF Frames
<1>1. \A k \in 0 .. N : F(k) \in Seq(Byte)
  BY FrameBytesType
<1>2. \A k \in 0 .. N : b[k] = Len(F(k)) /\ b[k] \in Nat
  <2>1. TAKE k \in 0 .. N
  <2>2. b[k] = Len(F(k))
    BY DEF Bounds
  <2>3. Len(F(k)) \in Nat
    BY <1>1, LenProperties
  <2> QED
    BY <2>2, <2>3
<1>3. b[0] = 0 /\ \A k \in 1 .. N : b[k] = b[k - 1] + 4 + Len(frames[k])
  <2>1. 0 \in 0 .. N /\ \A k \in 1 .. N : k \in 0 .. N /\ k - 1 \in 0 .. N
    BY <1>0
  <2>2. Len(F(0)) = 0 /\ \A k \in 1 .. N : Len(F(k)) = Len(F(k - 1)) + 4 + Len(frames[k])
    BY FrameBytesType
  <2> HIDE DEF b, F, N
  <2> QED
    BY <1>2, <2>1, <2>2, Zenon
<1>4. /\ a \in Seq(Byte) /\ Len(a) \in Nat
      /\ bad = 0 => Len(a) = 0
      /\ bad # 0 => Len(a) >= 4 /\ \A i \in 1 .. 4 : a[i] = Prefix(bad)[i]
  <2>1. a \in Seq(Byte)
    BY AnnounceBytes
  <2> QED
    BY <2>1, AnnounceBytes, LenProperties
<1>5. /\ s \in Seq(Byte)
      /\ Len(s) = Len(F(N)) + Len(a)
      /\ \A x \in 1 .. Len(F(N)) + Len(a) :
           s[x] = IF x <= Len(F(N)) THEN F(N)[x] ELSE a[x - Len(F(N))]
  <2>1. s = F(N) \o a
    BY DEF Sent
  <2>2. N \in 0 .. N
    BY <1>0
  <2> HIDE DEF s, F, N, a
  <2>3. F(N) \in Seq(Byte)
    BY <1>1, <2>2
  <2>4. /\ F(N) \o a \in Seq(Byte)
        /\ Len(F(N) \o a) = Len(F(N)) + Len(a)
        /\ \A x \in 1 .. Len(F(N)) + Len(a) :
             (F(N) \o a)[x] = IF x <= Len(F(N)) THEN F(N)[x] ELSE a[x - Len(F(N))]
    BY <1>4, <2>3, ConcatProperties
  <2> QED
    BY <2>1, <2>4, Zenon
<1>6. \A k \in 0 .. N :
        /\ b[k] <= b[N]
        /\ \A x \in 1 .. b[k] : F(N)[x] = F(k)[x]
  <2>1. TAKE k \in 0 .. N
  <2>2. N \in k .. N /\ N \in 0 .. N
    BY <1>0
  <2>3. Len(F(k)) <= Len(F(N)) /\ \A x \in 1 .. Len(F(k)) : F(N)[x] = F(k)[x]
    BY <2>2, FrameBytesPrefix
  <2>4. b[k] = Len(F(k)) /\ b[N] = Len(F(N))
    BY <1>2, <2>2
  <2> HIDE DEF b, F, N
  <2> QED
    BY <2>3, <2>4, Zenon
<1>7. b[N] = Len(F(N)) /\ b[N] \in Nat
  <2>1. N \in 0 .. N
    BY <1>0
  <2> HIDE DEF b, N, F
  <2> QED
    BY <1>2, <2>1
<1>8. ASSUME NEW k \in 1 .. N
      PROVE  /\ \A i \in 1 .. 4 : s[b[k - 1] + i] = Prefix(Len(frames[k]))[i]
             /\ \A i \in 1 .. Len(frames[k]) : s[b[k - 1] + 4 + i] = frames[k][i]
  <2>0. k \in 0 .. N /\ k - 1 \in 0 .. N
    BY <1>0
  <2>1. F(k) = F(k - 1) \o Encode(frames[k])
    BY <1>0, FrameBytesStep
  <2> DEFINE e == Encode(frames[k])
             m == Len(frames[k])
  <2>2. /\ e \in Seq(Byte) /\ Len(e) = 4 + m
        /\ \A i \in 1 .. 4 : e[i] = Prefix(m)[i]
        /\ \A i \in 1 .. m : e[4 + i] = frames[k][i]
    BY <1>0, EncodeBytes
  <2>3. m \in Nat
    BY <1>0
  <2> HIDE DEF e, m, F, b, s, N, a
  <2>4. F(k - 1) \in Seq(Byte) /\ b[k - 1] = Len(F(k - 1)) /\ b[k - 1] \in Nat
    BY <1>1, <1>2, <2>0
  <2>5. \A x \in 1 .. Len(F(k - 1)) + Len(e) :
          (F(k - 1) \o e)[x] = IF x <= Len(F(k - 1)) THEN F(k - 1)[x] ELSE e[x - Len(F(k - 1))]
    BY <2>2, <2>4, ConcatProperties
  <2>6. b[k] = b[k - 1] + 4 + m /\ b[k] <= b[N]
    BY <1>3, <1>6, <2>0 DEF m
  <2>7. ASSUME NEW i \in 1 .. 4 + m PROVE s[b[k - 1] + i] = e[i]
    <3> DEFINE x == b[k - 1] + i
    <3>1. x \in 1 .. b[k] /\ x \in 1 .. Len(F(N)) + Len(a) /\ x <= Len(F(N))
          /\ x \in 1 .. Len(F(k - 1)) + Len(e) /\ ~(x <= Len(F(k - 1))) /\ x - Len(F(k - 1)) = i
      BY <1>4, <1>7, <2>2, <2>3, <2>4, <2>6, SMTT(30)
    <3> HIDE DEF x
    <3>2. s[x] = F(N)[x]
      BY <1>5, <3>1
    <3>3. F(N)[x] = F(k)[x]
      BY <1>6, <2>0, <3>1
    <3>4. F(k)[x] = e[i]
      <4>1. (F(k - 1) \o e)[x] = e[x - Len(F(k - 1))]
        BY <2>5, <3>1
      <4>2. F(k) = F(k - 1) \o e
        BY <2>1 DEF e
      <4> QED
        BY <3>1, <4>1, <4>2, Zenon
    <3>5. s[x] = e[i]
      BY <3>2, <3>3, <3>4
    <3> QED
      BY <3>5 DEF x
  <2>8. ASSUME NEW i \in 1 .. 4 PROVE s[b[k - 1] + i] = Prefix(m)[i]
    <3>1. i \in 1 .. 4 + m
      BY <2>3
    <3> QED
      BY <2>2, <2>7, <3>1
  <2>9. ASSUME NEW i \in 1 .. m PROVE s[b[k - 1] + 4 + i] = frames[k][i]
    <3>1. 4 + i \in 1 .. 4 + m /\ b[k - 1] + (4 + i) = b[k - 1] + 4 + i
      BY <2>3, <2>4
    <3>2. s[b[k - 1] + (4 + i)] = e[4 + i]
      BY <2>7, <3>1
    <3> QED
      BY <2>2, <3>1, <3>2
  <2> QED
    BY <2>8, <2>9 DEF m
<1>9. ASSUME NEW k \in 1 .. N
      PROVE  ReadU32BE(s, b[k - 1]) = Len(frames[k])
  <2>1. k - 1 \in 0 .. N
    BY <1>0
  <2> HIDE DEF b, s, N
  <2>2. b[k - 1] \in Nat
    BY <1>2, <2>1
  <2>3. \A i \in 1 .. 4 : s[b[k - 1] + i] = Prefix(Len(frames[k]))[i]
    BY <1>8
  <2>4. Len(frames[k]) \in Nat /\ FitsHeader(Len(frames[k]))
    BY <1>0
  <2> QED
    BY <2>2, <2>3, <2>4, ReadPrefix
<1>10. ASSUME bad # 0
       PROVE  /\ bad > MaxFrameLen
              /\ Len(s) >= b[N] + 4
              /\ ReadU32BE(s, b[N]) = bad
  <2> HIDE DEF b, s, N, F, a
  <2>1. Len(s) >= b[N] + 4
    BY <1>4, <1>5, <1>7, <1>10
  <2>2. ASSUME NEW i \in 1 .. 4 PROVE s[b[N] + i] = Prefix(bad)[i]
    <3> DEFINE x == b[N] + i
    <3>1. x \in 1 .. Len(F(N)) + Len(a) /\ ~(x <= Len(F(N))) /\ x - Len(F(N)) = i
      BY <1>4, <1>7, <1>10
    <3> HIDE DEF x
    <3>2. s[x] = a[x - Len(F(N))]
      BY <1>5, <3>1, Zenon
    <3>3. s[x] = Prefix(bad)[i]
      BY <1>4, <1>10, <3>1, <3>2
    <3> QED
      BY <3>3 DEF x
  <2>3. bad \in Nat /\ FitsHeader(bad) /\ bad > MaxFrameLen
    BY <1>10 DEF Oversized
  <2>4. ReadU32BE(s, b[N]) = bad
    BY <1>7, <2>2, <2>3, ReadPrefix
  <2> QED
    BY <2>1, <2>3, <2>4
<1>11. bad = 0 => Len(s) = b[N]
  <2> HIDE DEF b, s, N, F, a
  <2> QED
    BY <1>4, <1>5, <1>7
<1>12. \A k \in 0 .. N : b[k] \in 0 .. Len(s)
  <2> HIDE DEF b, s, N, F, a
  <2> QED
    BY <1>2, <1>4, <1>5, <1>6, <1>7
<1>13. frames \in Seq(Seq(Byte)) /\ bad \in Nat /\ \A k \in 1 .. N : Len(frames[k]) <= MaxFrameLen
  BY DEF Frames, Oversized
<1> QED
  <2> HIDE DEF b, s, F, a
  <2>1. Layout(s, b, frames, bad)
    BY <1>3, <1>5, <1>8, <1>9, <1>10, <1>11, <1>12, <1>13 DEF Layout
  <2> QED
    BY <2>1 DEF b, s
-----------------------------------------------------------------------------
(* What push makes of a stretch of the stream that begins with a frame.    *)

\* Every frame takes at least its header.
LEMMA BoundsGrow ==
  ASSUME NEW s, NEW b, NEW frames, NEW bad, Layout(s, b, frames, bad),
         NEW j \in 0 .. Len(frames), NEW k \in 0 .. Len(frames), j < k
  PROVE  b[j] + 4 <= b[k]
<1> DEFINE N == Len(frames)
           T == {m \in j + 1 .. N : ~(b[j] + 4 <= b[m])}
<1>0. N \in Nat /\ \A i \in 1 .. N : Len(frames[i]) \in Nat
  <2>1. frames \in Seq(Seq(Byte))
    BY DEF Layout
  <2> QED
    BY <2>1
<1>1. \A m \in 0 .. N : b[m] \in Nat
  <2>1. Len(s) \in Nat
    BY DEF Layout
  <2> QED
    BY <2>1 DEF Layout
<1>2. \A m \in 1 .. N : b[m] = b[m - 1] + 4 + Len(frames[m])
  BY DEF Layout
<1>3. SUFFICES ASSUME T # {} PROVE FALSE
  <2>1. k \notin T
    BY <1>3
  <2> QED
    BY <2>1, <1>0
<1>4. PICK m \in T : \A y \in T : m <= y
  <2>1. T \subseteq Nat
    BY <1>0
  <2> HIDE DEF T
  <2> QED
    BY <1>3, <2>1, Least
<1>5. m \in 1 .. N /\ m - 1 \in 0 .. N
  BY <1>0
<1>6. b[m] = b[m - 1] + 4 + Len(frames[m]) /\ b[m - 1] \in Nat /\ Len(frames[m]) \in Nat
  BY <1>0, <1>1, <1>2, <1>5
<1>7. m - 1 # j
  <2>1. SUFFICES ASSUME m - 1 = j PROVE FALSE
    OBVIOUS
  <2>2. b[m] = b[j] + 4 + Len(frames[m]) /\ b[j] \in Nat
    BY <1>6, <2>1, Zenon
  <2>3. b[j] + 4 <= b[m]
    <3> HIDE DEF T
    <3> QED
      BY <1>6, <2>2
  <2> QED
    BY <2>3
<1>8. m - 1 \in j + 1 .. N /\ m - 1 \notin T
  BY <1>0, <1>4, <1>5, <1>7
<1>9. b[j] + 4 <= b[m - 1]
  BY <1>8
<1>10. b[j] + 4 <= b[m]
  BY <1>1, <1>6, <1>9, SMTT(30)
<1> QED
  BY <1>10

\* How many frames have wholly arrived, after at least k.
LastWhole(b, k, frames, d, last) ==
  /\ last \in k .. Len(frames)
  /\ b[last] <= d
  /\ last < Len(frames) => d < b[last + 1]

\* There is such a number, since there are finitely many frames.
LEMMA LastWholeExists ==
  ASSUME NEW s, NEW b, NEW frames, NEW bad, Layout(s, b, frames, bad),
         NEW k \in 0 .. Len(frames), NEW d \in Nat, b[k] <= d
  PROVE  \E last : LastWhole(b, k, frames, d, last)
<1> DEFINE T == {j \in k .. Len(frames) : b[j] <= d}
<1>0. Len(frames) \in Nat /\ \A j \in 0 .. Len(frames) : b[j] \in Nat
  <2>1. frames \in Seq(Seq(Byte)) /\ s \in Seq(Byte)
    BY DEF Layout
  <2>2. Len(frames) \in Nat /\ Len(s) \in Nat
    BY <2>1
  <2> QED
    BY <2>2 DEF Layout
<1>1. T \subseteq 0 .. Len(frames) /\ T # {}
  BY <1>0
<1>2. PICK last \in T : \A j \in T : j <= last
  <2> HIDE DEF T
  <2> QED
    BY <1>0, <1>1, Greatest
<1>3. ASSUME last < Len(frames) PROVE d < b[last + 1]
  <2>1. last + 1 \in k .. Len(frames) /\ last + 1 \notin T /\ b[last + 1] \in Nat
    BY <1>0, <1>2, <1>3
  <2> QED
    BY <2>1
<1> QED
  BY <1>2, <1>3 DEF LastWhole

\* A frame put before those that are returned.
LEMMA ScannedMore ==
  ASSUME NEW frames, NEW offset, NEW bad, NEW more
  PROVE  [Scanned(frames, offset, bad) EXCEPT !.frames = more \o @]
           = Scanned(more \o frames, offset, bad)
<1>1. Scanned(frames, offset, bad).frames = frames
  BY DEF Scanned
<1>2. \A y : [Scanned(frames, offset, bad) EXCEPT !.frames = y] = Scanned(y, offset, bad)
  BY DEF Scanned
<1> QED
  BY <1>1, <1>2, Zenon

\* The bytes of a stretch are those of the stream.
LEMMA StretchBytes ==
  ASSUME NEW s \in Seq(Byte), NEW from \in Nat, NEW d \in 0 .. Len(s), from <= d
  PROVE  /\ SubSeq(s, from + 1, d) \in Seq(Byte)
         /\ Len(SubSeq(s, from + 1, d)) = d - from
         /\ \A x \in 1 .. d - from : SubSeq(s, from + 1, d)[x] = s[from + x]
<1>1. from + 1 \in Int /\ d \in Int /\ \A i \in from + 1 .. d : s[i] \in Byte
  <2>1. ASSUME NEW i \in from + 1 .. d PROVE s[i] \in Byte
    <3>1. i \in 1 .. Len(s)
      OBVIOUS
    <3> QED
      BY <3>1
  <2> QED
    BY <2>1
<1>2. /\ SubSeq(s, from + 1, d) \in Seq(Byte)
      /\ Len(SubSeq(s, from + 1, d)) = IF from + 1 <= d THEN d - (from + 1) + 1 ELSE 0
      /\ \A i \in 1 .. d - (from + 1) + 1 : SubSeq(s, from + 1, d)[i] = s[(from + 1) + i - 1]
  <2> DEFINE m == from + 1
  <2>1. m \in Int /\ d \in Int /\ \A i \in m .. d : s[i] \in Byte
    BY <1>1
  <2> HIDE DEF m
  <2>2. /\ SubSeq(s, m, d) \in Seq(Byte)
        /\ Len(SubSeq(s, m, d)) = IF m <= d THEN d - m + 1 ELSE 0
        /\ \A i \in 1 .. d - m + 1 : SubSeq(s, m, d)[i] = s[m + i - 1]
    BY <2>1, SubSeqProperties
  <2> QED
    BY <2>2 DEF m
<1>3. Len(SubSeq(s, from + 1, d)) = d - from
  BY <1>2
<1>4. ASSUME NEW x \in 1 .. d - from PROVE SubSeq(s, from + 1, d)[x] = s[from + x]
  <2>1. x \in 1 .. d - (from + 1) + 1 /\ (from + 1) + x - 1 = from + x
    OBVIOUS
  <2> QED
    BY <1>2, <2>1, Zenon
<1> QED
  BY <1>2, <1>3, <1>4
\* What a layout says of the types of its parts.
LEMMA LayoutTypes ==
  ASSUME NEW s, NEW b, NEW frames, NEW bad, Layout(s, b, frames, bad)
  PROVE  /\ s \in Seq(Byte) /\ Len(s) \in Nat /\ Len(frames) \in Nat
         /\ frames \in Seq(Seq(Byte)) /\ bad \in Nat
         /\ \A i \in 1 .. Len(frames) : frames[i] \in Seq(Byte) /\ Len(frames[i]) \in Nat
         /\ \A j \in 0 .. Len(frames) : b[j] \in Nat /\ b[j] <= Len(s)
<1>1. s \in Seq(Byte) /\ frames \in Seq(Seq(Byte)) /\ bad \in Nat
  BY DEF Layout
<1>2. Len(s) \in Nat /\ Len(frames) \in Nat
  BY <1>1
<1>3. \A i \in 1 .. Len(frames) : frames[i] \in Seq(Byte) /\ Len(frames[i]) \in Nat
  BY <1>1, LenProperties
<1>4. \A j \in 0 .. Len(frames) : b[j] \in Nat /\ b[j] <= Len(s)
  BY <1>2 DEF Layout
<1> QED
  BY <1>1, <1>2, <1>3, <1>4

\* The header of the length that is too large is among the first d bytes.
Refused(b, frames, bad, d) == bad # 0 /\ d >= b[Len(frames)] + 4

\* The turn at which the loop of push stops: the next frame is not whole, or its
\* length is refused, or there is none.
LEMMA LastTurn ==
  ASSUME NEW s, NEW b, NEW frames, NEW bad, Layout(s, b, frames, bad),
         NEW k \in 0 .. Len(frames), NEW d \in 0 .. Len(s), b[k] <= d,
         NEW last, LastWhole(b, k, frames, d, last), NEW f
  PROVE  Yield(SubSeq(s, b[k] + 1, d), f, b[last] - b[k])
           = Scanned(<<>>, b[last] - b[k], Refused(b, frames, bad, d))
<1> DEFINE A == SubSeq(s, b[k] + 1, d)
           N == Len(frames)
           o == b[last] - b[k]
           len == ReadU32BE(A, o)
<1>0. /\ s \in Seq(Byte) /\ Len(s) \in Nat /\ N \in Nat
      /\ \A i \in 1 .. N : frames[i] \in Seq(Byte) /\ Len(frames[i]) \in Nat
      /\ \A j \in 0 .. N : b[j] \in Nat /\ b[j] <= Len(s)
      /\ bad \in Nat /\ MaxFrameLen \in Nat
  <2>1. MaxFrameLen \in Nat
    BY FramingAssumption
  <2> QED
    BY <2>1, LayoutTypes
<1>1. last \in 0 .. N /\ last \in k .. N /\ b[last] <= d /\ (last < N => d < b[last + 1])
  BY <1>0 DEF LastWhole
<1>2. b[last] \in Nat /\ b[k] \in Nat /\ b[k] <= b[last]
  <2>1. CASE k = last
    BY <1>0, <1>1, <2>1
  <2>2. CASE k # last
    <3>1. k < last
      BY <1>1, <2>2
    <3>2. b[k] + 4 <= b[last]
      BY <1>1, <3>1, BoundsGrow
    <3> QED
      BY <1>0, <1>1, <3>2
  <2> QED
    BY <2>1, <2>2
<1>3. o \in Nat /\ o = b[last] - b[k]
  BY <1>2
<1>4. /\ A \in Seq(Byte)
      /\ Len(A) = d - b[k]
      /\ \A x \in 1 .. d - b[k] : A[x] = s[b[k] + x]
  <2> HIDE DEF A
  <2>1. b[k] \in Nat
    BY <1>2
  <2> QED
    BY <1>0, <2>1, StretchBytes DEF A
<1>5a. /\ Len(A) - o < HeaderLen <=> d < b[last] + 4
       /\ ~(Len(A) - o < HeaderLen) =>
            \A i \in 1 .. 4 : o + i \in 1 .. d - b[k] /\ b[k] + (o + i) = b[last] + i
       /\ \A m \in Nat : Len(A) < o + HeaderLen + m <=> d < b[last] + 4 + m
  <2> DEFINE first == b[k]
             at == b[last]
             size == Len(A)
  <2>1. first \in Nat /\ at \in Nat /\ d \in Nat /\ first <= at /\ at <= d
        /\ o = at - first /\ size = d - first
    BY <1>0, <1>1, <1>2, <1>4
  <2> HIDE DEF first, at, o, size
  <2>2. /\ size - o < HeaderLen <=> d < at + 4
        /\ ~(size - o < HeaderLen) =>
             \A i \in 1 .. 4 : o + i \in 1 .. size /\ first + (o + i) = at + i
        /\ \A m \in Nat : size < o + HeaderLen + m <=> d < at + 4 + m
    <3> HIDE DEF A, N, len
    <3> QED
      BY <2>1 DEF HeaderLen
  <2>3. /\ size - o < HeaderLen <=> d < at + 4
        /\ ~(size - o < HeaderLen) =>
             \A i \in 1 .. 4 : o + i \in 1 .. d - first /\ first + (o + i) = at + i
        /\ \A m \in Nat : size < o + HeaderLen + m <=> d < at + 4 + m
    BY <2>1, <2>2, Zenon
  <2> QED
    BY <2>3 DEF first, at, size
<1>5. CASE Len(A) - o < HeaderLen
  <2>1. ~Refused(b, frames, bad, d)
    <3>1. CASE last = N
      <4>1. d < b[N] + 4
        BY <1>5a, <1>5, <3>1, Zenon
      <4> QED
        BY <1>0, <4>1 DEF Refused
    <3>2. CASE last # N
      <4>1. last < N /\ last + 1 \in 0 .. N /\ d < b[last + 1] /\ b[last + 1] \in Nat
        BY <1>0, <1>1, <3>2
      <4>2. b[last + 1] <= b[N]
        <5>1. CASE last + 1 = N
          BY <5>1, <4>1
        <5>2. CASE last + 1 # N
          <6>1. N \in 0 .. N /\ last + 1 < N
            BY <1>0, <1>1, <4>1, <5>2
          <6>2. b[last + 1] + 4 <= b[N]
            BY <4>1, <6>1, BoundsGrow
          <6> QED
            BY <1>0, <4>1, <6>1, <6>2
        <5> QED
          BY <5>1, <5>2
      <4>3. ~(d >= b[N] + 4)
        BY <1>0, <4>1, <4>2, SMTT(30)
      <4> QED
        BY <4>3 DEF Refused
    <3> QED
      BY <3>1, <3>2
  <2>2. Yield(A, f, o) = Scanned(<<>>, o, FALSE)
    <3> HIDE DEF A, o
    <3> QED
      BY <1>5 DEF Yield
  <2>3. Refused(b, frames, bad, d) = FALSE
    BY <2>1 DEF Refused
  <2> QED
    BY <2>2, <2>3
<1>6. CASE ~(Len(A) - o < HeaderLen)
  <2>1. \A i \in 1 .. 4 : A[o + i] = s[b[last] + i]
    <3>1. TAKE i \in 1 .. 4
    <3> HIDE DEF A, o
    <3>2. o + i \in 1 .. d - b[k] /\ b[k] + (o + i) = b[last] + i
      BY <1>5a, <1>6, Zenon
    <3> QED
      BY <1>4, <3>2, Zenon
  <2>2. len = ReadU32BE(s, b[last])
    <3> DEFINE p == b[last]
    <3>1. o \in Nat /\ p \in Nat /\ \A i \in 1 .. 4 : A[o + i] = s[p + i]
      BY <1>2, <1>3, <2>1
    <3> HIDE DEF A, o, p
    <3>2. ReadU32BE(A, o) = ReadU32BE(s, p)
      BY <3>1, ReadAlike
    <3> QED
      BY <3>2 DEF p
  <2>3. CASE last = N
    <3>1. bad # 0 /\ d >= b[N] + 4
      <4>1. d >= b[N] + 4
        <5>1. ~(d < b[last] + 4)
          BY <1>5a, <1>6, Zenon
        <5> QED
          BY <1>0, <2>3, <5>1
      <4>2. bad = 0 => Len(s) = b[N]
        BY DEF Layout
      <4> QED
        BY <1>0, <4>1, <4>2
    <3>2. len = bad /\ bad > MaxFrameLen
      BY <2>2, <2>3, <3>1 DEF Layout
    <3>3. Yield(A, f, o) = Scanned(<<>>, o, TRUE)
      <4>1. len > MaxFrameLen
        BY <3>2
      <4> HIDE DEF A, o
      <4> QED
        BY <1>6, <4>1 DEF Yield
    <3>4. Refused(b, frames, bad, d) = TRUE
      BY <3>1 DEF Refused
    <3> QED
      BY <3>3, <3>4
  <2>4. CASE last # N
    <3>1. last + 1 \in 1 .. N /\ d < b[last + 1] /\ (last + 1) - 1 = last
      BY <1>0, <1>1, <2>4
    <3>2. /\ b[last + 1] = b[last] + 4 + Len(frames[last + 1])
          /\ Len(frames[last + 1]) <= MaxFrameLen
          /\ ReadU32BE(s, b[last]) = Len(frames[last + 1])
      <4> DEFINE m == last + 1
      <4>1. m \in 1 .. N /\ m - 1 = last
        BY <3>1
      <4> HIDE DEF m
      <4>2. /\ b[m] = b[m - 1] + 4 + Len(frames[m])
            /\ Len(frames[m]) <= MaxFrameLen
            /\ ReadU32BE(s, b[m - 1]) = Len(frames[m])
        BY <4>1 DEF Layout
      <4>3. /\ b[m] = b[last] + 4 + Len(frames[m])
            /\ Len(frames[m]) <= MaxFrameLen
            /\ ReadU32BE(s, b[last]) = Len(frames[m])
        BY <4>1, <4>2, Zenon
      <4> QED
        BY <4>3 DEF m
    <3>3. len = Len(frames[last + 1]) /\ len \in Nat
      BY <1>0, <2>2, <3>1, <3>2
    <3>4. ~(len > MaxFrameLen) /\ Len(A) < o + HeaderLen + len
      <4>1. len <= MaxFrameLen /\ d < b[last] + 4 + len
        BY <3>1, <3>2, <3>3, Zenon
      <4>2. Len(A) < o + HeaderLen + len
        BY <1>5a, <3>3, <4>1, Zenon
      <4>3. ~(len > MaxFrameLen)
        <5> HIDE DEF len
        <5> QED
          BY <1>0, <3>3, <4>1
      <4> QED
        BY <4>2, <4>3
    <3>5. Yield(A, f, o) = Scanned(<<>>, o, FALSE)
      <4> HIDE DEF A, o
      <4> QED
        BY <1>6, <3>4 DEF Yield
    <3>6. Refused(b, frames, bad, d) = FALSE
      <4>1. b[last + 1] <= b[N]
        <5>1. CASE last + 1 = N
          BY <1>0, <5>1, <3>1
        <5>2. CASE last + 1 # N
          <6>1. N \in 0 .. N /\ last + 1 \in 0 .. N /\ last + 1 < N
            BY <1>0, <1>1, <3>1, <5>2
          <6>2. b[last + 1] + 4 <= b[N]
            BY <6>1, BoundsGrow
          <6> QED
            BY <1>0, <6>1, <6>2, SMTT(30)
        <5> QED
          BY <5>1, <5>2
      <4>2. b[last + 1] \in Nat /\ b[N] \in Nat
        BY <1>0, <3>1
      <4>3. ~(d >= b[N] + 4)
        BY <3>1, <4>1, <4>2
      <4> QED
        BY <4>3 DEF Refused
    <3> QED
      BY <3>5, <3>6
  <2> QED
    BY <2>3, <2>4
<1> QED
  BY <1>5, <1>6
\* The turn at a frame that is wholly there.
LEMMA WholeTurn ==
  ASSUME NEW s, NEW b, NEW frames, NEW bad, Layout(s, b, frames, bad),
         NEW k \in 0 .. Len(frames), NEW d \in 0 .. Len(s),
         NEW j \in k .. Len(frames), j < Len(frames), b[j + 1] <= d,
         NEW f, NEW rest, NEW end, NEW refused,
         f[b[j + 1] - b[k]] = Scanned(rest, end, refused)
  PROVE  Yield(SubSeq(s, b[k] + 1, d), f, b[j] - b[k])
           = Scanned(<<frames[j + 1]>> \o rest, end, refused)
<1> DEFINE A == SubSeq(s, b[k] + 1, d)
           N == Len(frames)
           o == b[j] - b[k]
           len == ReadU32BE(A, o)
           m == j + 1
<1>0. /\ s \in Seq(Byte) /\ Len(s) \in Nat /\ N \in Nat /\ d \in Nat
      /\ \A i \in 1 .. N : frames[i] \in Seq(Byte) /\ Len(frames[i]) \in Nat
      /\ \A i \in 0 .. N : b[i] \in Nat /\ b[i] <= Len(s)
      /\ MaxFrameLen \in Nat
  <2>1. MaxFrameLen \in Nat
    BY FramingAssumption
  <2>2. Len(s) \in Nat
    BY LayoutTypes
  <2> QED
    BY <2>1, <2>2, LayoutTypes
<1>1. m \in 1 .. N /\ m - 1 = j /\ j \in 0 .. N /\ m \in 0 .. N
  BY <1>0
<1>2. /\ b[m] = b[j] + 4 + Len(frames[m])
      /\ Len(frames[m]) <= MaxFrameLen
      /\ ReadU32BE(s, b[j]) = Len(frames[m])
      /\ \A i \in 1 .. Len(frames[m]) : s[b[j] + 4 + i] = frames[m][i]
  <2> HIDE DEF m, N
  <2>1. /\ b[m] = b[m - 1] + 4 + Len(frames[m])
        /\ Len(frames[m]) <= MaxFrameLen
        /\ ReadU32BE(s, b[m - 1]) = Len(frames[m])
        /\ \A i \in 1 .. Len(frames[m]) : s[b[m - 1] + 4 + i] = frames[m][i]
    BY <1>1 DEF Layout, N
  <2> QED
    BY <1>1, <2>1, Zenon
<1>3. b[j] \in Nat /\ b[k] \in Nat /\ b[m] \in Nat /\ b[k] <= b[j] /\ b[m] <= d
      /\ Len(frames[m]) \in Nat /\ frames[m] \in Seq(Byte)
  <2>1. CASE k = j
    BY <1>0, <1>1, <2>1
  <2>2. CASE k # j
    <3>1. k < j
      BY <1>0, <2>2
    <3>2. b[k] + 4 <= b[j]
      BY <1>1, <3>1, BoundsGrow
    <3> QED
      BY <1>0, <1>1, <3>2, SMTT(30)
  <2> QED
    BY <2>1, <2>2
<1>4. /\ A \in Seq(Byte)
      /\ Len(A) = d - b[k]
      /\ \A x \in 1 .. d - b[k] : A[x] = s[b[k] + x]
  <2>1. b[k] \in Nat /\ b[k] <= d
    BY <1>0, <1>2, <1>3, SMTT(30)
  <2> HIDE DEF A
  <2> QED
    BY <1>0, <2>1, StretchBytes DEF A
<1> DEFINE first == b[k]
           at == b[j]
           size == Len(A)
           n == Len(frames[m])
           next == o + 4 + n
<1>5. first \in Nat /\ at \in Nat /\ n \in Nat /\ d \in Nat /\ first <= at /\ at + 4 + n <= d
      /\ o = at - first /\ size = d - first /\ b[m] = at + 4 + n
  BY <1>0, <1>2, <1>3, <1>4
<1>6. /\ o \in Nat /\ next \in Nat /\ next \in 0 .. size /\ size \in Nat
      /\ o + HeaderLen + n = next /\ next = b[m] - first
      /\ ~(size - o < HeaderLen) /\ ~(size < next)
      /\ \A i \in 1 .. 4 : o + i \in 1 .. d - first /\ first + (o + i) = at + i
      /\ \A i \in 1 .. n : o + 4 + i \in 1 .. d - first /\ first + (o + 4 + i) = at + 4 + i
  <2> HIDE DEF first, at, o, size, n, A, N, m
  <2> QED
    BY <1>5 DEF HeaderLen
<1>7. len = n
  <2>1. \A i \in 1 .. 4 : A[o + i] = s[at + i]
    <3>1. TAKE i \in 1 .. 4
    <3> HIDE DEF A, o, at
    <3> QED
      BY <1>4, <1>6, Zenon
  <2>2a. o \in Nat /\ at \in Nat
    BY <1>5, <1>6
  <2> HIDE DEF A, o, at
  <2>2. ReadU32BE(A, o) = ReadU32BE(s, at)
    BY <2>2a, <2>1, ReadAlike
  <2> QED
    BY <1>2, <2>2 DEF at
<1>8. SubSeq(A, o + HeaderLen + 1, next) = frames[m]
  <2> DEFINE u == o + 4
             body == SubSeq(A, u + 1, next)
  <2>1. u \in Nat /\ next \in 0 .. Len(A) /\ u <= next /\ next - u = n
    <3>1. o \in Nat /\ n \in Nat /\ next \in 0 .. Len(A)
      BY <1>5, <1>6, Zenon
    <3> HIDE DEF o, n, A
    <3>2. u \in Nat /\ u <= next /\ next - u = n
      BY <3>1
    <3> QED
      BY <3>1, <3>2
  <2>2. /\ body \in Seq(Byte) /\ Len(body) = next - u
        /\ \A x \in 1 .. next - u : body[x] = A[u + x]
    <3> HIDE DEF A, u, next
    <3> QED
      BY <1>4, <2>1, StretchBytes
  <2>3. ASSUME NEW i \in 1 .. n PROVE body[i] = frames[m][i]
    <3> DEFINE x == o + 4 + i
    <3>1. body[i] = A[x]
      <4> HIDE DEF body, next, u, n, A, o
      <4>1. body[i] = A[u + i]
        BY <2>1, <2>2, Zenon
      <4> QED
        BY <4>1 DEF u
    <3>2. x \in 1 .. d - b[k] /\ b[k] + x = at + 4 + i
      BY <1>6
    <3> HIDE DEF x
    <3>3. A[x] = s[at + 4 + i]
      <4> HIDE DEF A, at
      <4> QED
        BY <1>4, <3>2, Zenon
    <3>4. s[at + 4 + i] = frames[m][i]
      BY <1>2
    <3> HIDE DEF body, at, A
    <3> QED
      BY <3>1, <3>3, <3>4, Zenon
  <2>4. body = frames[m]
    <3> HIDE DEF body, m
    <3>1. body \in Seq(Byte) /\ frames[m] \in Seq(Byte) /\ Len(body) = Len(frames[m])
      BY <1>3, <2>1, <2>2
    <3>2. \A i \in 1 .. Len(body) : body[i] = frames[m][i]
      BY <2>3, <3>1
    <3> QED
      BY <3>1, <3>2, SeqEqual
  <2> QED
    BY <2>4 DEF HeaderLen
<1>9. Yield(A, f, o) = [f[next] EXCEPT !.frames = <<frames[m]>> \o @]
  <2>1. ~(len > MaxFrameLen)
    <3> HIDE DEF len, m, N
    <3> QED
      BY <1>0, <1>2, <1>7, <1>5
  <2>2. o + HeaderLen + len = next /\ ~(Len(A) - o < HeaderLen) /\ ~(Len(A) < next)
    BY <1>6, <1>7, Zenon
  <2> HIDE DEF A, o, next, m
  <2> QED
    BY <1>8, <2>1, <2>2, Zenon DEF Yield
<1>10. f[next] = Scanned(rest, end, refused)
  <2>1. next = b[j + 1] - b[k]
    BY <1>6
  <2> HIDE DEF next
  <2> QED
    BY <2>1, Zenon
<1>11. Yield(A, f, o) = Scanned(<<frames[m]>> \o rest, end, refused)
  <2> DEFINE e == f[next]
             y == <<frames[m]>>
  <2>1. e = Scanned(rest, end, refused)
    BY <1>10
  <2> HIDE DEF A, o, next, m, e, y
  <2>2. [Scanned(rest, end, refused) EXCEPT !.frames = y \o @] = Scanned(y \o rest, end, refused)
    BY ScannedMore
  <2>3. [e EXCEPT !.frames = y \o @] = Scanned(y \o rest, end, refused)
    BY <2>1, <2>2
  <2> QED
    BY <1>9, <2>3 DEF e, y
<1> QED
  BY <1>11

\* push returns the frames that are now whole, and refuses a length exactly when it
\* has come to a header that is there.
LEMMA ScanStretch ==
  ASSUME NEW s, NEW b, NEW frames, NEW bad, Layout(s, b, frames, bad),
         NEW k \in 0 .. Len(frames), NEW d \in 0 .. Len(s), b[k] <= d,
         NEW last, LastWhole(b, k, frames, d, last)
  PROVE  Scan(SubSeq(s, b[k] + 1, d))
           = Scanned(SubSeq(frames, k + 1, last), b[last] - b[k], Refused(b, frames, bad, d))
<1> DEFINE A == SubSeq(s, b[k] + 1, d)
           N == Len(frames)
           r == Run(A)
           P(j) == r[b[j] - b[k]]
                     = Scanned(SubSeq(frames, j + 1, last), b[last] - b[k], Refused(b, frames, bad, d))
           T == {x \in 0 .. last - k : ~P(last - x)}
<1>0. /\ s \in Seq(Byte) /\ Len(s) \in Nat /\ N \in Nat /\ d \in Nat
      /\ frames \in Seq(Seq(Byte))
      /\ \A i \in 0 .. N : b[i] \in Nat /\ b[i] <= Len(s)
  <2>1. Len(s) \in Nat
    BY LayoutTypes
  <2> QED
    BY <2>1, LayoutTypes
<1>1. last \in 0 .. N /\ last \in k .. N /\ b[last] <= d
  BY <1>0 DEF LastWhole
<1>2. ASSUME NEW i \in 0 .. N, NEW j \in 0 .. N, i <= j
      PROVE  b[i] <= b[j]
  <2>1. CASE i = j
    BY <1>0, <2>1
  <2>2. CASE i # j
    <3>1. i < j
      BY <1>0, <1>2, <2>2
    <3>2. b[i] + 4 <= b[j]
      BY <3>1, BoundsGrow
    <3> QED
      BY <1>0, <3>2
  <2> QED
    BY <2>1, <2>2
<1>3. A \in Seq(Byte) /\ Len(A) = d - b[k]
  <2>1. b[k] \in Nat
    BY <1>0
  <2> HIDE DEF A
  <2> QED
    BY <1>0, <2>1, StretchBytes DEF A
<1>4. Scan(A) = r[0] /\ \A o \in 0 .. d - b[k] : r[o] = Yield(A, r, o)
  <2> HIDE DEF A
  <2>1. Scan(A) = Run(A)[0] /\ \A o \in 0 .. Len(A) : Run(A)[o] = Yield(A, Run(A), o)
    BY <1>3, ScanRuns
  <2> QED
    BY <1>3, <2>1, Zenon
<1>5. ASSUME NEW j \in k .. last
      PROVE  r[b[j] - b[k]] = Yield(A, r, b[j] - b[k])
  <2>1. j \in 0 .. N /\ k \in 0 .. N /\ k <= j /\ j <= last
    BY <1>0, <1>1
  <2>2. b[k] <= b[j] /\ b[j] <= b[last] /\ b[k] \in Nat /\ b[j] \in Nat /\ b[last] \in Nat
    BY <1>0, <1>1, <1>2, <2>1
  <2> DEFINE o == b[j] - b[k]
  <2>3. o \in 0 .. d - b[k]
    BY <1>0, <1>1, <2>2
  <2> HIDE DEF o, A, r
  <2>4. r[o] = Yield(A, r, o)
    BY <1>4, <2>3, Zenon
  <2> QED
    BY <2>4 DEF o
<1>5a. Yield(A, r, b[last] - b[k]) = Scanned(<<>>, b[last] - b[k], Refused(b, frames, bad, d))
  <2> HIDE DEF N, r, T
  <2>1. \A f : Yield(SubSeq(s, b[k] + 1, d), f, b[last] - b[k])
                 = Scanned(<<>>, b[last] - b[k], Refused(b, frames, bad, d))
    BY LastTurn, Z3
  <2> QED
    BY <2>1, Zenon
<1>6. T = {}
  <2>1. SUFFICES ASSUME T # {} PROVE FALSE
    OBVIOUS
  <2>2. PICK x \in T : \A y \in T : x <= y
    <3>1. T \subseteq Nat
      BY <1>1
    <3> HIDE DEF T
    <3> QED
      BY <2>1, <3>1, Least
  <2> DEFINE j == last - x
  <2>3. x \in Nat /\ j \in k .. last /\ j \in 0 .. N /\ j \in k .. N /\ ~P(j)
    BY <1>0, <1>1
  <2>4. CASE x = 0
    <3>1. j = last
      BY <1>1, <2>4
    <3>2. r[b[last] - b[k]] = Yield(A, r, b[last] - b[k])
      <4>1. last \in k .. last
        BY <1>1
      <4> HIDE DEF A, r
      <4> QED
        BY <1>5, <4>1
    <3>3. Yield(A, r, b[last] - b[k]) = Scanned(<<>>, b[last] - b[k], Refused(b, frames, bad, d))
      BY <1>5a
    <3>4. SubSeq(frames, last + 1, last) = <<>>
      <4>1. last + 1 \in Int /\ last \in Int /\ last < last + 1
        BY <1>1
      <4> QED
        BY <4>1, SubSeqEmpty
    <3>5. P(last)
      <4> HIDE DEF A, r
      <4> QED
        BY <3>2, <3>3, <3>4, Zenon
    <3>6. P(j)
      <4> HIDE DEF A, r, j
      <4> QED
        BY <3>1, <3>5
    <3> QED
      BY <2>3, <3>6
  <2>5. CASE x # 0
    <3>1. x - 1 \in 0 .. last - k /\ x - 1 \notin T /\ last - (x - 1) = j + 1
          /\ j + 1 \in k .. last /\ j + 1 \in 0 .. N /\ j < N
      <4>1. x - 1 \in 0 .. last - k /\ last - (x - 1) = j + 1
            /\ j + 1 \in k .. last /\ j + 1 \in 0 .. N /\ j < N /\ ~(x <= x - 1)
        <5>1. x \in 0 .. last - k
          OBVIOUS
        <5> HIDE DEF T
        <5> QED
          BY <1>0, <1>1, <2>5, <5>1
      <4>2. x - 1 \notin T
        <5> HIDE DEF T
        <5> QED
          BY <2>2, <4>1, Zenon
      <4> QED
        BY <4>1, <4>2
    <3>2. P(j + 1)
      <4>1. P(last - (x - 1))
        BY <3>1
      <4> QED
        BY <3>1, <4>1
    <3> DEFINE rest == SubSeq(frames, j + 2, last)
               end == b[last] - b[k]
               refused == Refused(b, frames, bad, d)
    <3>3. r[b[j + 1] - b[k]] = Scanned(rest, end, refused)
      <4>1. j + 1 + 1 = j + 2
        BY <2>3
      <4> HIDE DEF A, r, j
      <4> QED
        BY <3>2, <4>1
    <3>4. b[j + 1] <= d
      <4>1. b[j + 1] <= b[last]
        <5>1. j + 1 \in 0 .. N /\ last \in 0 .. N /\ j + 1 <= last
          BY <1>1, <3>1
        <5> HIDE DEF j, N
        <5> QED
          BY <1>2, <5>1, Zenon
      <4> HIDE DEF j
      <4> QED
        BY <1>0, <1>1, <3>1, <4>1
    <3>5. Yield(A, r, b[j] - b[k]) = Scanned(<<frames[j + 1]>> \o rest, end, refused)
      <4> HIDE DEF j, r, rest, end, refused
      <4> QED
        BY <2>3, <3>1, <3>3, <3>4, WholeTurn
    <3>6. SubSeq(frames, j + 1, last) = <<frames[j + 1]>> \o rest
      <4> DEFINE m == j + 1
      <4>1. m \in 1 .. Len(frames) /\ last \in m .. Len(frames) /\ m + 1 = j + 2
        BY <1>0, <1>1, <2>3, <3>1
      <4> HIDE DEF m
      <4>2. SubSeq(frames, m, last) = <<frames[m]>> \o SubSeq(frames, m + 1, last)
        BY <1>0, <4>1, SubSeqRecursiveFirst
      <4>3. SubSeq(frames, m, last) = <<frames[m]>> \o SubSeq(frames, j + 2, last)
        BY <4>1, <4>2, Zenon
      <4> QED
        BY <4>3 DEF m
    <3>7. r[b[j] - b[k]] = Yield(A, r, b[j] - b[k])
      <4> HIDE DEF j, r, A
      <4> QED
        BY <1>5, <2>3
    <3>8. P(j)
      <4> HIDE DEF j, r, A, rest
      <4> QED
        BY <3>5, <3>6, <3>7, Zenon
    <3> QED
      BY <2>3, <3>8
  <2> QED
    BY <2>4, <2>5
<1>7. P(k)
  <2>1. last - k \in 0 .. last - k /\ last - k \notin T /\ last - (last - k) = k
    BY <1>1, <1>6
  <2>2. P(last - (last - k))
    BY <2>1
  <2> QED
    BY <2>1, <2>2
<1>8. b[k] - b[k] = 0
  BY <1>0
<1> HIDE DEF A, r
<1>9. Scan(A) = Scanned(SubSeq(frames, k + 1, last), b[last] - b[k], Refused(b, frames, bad, d))
  BY <1>4, <1>7, <1>8, Zenon
<1> QED
  BY <1>9 DEF A
\* The end of a stretch is a stretch.
LEMMA StretchOfStretch ==
  ASSUME NEW s \in Seq(Byte), NEW i \in Nat, NEW j \in Nat, NEW d \in 0 .. Len(s),
         i <= j, j <= d
  PROVE  SubSeq(SubSeq(s, i + 1, d), (j - i) + 1, Len(SubSeq(s, i + 1, d)))
           = SubSeq(s, j + 1, d)
<1> DEFINE A == SubSeq(s, i + 1, d)
           B == SubSeq(s, j + 1, d)
           o == j - i
           C == SubSeq(A, o + 1, Len(A))
<1>0. d \in Nat /\ o \in Nat /\ o <= d - i /\ i <= d /\ d - i \in 0 .. d - i
  <2>1. Len(s) \in Nat
    OBVIOUS
  <2> QED
    BY <2>1
<1>1. /\ A \in Seq(Byte) /\ Len(A) = d - i
      /\ \A x \in 1 .. d - i : A[x] = s[i + x]
  <2> HIDE DEF A
  <2> QED
    BY <1>0, StretchBytes DEF A
<1>2. /\ B \in Seq(Byte) /\ Len(B) = d - j
      /\ \A x \in 1 .. d - j : B[x] = s[j + x]
  <2> HIDE DEF B
  <2> QED
    BY <1>0, StretchBytes DEF B
<1>3. Len(A) - o = d - j
  <2> HIDE DEF A
  <2> QED
    BY <1>0, <1>1
<1>4. /\ C \in Seq(Byte) /\ Len(C) = d - j
      /\ \A x \in 1 .. d - j : C[x] = A[o + x]
  <2> DEFINE n == Len(A)
  <2>1. n \in 0 .. Len(A) /\ o <= n /\ n - o = d - j
    BY <1>0, <1>1, <1>3
  <2> HIDE DEF A, o, n
  <2>2. /\ SubSeq(A, o + 1, n) \in Seq(Byte) /\ Len(SubSeq(A, o + 1, n)) = n - o
        /\ \A x \in 1 .. n - o : SubSeq(A, o + 1, n)[x] = A[o + x]
    BY <1>0, <1>1, <2>1, StretchBytes
  <2> QED
    BY <2>1, <2>2, Zenon DEF n
<1>5. ASSUME NEW x \in 1 .. d - j PROVE C[x] = B[x]
  <2> DEFINE y == o + x
  <2>1. y \in 1 .. d - i /\ i + y = j + x
    BY <1>0
  <2> HIDE DEF A, B, C, y
  <2>2. A[y] = s[j + x]
    BY <1>1, <2>1, Zenon
  <2>3. C[x] = A[y]
    BY <1>4 DEF y
  <2> QED
    BY <1>2, <2>2, <2>3, Zenon
<1>6. C = B
  <2> HIDE DEF A, B, C
  <2>1. Len(C) = Len(B) /\ \A x \in 1 .. Len(C) : C[x] = B[x]
    BY <1>2, <1>4, <1>5
  <2> QED
    BY <1>2, <1>4, <2>1, SeqEqual
<1> QED
  BY <1>6

-----------------------------------------------------------------------------
(* The decoder.                                                            *)

\* The decoder has given out k frames and holds what came after them.  After a
\* refusal it stays at the frames it had given out before.
Kept(k) ==
  LET b == Bounds(sent.frames) IN
  /\ k \in 0 .. Len(sent.frames) /\ b[k] <= delivered
  /\ emitted = SubSeq(sent.frames, 1, k)
  /\ buffer = SubSeq(Stream, b[k] + 1, delivered)
  /\ thrown <=> Refused(b, sent.frames, sent.bad, delivered)
  /\ ~thrown => LastWhole(b, k, sent.frames, delivered, k)

\* Inductive as it stands: a chunk leads from one k to another.
FramingInv ==
  /\ sent \in Traffic
  /\ delivered \in 0 .. Len(Stream)
  /\ thrown \in BOOLEAN
  /\ \E k : Kept(k)

\* What the peer writes has the layout.
LEMMA StreamLayout ==
  ASSUME sent \in Traffic
  PROVE  Layout(Stream, Bounds(sent.frames), sent.frames, sent.bad)
<1>1. Frames(sent.frames) /\ Oversized(sent.bad)
  <2>1. sent.frames \in Seq(Seq(Byte))
    BY FramingAssumption
  <2>2. DOMAIN sent.frames = 1 .. Len(sent.frames)
    BY <2>1, LenProperties
  <2> QED
    BY <2>1, <2>2, FramingAssumption DEF Frames, Oversized
<1>2. Stream = Sent(sent.frames, sent.bad)
  BY DEF Stream, Announced, Sent, Announce
<1> QED
  BY <1>1, <1>2, WrittenLayout

\* At first no frame has come.
LEMMA FramingStart == Init => FramingInv
<1> SUFFICES ASSUME Init PROVE FramingInv
  OBVIOUS
<1> DEFINE b == Bounds(sent.frames)
           frames == sent.frames
<1>1. Layout(Stream, b, frames, sent.bad)
  BY StreamLayout DEF Init
<1>2. /\ Len(Stream) \in Nat /\ Len(frames) \in Nat /\ b[0] = 0 /\ 0 \in 0 .. Len(frames)
      /\ \A j \in 0 .. Len(frames) : b[j] \in Nat
  <2>1. Len(Stream) \in Nat /\ Len(frames) \in Nat /\ \A j \in 0 .. Len(frames) : b[j] \in Nat
    BY <1>1, LayoutTypes
  <2>2. b[0] = 0
    BY <1>1 DEF Layout
  <2> QED
    BY <2>1, <2>2
<1>3. sent \in Traffic /\ delivered = 0 /\ buffer = <<>> /\ emitted = <<>> /\ thrown = FALSE
  BY DEF Init
<1>4. SubSeq(frames, 1, 0) = <<>> /\ SubSeq(Stream, 0 + 1, 0) = <<>>
  BY SubSeqEmpty
<1>5. ~Refused(b, frames, sent.bad, 0)
  <2>1. b[Len(frames)] \in Nat
    BY <1>2
  <2>2. ~(0 >= b[Len(frames)] + 4)
    BY <2>1
  <2> QED
    BY <2>2 DEF Refused
<1>6. LastWhole(b, 0, frames, 0, 0)
  <2>1. CASE Len(frames) = 0
    BY <1>2, <2>1 DEF LastWhole
  <2>2. CASE Len(frames) # 0
    <3>1. 1 \in 0 .. Len(frames) /\ 0 < 1 /\ 0 + 1 = 1
      BY <1>2, <2>2
    <3>2. b[0] + 4 <= b[1]
      BY <1>1, <1>2, <3>1, BoundsGrow
    <3>3. 0 < b[0 + 1]
      BY <1>2, <3>1, <3>2
    <3> QED
      BY <1>2, <3>3 DEF LastWhole
  <2> QED
    BY <2>1, <2>2
<1>7. Kept(0)
  <2> HIDE DEF b
  <2>1. b[0] <= delivered /\ SubSeq(Stream, b[0] + 1, delivered) = <<>>
    BY <1>2, <1>3, <1>4
  <2> QED
    BY <1>2, <1>3, <1>4, <1>5, <1>6, <2>1 DEF Kept, b
<1>8. delivered \in 0 .. Len(Stream) /\ thrown \in BOOLEAN
  <2>1. Len(Stream) \in Nat
    BY <1>2
  <2>2. 0 \in 0 .. Len(Stream)
    BY <2>1
  <2>3. delivered \in 0 .. Len(Stream)
    BY <1>3, <2>2
  <2>4. thrown \in BOOLEAN
    BY <1>3
  <2> QED
    BY <2>3, <2>4
<1>9. \E k : Kept(k)
  BY <1>7
<1> QED
  BY <1>3, <1>8, <1>9 DEF FramingInv
\* A chunk that completes frames k + 1 to "last" leads from k to last; one that
\* brings an oversized length, or comes after it, leaves the decoder at k.
LEMMA PushKeeps ==
  ASSUME FramingInv, NEW n \in 1 .. MaxChunk, Push(n)
  PROVE  FramingInv'
<1> DEFINE frames == sent.frames
           bad == sent.bad
           b == Bounds(sent.frames)
           s == Stream
           N == Len(frames)
           d == delivered + n
           arrived == buffer \o SubSeq(s, delivered + 1, d)
           scan == Scan(arrived)
<1>1. Layout(s, b, frames, bad)
  BY StreamLayout DEF FramingInv
<1>2. PICK k : Kept(k)
  BY DEF FramingInv
<1>3. /\ s \in Seq(Byte) /\ Len(s) \in Nat /\ N \in Nat /\ frames \in Seq(Seq(Byte))
      /\ \A j \in 0 .. N : b[j] \in Nat /\ b[j] <= Len(s)
  <2>1. Len(s) \in Nat
    BY <1>1, LayoutTypes
  <2> HIDE DEF s, b, frames
  <2> QED
    BY <1>1, <2>1, LayoutTypes
<1>4. /\ k \in 0 .. N /\ b[k] <= delivered /\ b[k] \in Nat
      /\ emitted = SubSeq(frames, 1, k)
      /\ buffer = SubSeq(s, b[k] + 1, delivered)
      /\ thrown <=> Refused(b, frames, bad, delivered)
      /\ ~thrown => LastWhole(b, k, frames, delivered, k)
  BY <1>2, <1>3 DEF Kept
<1>5. /\ sent' = sent /\ s' = s /\ b' = b /\ frames' = frames /\ bad' = bad
      /\ delivered' = d /\ d <= Len(s)
  BY DEF Push, Stream, Announced
<1>6. d \in 0 .. Len(s) /\ d \in Nat /\ delivered \in 0 .. Len(s) /\ delivered \in Nat
      /\ delivered <= d /\ b[k] <= d
  <2>1. delivered \in 0 .. Len(s) /\ n \in Nat
    BY DEF FramingInv
  <2> HIDE DEF s, b
  <2> QED
    BY <1>3, <1>4, <1>5, <2>1
<1>7. arrived = SubSeq(s, b[k] + 1, d)
  <2> DEFINE m == b[k] + 1
  <2>1. m \in 1 .. Len(s) + 1 /\ delivered \in m - 1 .. Len(s) /\ d \in delivered .. Len(s)
    <3> HIDE DEF s, b, d
    <3> QED
      BY <1>3, <1>4, <1>6
  <2> HIDE DEF m, s, d
  <2>2. SubSeq(s, m, delivered) \o SubSeq(s, delivered + 1, d) = SubSeq(s, m, d)
    BY <1>3, <2>1, ConcatAdjacentSubSeq
  <2> QED
    BY <1>4, <2>2 DEF m
<1>8. PICK last : LastWhole(b, k, frames, d, last)
  <2> HIDE DEF s, b, frames, bad, N, d
  <2> QED
    BY <1>1, <1>4, <1>6, LastWholeExists DEF N
<1>9. scan = Scanned(SubSeq(frames, k + 1, last), b[last] - b[k], Refused(b, frames, bad, d))
  <2>1. Scan(SubSeq(s, b[k] + 1, d))
          = Scanned(SubSeq(frames, k + 1, last), b[last] - b[k], Refused(b, frames, bad, d))
    <3> HIDE DEF s, b, frames, bad, N, d
    <3> QED
      BY <1>1, <1>4, <1>6, <1>8, ScanStretch DEF N
  <2> HIDE DEF arrived, s, b, frames, bad, d
  <2> QED
    BY <1>7, <2>1
<1>10. /\ scan.frames = SubSeq(frames, k + 1, last)
       /\ scan.offset = b[last] - b[k]
       /\ scan.bad = Refused(b, frames, bad, d)
  <2> HIDE DEF scan, s, b, frames, bad, d
  <2> QED
    BY <1>9 DEF Scanned
<1>11. \/ /\ scan.bad /\ thrown' = TRUE /\ buffer' = arrived /\ emitted' = emitted
       \/ /\ ~scan.bad /\ thrown' = thrown
          /\ buffer' = SubSeq(arrived, scan.offset + 1, Len(arrived))
          /\ emitted' = emitted \o scan.frames
  BY DEF Push
<1>12. last \in 0 .. N /\ last \in k .. N /\ b[last] <= d /\ b[last] \in Nat /\ b[k] <= b[last]
       /\ LastWhole(b, last, frames, d, last)
  <2>1. last \in 0 .. N /\ last \in k .. N /\ b[last] <= d /\ (last < N => d < b[last + 1])
    <3> HIDE DEF b, frames, d
    <3> QED
      BY <1>3, <1>4, <1>8 DEF LastWhole, N
  <2>2. b[k] <= b[last]
    <3>1. CASE k = last
      BY <1>4, <3>1
    <3>2. CASE k # last
      <4>1. k < last
        BY <1>4, <2>1, <3>2
      <4> HIDE DEF s, b, frames, bad
      <4>2. b[k] + 4 <= b[last]
        BY <1>1, <1>4, <2>1, <4>1, BoundsGrow DEF N
      <4> QED
        BY <1>3, <1>4, <2>1, <4>2
    <3> QED
      BY <3>1, <3>2
  <2>3. LastWhole(b, last, frames, d, last)
    <3> HIDE DEF b, frames, d
    <3> QED
      BY <1>3, <2>1 DEF LastWhole, N
  <2> HIDE DEF b, frames, d, N
  <2> QED
    BY <1>3, <2>1, <2>2, <2>3
<1>13. Refused(b, frames, bad, delivered) => Refused(b, frames, bad, d)
  <2>1. b[N] \in Nat
    BY <1>3
  <2> HIDE DEF b, frames, bad, d
  <2>2. delivered >= b[N] + 4 => d >= b[N] + 4
    BY <1>6, <2>1
  <2> QED
    BY <2>2 DEF Refused, N
<1>14. CASE scan.bad
  <2>1. Refused(b, frames, bad, d) /\ thrown' = TRUE /\ buffer' = arrived /\ emitted' = emitted
    BY <1>10, <1>11, <1>14
  <2>2. Kept(k)'
    <3>1. /\ k \in 0 .. N /\ b[k] <= d
          /\ emitted' = SubSeq(frames, 1, k)
          /\ buffer' = SubSeq(s, b[k] + 1, d)
          /\ thrown' <=> Refused(b, frames, bad, d)
          /\ ~thrown' => LastWhole(b, k, frames, d, k)
      <4> HIDE DEF b, frames, bad, d, s, arrived
      <4> QED
        BY <1>4, <1>6, <1>7, <2>1
    <3> QED
      BY <1>5, <3>1 DEF Kept
  <2>3. \E i : Kept(i)'
    BY <2>2
  <2>4. sent' \in Traffic /\ delivered' \in 0 .. Len(s') /\ thrown' \in BOOLEAN
    <3>1. sent \in Traffic
      BY DEF FramingInv
    <3> HIDE DEF s, d
    <3> QED
      BY <1>5, <1>6, <2>1, <3>1
  <2> QED
    BY <2>3, <2>4 DEF FramingInv
<1>15. CASE ~scan.bad
  <2>1. /\ ~Refused(b, frames, bad, d) /\ thrown' = thrown /\ ~thrown
        /\ buffer' = SubSeq(arrived, scan.offset + 1, Len(arrived))
        /\ emitted' = emitted \o scan.frames
    BY <1>4, <1>10, <1>11, <1>13, <1>15
  <2>2. buffer' = SubSeq(s, b[last] + 1, d)
    <3> DEFINE i == b[k]
               j == b[last]
    <3>1. i \in Nat /\ j \in Nat /\ i <= j /\ j <= d /\ d \in 0 .. Len(s)
      BY <1>4, <1>6, <1>12
    <3> HIDE DEF s, d, i, j
    <3>2. SubSeq(SubSeq(s, i + 1, d), (j - i) + 1, Len(SubSeq(s, i + 1, d))) = SubSeq(s, j + 1, d)
      BY <1>3, <3>1, StretchOfStretch
    <3>3. arrived = SubSeq(s, i + 1, d) /\ scan.offset = j - i
      BY <1>7, <1>10 DEF i, j
    <3> HIDE DEF arrived, scan
    <3>4. buffer' = SubSeq(s, j + 1, d)
      BY <2>1, <3>2, <3>3, Zenon
    <3> QED
      BY <3>4 DEF j
  <2>3. emitted' = SubSeq(frames, 1, last)
    <3>1. 1 \in 1 .. Len(frames) + 1 /\ k \in 1 - 1 .. Len(frames) /\ last \in k .. Len(frames)
      BY <1>3, <1>4, <1>12
    <3> HIDE DEF frames, scan
    <3>2. SubSeq(frames, 1, k) \o SubSeq(frames, k + 1, last) = SubSeq(frames, 1, last)
      BY <1>3, <3>1, ConcatAdjacentSubSeq
    <3> QED
      BY <1>4, <1>10, <2>1, <3>2, Zenon
  <2>4. Kept(last)'
    <3>1. /\ last \in 0 .. N /\ b[last] <= d
          /\ thrown' <=> Refused(b, frames, bad, d)
          /\ ~thrown' => LastWhole(b, last, frames, d, last)
      <4> HIDE DEF b, frames, bad, d
      <4> QED
        BY <1>12, <2>1
    <3> QED
      BY <1>5, <2>2, <2>3, <3>1 DEF Kept
  <2>5. \E i : Kept(i)'
    BY <2>4
  <2>6. sent' \in Traffic /\ delivered' \in 0 .. Len(s') /\ thrown' \in BOOLEAN
    <3>1. sent \in Traffic /\ thrown \in BOOLEAN
      BY DEF FramingInv
    <3> HIDE DEF s, d
    <3> QED
      BY <1>5, <1>6, <2>1, <3>1
  <2> QED
    BY <2>5, <2>6 DEF FramingInv
<1> QED
  BY <1>14, <1>15

\* Every step keeps the invariant.
LEMMA FramingStep == FramingInv /\ [Next]_vars => FramingInv'
<1> SUFFICES ASSUME FramingInv, [Next]_vars PROVE FramingInv'
  OBVIOUS
<1>1. CASE Next
  BY <1>1, PushKeeps DEF Next
<1>2. CASE UNCHANGED vars
  BY <1>2 DEF vars, FramingInv, Kept, Stream, Announced
<1> QED
  BY <1>1, <1>2

\* So it holds in every state.
LEMMA FramingAlways == Spec => []FramingInv
  BY FramingStart, FramingStep, PTL DEF Spec

\* The frames that have wholly arrived are those the decoder has given out.
LEMMA WholeIsKept ==
  ASSUME FramingInv, NEW k, Kept(k), ~thrown
  PROVE  Whole = k
<1> DEFINE frames == sent.frames
           b == Bounds(sent.frames)
           N == Len(frames)
           W(j) == /\ Len(FrameBytes(frames, j)) <= delivered
                   /\ j < N => Len(FrameBytes(frames, j + 1)) > delivered
<1>1. Layout(Stream, b, frames, sent.bad)
  BY StreamLayout DEF FramingInv
<1>2. N \in Nat /\ delivered \in Nat /\ \A j \in 0 .. N : b[j] \in Nat
  <2>1. N \in Nat /\ Len(Stream) \in Nat /\ \A j \in 0 .. N : b[j] \in Nat
    BY <1>1, LayoutTypes
  <2>2. delivered \in 0 .. Len(Stream)
    BY DEF FramingInv
  <2> QED
    BY <2>1, <2>2
<1>3. \A j \in 0 .. N : b[j] = Len(FrameBytes(frames, j))
  BY DEF Bounds
<1>4. ASSUME NEW j \in 0 .. N
      PROVE  W(j) <=> b[j] <= delivered /\ (j < N => b[j + 1] > delivered)
  <2>1. j < N => j + 1 \in 0 .. N
    BY <1>2
  <2> HIDE DEF b, N, frames
  <2> QED
    BY <1>3, <2>1
<1>5. k \in 0 .. N /\ b[k] <= delivered /\ (k < N => delivered < b[k + 1])
  BY DEF Kept, LastWhole
<1>6. W(k)
  <2>1. k < N => b[k + 1] \in Nat
    BY <1>2, <1>5
  <2> HIDE DEF b, N, W
  <2> QED
    BY <1>2, <1>4, <1>5, <2>1
<1>7. ASSUME NEW j \in 0 .. N, W(j), j # k PROVE FALSE
  <2>1. b[j] <= delivered /\ (j < N => b[j + 1] > delivered)
    <3> HIDE DEF W
    <3> QED
      BY <1>4, <1>7
  <2>2. ASSUME NEW x \in 0 .. N, NEW y \in 0 .. N, x < y,
               b[y] <= delivered, x < N => b[x + 1] > delivered
        PROVE  FALSE
    <3>1. x + 1 \in 0 .. N /\ x < N
      BY <1>2, <2>2
    <3>2. b[x + 1] <= b[y]
      <4>1. CASE x + 1 = y
        BY <1>2, <4>1
      <4>2. CASE x + 1 # y
        <5>1. x + 1 < y
          BY <1>2, <2>2, <4>2
        <5>2. b[x + 1] + 4 <= b[y]
          <6> HIDE DEF b
          <6> QED
            BY <1>1, <3>1, <5>1, BoundsGrow
        <5> QED
          BY <1>2, <3>1, <5>2
      <4> QED
        BY <4>1, <4>2
    <3>3. b[x + 1] \in Nat /\ b[y] \in Nat
      BY <1>2, <3>1
    <3> HIDE DEF b
    <3> QED
      BY <1>2, <2>2, <3>1, <3>2, <3>3
  <2>3. CASE j < k
    BY <1>5, <2>1, <2>2, <2>3
  <2>4. CASE k < j
    <3>1. k < N => b[k + 1] > delivered
      BY <1>2, <1>5
    <3> QED
      BY <1>5, <2>1, <2>2, <2>4, <3>1
  <2> QED
    BY <1>2, <1>5, <1>7, <2>3, <2>4
<1>8. Whole = CHOOSE j \in 0 .. N : W(j)
  BY DEF Whole
<1> HIDE DEF W
<1>9. (CHOOSE j \in 0 .. N : W(j)) = k
  BY <1>5, <1>6, <1>7
<1> QED
  BY <1>8, <1>9

-----------------------------------------------------------------------------
(* The theorems.                                                           *)

\* Type correctness of the decoder, whatever the peer writes and however the socket
\* cuts it: what it buffers are bytes, what it returns are sequences of bytes.
THEOREM Typing == Spec => []TypeOK
<1>1. FramingInv => TypeOK
  <2> SUFFICES ASSUME FramingInv PROVE TypeOK
    OBVIOUS
  <2> DEFINE frames == sent.frames
             b == Bounds(sent.frames)
  <2>1. PICK k : Kept(k)
    BY DEF FramingInv
  <2>2. /\ Stream \in Seq(Byte) /\ Len(Stream) \in Nat
        /\ frames \in Seq(Seq(Byte)) /\ Len(frames) \in Nat
        /\ \A j \in 0 .. Len(frames) : b[j] \in Nat
    <3>1. Layout(Stream, b, frames, sent.bad)
      BY StreamLayout DEF FramingInv
    <3> HIDE DEF b, frames
    <3> QED
      BY <3>1, LayoutTypes
  <2>3. /\ k \in 0 .. Len(frames) /\ b[k] <= delivered
        /\ emitted = SubSeq(frames, 1, k)
        /\ buffer = SubSeq(Stream, b[k] + 1, delivered)
    BY <2>1 DEF Kept
  <2>4. delivered \in 0 .. Len(Stream) /\ thrown \in BOOLEAN
    BY DEF FramingInv
  <2>5. buffer \in Seq(Byte)
    <3> DEFINE i == b[k]
    <3>1. i \in Nat /\ i <= delivered /\ buffer = SubSeq(Stream, i + 1, delivered)
      BY <2>2, <2>3
    <3> HIDE DEF i
    <3> QED
      BY <2>2, <2>4, <3>1, StretchBytes
  <2>6. emitted \in Seq(Seq(Byte))
    <3>1. 1 \in Int /\ k \in Int /\ \A i \in 1 .. k : frames[i] \in Seq(Byte)
      <4>1. \A i \in 1 .. k : i \in 1 .. Len(frames)
        BY <2>2, <2>3
      <4> HIDE DEF frames
      <4> QED
        BY <2>2, <2>3, <4>1, ElementOfSeq
    <3> HIDE DEF frames
    <3>2. SubSeq(frames, 1, k) \in Seq(Seq(Byte))
      BY <3>1, SubSeqProperties
    <3> QED
      BY <2>3, <3>2
  <2> QED
    BY <2>4, <2>5, <2>6 DEF TypeOK
<1> QED
  BY <1>1, FramingAlways, PTL

\* However the socket cuts the stream, and whatever the frames are, push returns the
\* peer's frames whole and in order, each with the chunk that completes it, and the
\* buffer is the torn one.
THEOREM CutAnywhere == Spec => []Reassembled
<1>1. FramingInv => Reassembled
  <2> SUFFICES ASSUME FramingInv, ~thrown
               PROVE  /\ emitted = SubSeq(sent.frames, 1, Whole)
                      /\ buffer = SubSeq(Stream, Len(FrameBytes(sent.frames, Whole)) + 1, delivered)
    BY DEF Reassembled
  <2>1. PICK k : Kept(k)
    BY DEF FramingInv
  <2>2. Whole = k
    BY <2>1, WholeIsKept
  <2>3. Bounds(sent.frames)[k] = Len(FrameBytes(sent.frames, k))
    BY <2>1 DEF Kept, Bounds
  <2> QED
    BY <2>1, <2>2, <2>3, Zenon DEF Kept
<1> QED
  BY <1>1, FramingAlways, PTL

\* push throws exactly when the four bytes of a length over the maximum have come,
\* whatever has come of its body: no frame it accepts is refused for where it is cut.
THEOREM RefusedInTime == Spec => []RefusedAtHeader
<1>1. FramingInv => RefusedAtHeader
  <2> SUFFICES ASSUME FramingInv PROVE RefusedAtHeader
    OBVIOUS
  <2>1. PICK k : Kept(k)
    BY DEF FramingInv
  <2>2. thrown <=> Refused(Bounds(sent.frames), sent.frames, sent.bad, delivered)
    BY <2>1 DEF Kept
  <2>3. Len(sent.frames) \in Nat
    <3>1. Layout(Stream, Bounds(sent.frames), sent.frames, sent.bad)
      BY StreamLayout DEF FramingInv
    <3> QED
      BY <3>1, LayoutTypes
  <2>4. Bounds(sent.frames)[Len(sent.frames)] = Len(FrameBytes(sent.frames, Len(sent.frames)))
    BY <2>3 DEF Bounds
  <2> QED
    BY <2>2, <2>4, Zenon DEF Refused, RefusedAtHeader, HeaderLen
<1> QED
  BY <1>1, FramingAlways, PTL

-----------------------------------------------------------------------------
(* Numbers and their bytes.                                                *)

\* A group of seven bits.
Group == 0 .. 127

\* The numbers of 64 bits: no zeros at the end, and of the tenth digit one bit.
U64 ==
  {d \in Seq(Group) :
     /\ Len(d) \in 0 .. 10
     /\ d # <<>> => d[Len(d)] # 0
     /\ Len(d) = 10 => d[10] = 1}

LEMMA MaxIs ==
  ASSUME NEW S, S \subseteq Nat, NEW k \in S, \A y \in S : y <= k
  PROVE  Max(S) = k
<1>1. k \in S /\ \A y \in S : k >= y
  OBVIOUS
<1>2. ASSUME NEW x \in S, \A y \in S : x >= y PROVE x = k
  BY <1>1, <1>2
<1> QED
  BY <1>1, <1>2 DEF Max

LEMMA MinOf ==
  ASSUME NEW a \in Nat, NEW b \in Nat
  PROVE  Min({a, b}) = IF a <= b THEN a ELSE b
<1> DEFINE k == IF a <= b THEN a ELSE b
<1>1. k \in {a, b} /\ \A y \in {a, b} : k <= y
  OBVIOUS
<1>2. ASSUME NEW x \in {a, b}, \A y \in {a, b} : x <= y PROVE x = k
  BY <1>2
<1> HIDE DEF k
<1>3. Min({a, b}) = k
  BY <1>1, <1>2 DEF Min
<1> QED
  BY <1>3 DEF k

\* What is left of digits when all after the k-th are zeros.
LEMMA TrimTo ==
  ASSUME NEW x, Len(x) \in Nat, DOMAIN x = 1 .. Len(x),
         NEW k \in 0 .. Len(x), k = 0 \/ x[k] # 0, \A i \in k + 1 .. Len(x) : x[i] = 0
  PROVE  Trim(x) = SubSeq(x, 1, k)
<1> DEFINE S == {0} \cup {i \in DOMAIN x : x[i] # 0}
<1>1. S \subseteq Nat /\ k \in S /\ \A y \in S : y <= k
  OBVIOUS
<1> HIDE DEF S
<1>2. Max(S) = k
  BY <1>1, MaxIs
<1> QED
  BY <1>2 DEF Trim, S

LEMMA VarintBytes ==
  ASSUME NEW d \in U64
  PROVE  /\ VarintBig(d) \in Seq(Nat)
         /\ Len(VarintBig(d)) \in 1 .. 10
         /\ VarintBig(d)[Len(VarintBig(d))] < 128
         /\ \A i \in 1 .. Len(VarintBig(d)) - 1 : VarintBig(d)[i] >= 128
         /\ d # <<>> => /\ Len(VarintBig(d)) = Len(d)
                        /\ \A i \in 1 .. Len(d) : VarintBig(d)[i] % 128 = d[i]
         /\ d = <<>> => VarintBig(d) = <<0>>
<1>0. /\ d \in Seq(Group) /\ Len(d) \in 0 .. 10 /\ DOMAIN d = 1 .. Len(d)
      /\ \A i \in 1 .. Len(d) : d[i] \in 0 .. 127
  <2>1. d \in Seq(Group) /\ Len(d) \in 0 .. 10
    BY DEF U64
  <2>2. Len(d) \in Nat /\ DOMAIN d = 1 .. Len(d)
    BY <2>1, LenProperties
  <2>3. \A i \in 1 .. Len(d) : d[i] \in 0 .. 127
    BY <2>1, ElementOfSeq DEF Group
  <2> QED
    BY <2>1, <2>2, <2>3, Zenon
<1>1. CASE d = <<>>
  <2> DEFINE v == <<0>>
  <2>1. VarintBig(d) = v
    BY <1>1 DEF VarintBig
  <2>2. v \in Seq(Nat) /\ Len(v) = 1 /\ v[1] = 0
    OBVIOUS
  <2> HIDE DEF v
  <2>3. \A i \in 1 .. Len(v) - 1 : FALSE
    BY <2>2
  <2>4. Len(v) \in 1 .. 10 /\ v[Len(v)] < 128
    BY <2>2
  <2>5. /\ VarintBig(d) \in Seq(Nat) /\ Len(VarintBig(d)) \in 1 .. 10
        /\ VarintBig(d)[Len(VarintBig(d))] < 128
        /\ \A i \in 1 .. Len(VarintBig(d)) - 1 : VarintBig(d)[i] >= 128
        /\ VarintBig(d) = v
    BY <2>1, <2>2, <2>3, <2>4, Zenon
  <2> QED
    BY <1>1, <2>5 DEF v
<1>2. CASE d # <<>>
  <2> DEFINE n == Len(d)
             v == [i \in 1 .. n |-> IF i < n THEN d[i] + 128 ELSE d[i]]
  <2>0. n \in 1 .. 10 /\ \A i \in 1 .. n : d[i] \in 0 .. 127
    <3>1. Len(d) # 0
      BY <1>0, <1>2, EmptySeq
    <3>2. \A k \in 0 .. 10 : k # 0 => k \in 1 .. 10
      OBVIOUS
    <3> QED
      BY <1>0, <3>1, <3>2, Zenon
  <2>1. VarintBig(d) = v
    BY <1>0, <1>2, Zenon DEF VarintBig
  <2> HIDE DEF n
  <2>2. \A i \in 1 .. n : v[i] = IF i < n THEN d[i] + 128 ELSE d[i]
    OBVIOUS
  <2>3. v \in Seq(Nat) /\ Len(v) = n
    <3>1. \A i \in 1 .. n : (IF i < n THEN d[i] + 128 ELSE d[i]) \in Nat
      BY <2>0
    <3>2. v \in [1 .. n -> Nat]
      BY <3>1
    <3> HIDE DEF v
    <3> QED
      BY <2>0, <3>2, SeqDef
  <2> HIDE DEF v
  <2>4. /\ \A i \in 1 .. n - 1 : v[i] = d[i] + 128 /\ d[i] \in 0 .. 127
        /\ v[n] = d[n] /\ d[n] \in 0 .. 127
    BY <2>0, <2>2
  <2>5. \A i \in 1 .. n : v[i] % 128 = d[i]
    <3>1. \A x \in 0 .. 127 : x % 128 = x /\ (x + 128) % 128 = x
      OBVIOUS
    <3>2. \A i \in 1 .. n : i = n \/ i \in 1 .. n - 1
      BY <2>0
    <3> QED
      BY <2>4, <3>1, <3>2
  <2>6. v[Len(v)] < 128 /\ (\A i \in 1 .. Len(v) - 1 : v[i] >= 128) /\ Len(v) \in 1 .. 10
    <3>1. v[n] < 128
      BY <2>4
    <3>2. \A i \in 1 .. n - 1 : v[i] >= 128
      BY <2>4
    <3> QED
      BY <2>0, <2>3, <3>1, <3>2
  <2>7. n = Len(d)
    BY DEF n
  <2> QED
    BY <1>2, <2>1, <2>3, <2>5, <2>6, <2>7
<1> QED
  BY <1>1, <1>2

\* The bytes stand in the buffer from the position on.
StandsAt(buf, pos, bytes) ==
  /\ pos \in Nat \ {0}
  /\ pos + Len(bytes) <= Len(buf) + 1
  /\ \A i \in 1 .. Len(bytes) : buf[pos + i - 1] = bytes[i]

\* A number of up to 64 bits is read as it was written, wherever it stands.
LEMMA ReadVarintBack ==
  ASSUME NEW d \in U64, NEW buf \in Seq(Nat), NEW pos, StandsAt(buf, pos, VarintBig(d))
  PROVE  ReadVarint(buf, pos) = {Got(d, pos + Len(VarintBig(d)))}
<1> DEFINE v == VarintBig(d)
           n == Len(v)
           e == pos + n - 1
           x == [i \in 1 .. n |-> buf[pos + i - 1] % 128]
<1>1. /\ n \in 1 .. 10 /\ v[n] < 128 /\ \A i \in 1 .. n - 1 : v[i] >= 128
      /\ d # <<>> => n = Len(d) /\ \A i \in 1 .. Len(d) : v[i] % 128 = d[i]
      /\ d = <<>> => v = <<0>>
  BY VarintBytes
<1>2. /\ pos \in Nat \ {0} /\ pos + n <= Len(buf) + 1 /\ Len(buf) \in Nat
      /\ \A i \in 1 .. n : buf[pos + i - 1] = v[i]
  BY LenProperties DEF StandsAt
<1>0. d \in Seq(Group) /\ (d # <<>> => d[Len(d)] # 0) /\ (Len(d) = 10 => d[10] = 1)
  BY DEF U64
<1> HIDE DEF v, n
<1>3. {i \in pos .. Len(buf) : buf[i] < 128 /\ \A j \in pos .. i - 1 : buf[j] >= 128} = {e}
  <2>1. e \in pos .. Len(buf) /\ buf[e] < 128
    BY <1>1, <1>2
  <2>2. ASSUME NEW j \in pos .. e - 1 PROVE buf[j] >= 128
    <3> DEFINE i == j - pos + 1
    <3>1. i \in 1 .. n - 1 /\ i \in 1 .. n /\ pos + i - 1 = j
      BY <1>1, <1>2
    <3> HIDE DEF i
    <3>2. buf[pos + i - 1] = v[i] /\ v[i] >= 128
      BY <1>1, <1>2, <3>1
    <3> QED
      BY <3>1, <3>2
  <2>3. ASSUME NEW i \in pos .. Len(buf), buf[i] < 128, \A j \in pos .. i - 1 : buf[j] >= 128
        PROVE  i = e
    <3>1. ASSUME i < e PROVE FALSE
      <4>1. i \in pos .. e - 1
        BY <1>1, <1>2, <3>1
      <4>2. buf[i] >= 128 /\ buf[i] \in Nat
        BY <1>2, <2>2, <4>1
      <4> QED
        BY <2>3, <4>2
    <3>2. ASSUME e < i PROVE FALSE
      <4>1. e \in pos .. i - 1 /\ buf[e] \in Nat
        BY <1>1, <1>2, <2>1, <3>2
      <4> QED
        BY <2>1, <2>3, <4>1
    <3> QED
      BY <1>1, <1>2, <3>1, <3>2
  <2> HIDE DEF e
  <2> QED
    BY <2>1, <2>2, <2>3
<1>4. \A i \in 1 .. n : x[i] = v[i] % 128
  BY <1>2
<1>5. Len(x) = n /\ DOMAIN x = 1 .. n
  BY <1>1
<1>6. Masked(x) = d
  <2> DEFINE y == [i \in 1 .. n |-> IF i = 10 THEN x[i] % 2 ELSE x[i]]
  <2>1. Masked(x) = Trim(y)
    <3>1. Min({Len(x), 10}) = n
      BY <1>1, <1>5, MinOf
    <3> HIDE DEF x
    <3> QED
      BY <3>1 DEF Masked
  <2>2. Len(y) = n /\ DOMAIN y = 1 .. n
    BY <1>1
  <2>3. CASE d = <<>>
    <3>1. n = 1 /\ v[1] = 0
      BY <1>1, <2>3 DEF n
    <3>2. y[1] = 0
      <4>1. x[1] = 0 /\ 1 \in 1 .. n
        BY <1>4, <3>1
      <4> HIDE DEF x
      <4> QED
        BY <4>1
    <3>3. Len(y) \in Nat /\ DOMAIN y = 1 .. Len(y) /\ 0 \in 0 .. Len(y)
            /\ \A i \in 0 + 1 .. Len(y) : y[i] = 0
      BY <2>2, <3>1, <3>2
    <3> HIDE DEF y
    <3>4. Trim(y) = SubSeq(y, 1, 0)
      BY <3>3, TrimTo
    <3>5. SubSeq(y, 1, 0) = <<>>
      BY SubSeqEmpty
    <3> QED
      BY <2>1, <2>3, <3>4, <3>5
  <2>4. CASE d # <<>>
    <3>1. n = Len(d) /\ d \in Seq(Group) /\ n \in 1 .. 10
      BY <1>0, <1>1, <2>4
    <3>2. \A i \in 1 .. n : x[i] = d[i]
      BY <1>1, <1>4, <2>4
    <3>3. ASSUME NEW i \in 1 .. n PROVE y[i] = d[i]
      <4>1. CASE i = 10
        <5>1. n = 10
          BY <3>1, <4>1
        <5>2. x[i] = 1 /\ d[i] = 1
          BY <1>0, <3>1, <3>2, <4>1, <5>1
        <5> HIDE DEF x
        <5> QED
          BY <4>1, <5>2
      <4>2. CASE i # 10
        <5> HIDE DEF x
        <5> QED
          BY <3>2, <4>2
      <4> QED
        BY <4>1, <4>2
    <3>4. y = d
      <4>1. DOMAIN d = 1 .. n /\ d = [i \in 1 .. n |-> d[i]]
        BY <3>1, LenProperties
      <4>2. y = [i \in 1 .. n |-> y[i]]
        OBVIOUS
      <4> HIDE DEF y
      <4> QED
        BY <3>3, <4>1, <4>2
    <3> HIDE DEF y
    <3>5. Len(d) \in Nat /\ DOMAIN d = 1 .. Len(d) /\ Len(d) \in 0 .. Len(d) /\ d[Len(d)] # 0
            /\ \A i \in Len(d) + 1 .. Len(d) : d[i] = 0
      BY <1>0, <2>4, <3>1, LenProperties
    <3>6. Trim(d) = SubSeq(d, 1, Len(d))
      BY <3>5, TrimTo
    <3>7. SubSeq(d, 1, Len(d)) = d
      BY <3>1, SubSeqFull
    <3> QED
      BY <2>1, <3>4, <3>6, <3>7
  <2> QED
    BY <2>3, <2>4
<1>7. e - pos + 1 = n /\ e + 1 = pos + n
  BY <1>1, <1>2
<1> HIDE DEF e, x
<1>8. ReadVarint(buf, pos) =
        {Got(Masked([i \in 1 .. last - pos + 1 |-> buf[pos + i - 1] % 128]), last + 1) :
            last \in {e}}
  BY <1>3, Zenon DEF ReadVarint
<1>9. ReadVarint(buf, pos) = {Got(Masked(x), e + 1)}
  BY <1>7, <1>8 DEF x
<1> QED
  BY <1>6, <1>7, <1>9 DEF n, v

\* A number that the end of the buffer cuts short is not read.
LEMMA ReadVarintTorn ==
  ASSUME NEW d \in U64, NEW buf \in Seq(Nat), NEW pos \in Nat \ {0},
         Len(buf) + 1 < pos + Len(VarintBig(d)),
         \A i \in 1 .. Len(buf) + 1 - pos : buf[pos + i - 1] = VarintBig(d)[i]
  PROVE  ReadVarint(buf, pos) = {}
<1> DEFINE v == VarintBig(d)
<1>1. Len(v) \in 1 .. 10 /\ \A i \in 1 .. Len(v) - 1 : v[i] >= 128
  BY VarintBytes
<1>2. Len(buf) \in Nat
  OBVIOUS
<1>3. ASSUME NEW j \in pos .. Len(buf) PROVE ~(buf[j] < 128)
  <2> DEFINE i == j - pos + 1
  <2>1. i \in 1 .. Len(buf) + 1 - pos /\ i \in 1 .. Len(v) - 1 /\ pos + i - 1 = j
    BY <1>1, <1>2, SMTT(30)
  <2> HIDE DEF i
  <2>2. buf[pos + i - 1] = v[i] /\ v[i] >= 128 /\ buf[j] \in Nat
    BY <1>1, <2>1
  <2> QED
    BY <2>1, <2>2, SMTT(30)
<1> QED
  BY <1>3 DEF ReadVarint

\* Five digits without the zeros at the end are the same five digits.
LEMMA TrimDigits ==
  ASSUME NEW x \in [1 .. 5 -> Group]
  PROVE  /\ Trim(x) \in U64
         /\ Len(Trim(x)) \in 0 .. 5
         /\ \A i \in 1 .. 5 : Digit(Trim(x), i) = x[i]
         /\ x[5] = 0 => Len(Trim(x)) \in 0 .. 4
<1>1. x \in Seq(Group) /\ Len(x) = 5 /\ DOMAIN x = 1 .. 5 /\ \A i \in 1 .. 5 : x[i] \in Group
  <2>1. x \in Seq(Group) /\ DOMAIN x = 1 .. 5
    BY SeqDef
  <2>2. Len(x) = 5
    BY <2>1, LenProperties
  <2> QED
    BY <2>1, <2>2
<1> DEFINE S == {0} \cup {i \in 1 .. 5 : x[i] # 0}
<1>2. PICK k \in S : \A y \in S : y <= k
  <2>1. S \subseteq 0 .. 5 /\ S # {} /\ 5 \in Nat
    OBVIOUS
  <2> HIDE DEF S
  <2> QED
    BY <2>1, Greatest
<1>3. k \in 0 .. 5 /\ (k = 0 \/ x[k] # 0) /\ \A i \in k + 1 .. 5 : x[i] = 0
  <2>1. k \in 0 .. 5 /\ (k = 0 \/ x[k] # 0)
    OBVIOUS
  <2>2. ASSUME NEW i \in k + 1 .. 5, x[i] # 0 PROVE FALSE
    <3>1. i \in 1 .. 5 /\ ~(i <= k)
      BY <2>1
    <3>2. i \in S
      BY <2>2, <3>1
    <3> QED
      BY <1>2, <3>1, <3>2
  <2> QED
    BY <2>1, <2>2
<1> HIDE DEF S
<1> DEFINE t == SubSeq(x, 1, k)
<1>4. Trim(x) = t
  <2>1. /\ Len(x) \in Nat /\ DOMAIN x = 1 .. Len(x) /\ k \in 0 .. Len(x)
        /\ \A i \in k + 1 .. Len(x) : x[i] = 0
    BY <1>1, <1>3
  <2> QED
    BY <1>3, <2>1, TrimTo, Zenon
<1>5. /\ t \in Seq(Group) /\ Len(t) = k /\ DOMAIN t = 1 .. k
      /\ \A i \in 1 .. k : t[i] = x[i]
  <2>1. k \in Int /\ 1 \in Int /\ (IF 1 <= k THEN k - 1 + 1 ELSE 0) = k /\ k - 1 + 1 = k
          /\ \A i \in 1 .. k : i \in 1 .. 5 /\ 1 + i - 1 = i
    BY <1>3
  <2>2. \A i \in 1 .. k : x[i] \in Group
    BY <1>1, <2>1
  <2>3. /\ t \in Seq(Group)
        /\ Len(t) = IF 1 <= k THEN k - 1 + 1 ELSE 0
        /\ \A i \in 1 .. k - 1 + 1 : t[i] = x[1 + i - 1]
    BY <2>1, <2>2, SubSeqProperties
  <2>4. Len(t) = k /\ \A i \in 1 .. k : t[i] = x[i]
    BY <2>1, <2>3
  <2>5. DOMAIN t = 1 .. k
    BY <2>3, <2>4, LenProperties
  <2> QED
    BY <2>3, <2>4, <2>5
<1> HIDE DEF t
<1>6. t \in U64
  <2>1. k \in 0 .. 10 /\ k # 10
    BY <1>3
  <2>2. t # <<>> => t[k] # 0
    <3>1. ASSUME t # <<>> PROVE k # 0
      BY <1>5, <3>1, EmptySeq
    <3>2. ASSUME k # 0 PROVE t[k] # 0
      <4>1. k \in 1 .. k
        BY <1>3, <3>2
      <4> QED
        BY <1>3, <1>5, <3>2, <4>1
    <3> QED
      BY <3>1, <3>2
  <2> QED
    BY <1>5, <2>1, <2>2 DEF U64
<1>7. ASSUME NEW i \in 1 .. 5 PROVE Digit(t, i) = x[i]
  <2>1. CASE i <= k
    <3>1. i \in 1 .. k
      BY <1>3, <2>1
    <3> QED
      BY <1>5, <3>1 DEF Digit
  <2>2. CASE ~(i <= k)
    <3>1. i \in k + 1 .. 5 /\ i \notin 1 .. k
      BY <1>3, <2>2
    <3> QED
      BY <1>3, <1>5, <3>1 DEF Digit
  <2> QED
    BY <2>1, <2>2
<1>8. ASSUME x[5] = 0 PROVE k \in 0 .. 4
  BY <1>3, <1>8
<1> QED
  BY <1>3, <1>4, <1>5, <1>6, <1>7, <1>8

\* A number of 32 bits.
Fits32(n) == n \div 268435456 < 16

\* The digits of a number below 2^32, and what the digits of one below 2^28 make up.
LEMMA DigitsOf ==
  ASSUME NEW n \in Nat, Fits32(n)
  PROVE  /\ Digits(n) \in U64
         /\ Len(Digits(n)) \in 0 .. 5
         /\ Digit(Digits(n), 1) = n % 128
         /\ Digit(Digits(n), 2) = (n \div 128) % 128
         /\ Digit(Digits(n), 3) = (n \div 16384) % 128
         /\ Digit(Digits(n), 4) = (n \div 2097152) % 128
         /\ Digit(Digits(n), 5) = n \div 268435456
         /\ n < AboveAnyLength => Len(Digits(n)) \in 0 .. 4
<1> DEFINE x == [i \in 1 .. 5 |-> (n \div Worth[i]) % 128]
<1>1. /\ x[1] = (n \div 1) % 128 /\ x[2] = (n \div 128) % 128 /\ x[3] = (n \div 16384) % 128
      /\ x[4] = (n \div 2097152) % 128 /\ x[5] = (n \div 268435456) % 128
  BY SMT DEF Worth
<1>2. /\ (n \div 1) % 128 \in Group /\ (n \div 128) % 128 \in Group
      /\ (n \div 16384) % 128 \in Group /\ (n \div 2097152) % 128 \in Group
      /\ (n \div 268435456) % 128 \in Group
  BY SMT DEF Group
<1>3. x \in [1 .. 5 -> Group]
  <2>1. \A i \in 1 .. 5 : i = 1 \/ i = 2 \/ i = 3 \/ i = 4 \/ i = 5
    OBVIOUS
  <2>2. x = [i \in 1 .. 5 |-> x[i]]
    OBVIOUS
  <2> HIDE DEF x
  <2>3. \A i \in 1 .. 5 : x[i] \in Group
    BY <1>1, <1>2, <2>1, SMT
  <2> QED
    BY <2>2, <2>3
<1>4. (n \div 1) % 128 = n % 128 /\ (n \div 268435456) % 128 = n \div 268435456
  BY SMT DEF Fits32
<1>5. n < AboveAnyLength => n \div 268435456 = 0
  BY SMT DEF AboveAnyLength
<1>6. Digits(n) = Trim(x)
  BY DEF Digits
<1>7. 1 \in 1 .. 5 /\ 2 \in 1 .. 5 /\ 3 \in 1 .. 5 /\ 4 \in 1 .. 5 /\ 5 \in 1 .. 5
  OBVIOUS
<1> HIDE DEF x
<1>8. /\ Trim(x) \in U64
      /\ Len(Trim(x)) \in 0 .. 5
      /\ \A i \in 1 .. 5 : Digit(Trim(x), i) = x[i]
      /\ x[5] = 0 => Len(Trim(x)) \in 0 .. 4
  BY <1>3, TrimDigits
<1>9. n < AboveAnyLength => Len(Trim(x)) \in 0 .. 4
  BY <1>1, <1>4, <1>5, <1>8, SMT
<1> QED
  BY <1>1, <1>4, <1>6, <1>7, <1>8, <1>9, SMT

LEMMA NumberBack ==
  ASSUME NEW n \in Nat, n < AboveAnyLength
  PROVE  Digits(n) \in U64 /\ Number(Digits(n)) = n
<1>1. Fits32(n)
  BY SMT DEF AboveAnyLength, Fits32
<1>2. Len(Digits(n)) \in 0 .. 4 /\ Digits(n) \in U64
  BY <1>1, DigitsOf
<1>3. \A k \in 0 .. 4 : ~(k > 4)
  OBVIOUS
<1>4. Number(Digits(n)) =
        (n % 128) + 128 * ((n \div 128) % 128) + 16384 * ((n \div 16384) % 128)
          + 2097152 * ((n \div 2097152) % 128)
  <2>1. ~(Len(Digits(n)) > 4)
    BY <1>2, <1>3
  <2>2. /\ Digit(Digits(n), 1) = n % 128
        /\ Digit(Digits(n), 2) = (n \div 128) % 128
        /\ Digit(Digits(n), 3) = (n \div 16384) % 128
        /\ Digit(Digits(n), 4) = (n \div 2097152) % 128
    BY <1>1, DigitsOf, SMT
  <2> QED
    BY <2>1, <2>2, SMT DEF Number
<1>5. (n % 128) + 128 * ((n \div 128) % 128) + 16384 * ((n \div 16384) % 128)
          + 2097152 * ((n \div 2097152) % 128) = n
  <2> DEFINE a == n \div 128
             b == a \div 128
             c == b \div 128
  <2>1. n \div 16384 = b /\ n \div 2097152 = c
    BY SMTT(30)
  <2>2. n = (n % 128) + 128 * a /\ a = (a % 128) + 128 * b /\ b = (b % 128) + 128 * c
    BY SMT
  <2>3. c % 128 = c
    BY <2>1, SMT DEF AboveAnyLength
  <2>5. /\ n % 128 \in Int /\ a % 128 \in Int /\ b % 128 \in Int
        /\ a \in Int /\ b \in Int /\ c \in Int
    BY SMT
  <2> HIDE DEF a, b, c
  <2>4. (n % 128) + 128 * (a % 128) + 16384 * (b % 128) + 2097152 * (c % 128) = n
    <3> DEFINE na == n % 128
               aa == a % 128
               bb == b % 128
    <3>1. na \in Int /\ aa \in Int /\ bb \in Int /\ n = na + 128 * a /\ a = aa + 128 * b
          /\ b = bb + 128 * c
      BY <2>2, <2>5, SMT
    <3> HIDE DEF na, aa, bb
    <3>2. na + 128 * aa + 16384 * bb + 2097152 * c = n
      BY <2>5, <3>1, SMT
    <3> QED
      BY <2>3, <3>2, SMT DEF na, aa, bb
  <2> QED
    BY <2>1, <2>4, SMT DEF a
<1> QED
  BY <1>2, <1>4, <1>5, SMT

\* The number of a number is one.
LEMMA NumberType ==
  ASSUME NEW d \in Seq(Nat)
  PROVE  Number(d) \in Nat
<1>1. \A i : Digit(d, i) \in Nat
  <2>1. DOMAIN d = 1 .. Len(d) /\ \A i \in 1 .. Len(d) : d[i] \in Nat
    BY LenProperties, ElementOfSeq
  <2> QED
    BY <2>1 DEF Digit
<1>2. \A a, b, c, e \in Nat : a + 128 * b + 16384 * c + 2097152 * e \in Nat
  OBVIOUS
<1>3. AboveAnyLength \in Nat
  BY DEF AboveAnyLength
<1> QED
  BY <1>1, <1>2, <1>3 DEF Number

\* The numbers a field may have.
FieldNumbers == {no \in Nat : no # 0 /\ no < 536870912}

\* A key says which field and how it is written.
LEMMA KeyBack ==
  ASSUME NEW no \in FieldNumbers, NEW wireType \in 0 .. 7
  PROVE  /\ Digits(8 * no + wireType) \in U64
         /\ FieldNo(Digits(8 * no + wireType)) = no
         /\ WireType(Digits(8 * no + wireType)) = wireType
<1> DEFINE n == 8 * no + wireType
<1>1. n \in Nat /\ Fits32(n) /\ n \div 8 = no /\ n % 8 = wireType
  <2>1. no \in Nat /\ n \in Nat
    BY SMT DEF FieldNumbers
  <2>2. n \div 8 = no /\ n % 8 = wireType
    BY <2>1, SMT
  <2>3. n \div 268435456 < 16
    BY SMT DEF FieldNumbers
  <2> QED
    BY <2>1, <2>2, <2>3, SMT DEF Fits32
<1> HIDE DEF n
<1>2. /\ Digits(n) \in U64
      /\ Digit(Digits(n), 1) = n % 128
      /\ Digit(Digits(n), 2) = (n \div 128) % 128
      /\ Digit(Digits(n), 3) = (n \div 16384) % 128
      /\ Digit(Digits(n), 4) = (n \div 2097152) % 128
      /\ Digit(Digits(n), 5) = n \div 268435456
  BY <1>1, DigitsOf, SMT
<1>3. (n % 128) % 8 = n % 8
  BY <1>1
<1>4. ((n % 128) \div 8) + 16 * ((n \div 128) % 128) + 2048 * ((n \div 16384) % 128)
        + 262144 * ((n \div 2097152) % 128) + 33554432 * ((n \div 268435456) % 16) = n \div 8
  <2> DEFINE a == n \div 128
             b == a \div 128
             c == b \div 128
             e == c \div 128
  <2>1. a \in Nat /\ b \in Nat /\ c \in Nat /\ e \in Nat
    BY <1>1
  <2>2. n \div 16384 = b
    BY <1>1, SMTT(30)
  <2>3. n \div 2097152 = c
    BY <1>1, SMTT(30)
  <2>4. n \div 268435456 = e
    BY <1>1, SMTT(30)
  <2>5. a = (a % 128) + 128 * b /\ b = (b % 128) + 128 * c /\ c = (c % 128) + 128 * e
    BY <2>1
  <2>6. e % 16 = e
    BY <1>1, <2>1, <2>4, SMT DEF Fits32
  <2>7. n \div 8 = ((n % 128) \div 8) + 16 * a
    BY <1>1, SMTT(30)
  <2> HIDE DEF a, b, c, e
  <2>8. n \div 8 = ((n % 128) \div 8) + 16 * (a % 128) + 2048 * (b % 128) + 262144 * (c % 128)
                     + 33554432 * (e % 16)
    <3> DEFINE m == n \div 8
               na == (n % 128) \div 8
               aa == a % 128
               bb == b % 128
               cc == c % 128
    <3>1. /\ m = na + 16 * a /\ a = aa + 128 * b /\ b = bb + 128 * c /\ c = cc + 128 * e
          /\ m \in Int /\ na \in Int /\ aa \in Int /\ bb \in Int /\ cc \in Int
      BY <1>1, <2>1, <2>5, <2>7, SMT
    <3> HIDE DEF m, na, aa, bb, cc
    <3>2. m = na + 16 * aa + 2048 * bb + 262144 * cc + 33554432 * e
      BY <2>1, <3>1, SMT
    <3> QED
      BY <2>6, <3>2, SMT DEF m, na, aa, bb, cc
  <2> QED
    BY <2>2, <2>3, <2>4, <2>8, SMT DEF a
<1>5. FieldNo(Digits(n)) = no
  <2>1. FieldNo(Digits(n)) =
          ((n % 128) \div 8) + 16 * ((n \div 128) % 128) + 2048 * ((n \div 16384) % 128)
            + 262144 * ((n \div 2097152) % 128) + 33554432 * ((n \div 268435456) % 16)
    BY <1>2, SMT DEF FieldNo
  <2> QED
    BY <1>1, <1>4, <2>1, SMT
<1>6. WireType(Digits(n)) = wireType
  BY <1>1, <1>2, <1>3, SMT DEF WireType
<1> QED
  BY <1>2, <1>5, <1>6 DEF n

-----------------------------------------------------------------------------
(* Fields and their bytes.                                                 *)

\* The buffer ends within the bytes, which stand from the position on.
TornAt(buf, pos, bytes) ==
  /\ pos \in Nat \ {0}
  /\ pos <= Len(buf) + 1
  /\ Len(buf) + 1 < pos + Len(bytes)
  /\ \A i \in 1 .. Len(buf) + 1 - pos : buf[pos + i - 1] = bytes[i]

LEMMA StandsInParts ==
  ASSUME NEW a \in Seq(Nat), NEW b \in Seq(Nat), NEW buf \in Seq(Nat), NEW pos,
         StandsAt(buf, pos, a \o b)
  PROVE  StandsAt(buf, pos, a) /\ StandsAt(buf, pos + Len(a), b)
<1> DEFINE m == Len(a)
           n == Len(b)
           N == Len(buf)
           c == a \o b
<1>1. /\ m \in Nat /\ n \in Nat /\ N \in Nat /\ Len(c) = m + n
      /\ \A i \in 1 .. m + n : c[i] = IF i <= m THEN a[i] ELSE b[i - m]
  BY ConcatProperties, LenProperties
<1>2. /\ pos \in Nat \ {0} /\ pos + (m + n) <= N + 1
      /\ \A i \in 1 .. m + n : buf[pos + i - 1] = c[i]
  BY <1>1 DEF StandsAt
<1> HIDE DEF m, n, N, c
<1>3. ASSUME NEW i \in 1 .. m PROVE buf[pos + i - 1] = a[i]
  BY <1>1, <1>2
<1>4. ASSUME NEW i \in 1 .. n PROVE buf[pos + m + i - 1] = b[i]
  <2> DEFINE j == m + i
  <2>1. j \in 1 .. m + n /\ ~(j <= m) /\ j - m = i /\ pos + j - 1 = pos + m + i - 1
    BY <1>1, <1>2
  <2> HIDE DEF j
  <2>2. buf[pos + j - 1] = b[j - m]
    BY <1>1, <1>2, <2>1
  <2> QED
    BY <2>1, <2>2
<1>5. pos + m \in Nat \ {0} /\ pos + m <= N + 1 /\ pos + m + n <= N + 1
  BY <1>1, <1>2
<1> QED
  BY <1>2, <1>3, <1>4, <1>5 DEF StandsAt, m, n, N

LEMMA TornInParts ==
  ASSUME NEW a \in Seq(Nat), NEW b \in Seq(Nat), NEW buf \in Seq(Nat), NEW pos,
         TornAt(buf, pos, a \o b)
  PROVE  TornAt(buf, pos, a) \/ (StandsAt(buf, pos, a) /\ TornAt(buf, pos + Len(a), b))
<1> DEFINE m == Len(a)
           n == Len(b)
           N == Len(buf)
           c == a \o b
<1>1. /\ m \in Nat /\ n \in Nat /\ N \in Nat /\ Len(c) = m + n
      /\ \A i \in 1 .. m + n : c[i] = IF i <= m THEN a[i] ELSE b[i - m]
  BY ConcatProperties, LenProperties
<1>2. /\ pos \in Nat \ {0} /\ pos <= N + 1 /\ N + 1 < pos + (m + n)
      /\ \A i \in 1 .. N + 1 - pos : buf[pos + i - 1] = c[i]
  BY <1>1 DEF TornAt
<1> HIDE DEF m, n, N, c
<1>3. CASE N + 1 < pos + m
  <2>1. ASSUME NEW i \in 1 .. N + 1 - pos PROVE buf[pos + i - 1] = a[i]
    <3>1. i \in 1 .. m + n /\ i <= m
      BY <1>1, <1>2, <1>3
    <3> QED
      BY <1>1, <1>2, <3>1
  <2> QED
    BY <1>2, <1>3, <2>1 DEF TornAt, m, n, N
<1>4. CASE ~(N + 1 < pos + m)
  <2>1. ASSUME NEW i \in 1 .. m PROVE buf[pos + i - 1] = a[i]
    <3>1. i \in 1 .. m + n /\ i <= m /\ i \in 1 .. N + 1 - pos
      BY <1>1, <1>2, <1>4
    <3> QED
      BY <1>1, <1>2, <3>1
  <2>2. ASSUME NEW i \in 1 .. N + 1 - (pos + m) PROVE buf[pos + m + i - 1] = b[i]
    <3> DEFINE j == m + i
    <3>1. j \in 1 .. m + n /\ ~(j <= m) /\ j - m = i /\ pos + j - 1 = pos + m + i - 1
            /\ j \in 1 .. N + 1 - pos
      BY <1>1, <1>2, <1>4
    <3> HIDE DEF j
    <3>2. buf[pos + j - 1] = b[j - m]
      BY <1>1, <1>2, <3>1
    <3> QED
      BY <3>1, <3>2
  <2>3. /\ pos + m \in Nat \ {0} /\ pos + m <= N + 1 /\ N + 1 < pos + m + n
    BY <1>1, <1>2, <1>4
  <2> QED
    BY <1>2, <2>1, <2>2, <2>3 DEF StandsAt, TornAt, m, n, N
<1> QED
  BY <1>3, <1>4

\* Bytes that a decoder reads as a field wherever they stand; of which, when they are
\* cut short, it reads nothing or a field it does not know and skips.
Piece(varints, lens, bytes, f) ==
  /\ bytes \in Seq(Nat) /\ bytes # <<>>
  /\ \A buf \in Seq(Nat) : \A pos :
       /\ StandsAt(buf, pos, bytes)
            => ReadField(buf, varints, lens, pos) = {Got(f, pos + Len(bytes))}
       /\ TornAt(buf, pos, bytes)
            => \A got \in ReadField(buf, varints, lens, pos) :
                 \E u : u.no \notin varints \cup lens /\ got = Got(u, Len(buf) + 1)

\* What a tag says of the content after it.
ContentIs(varints, lens, no, wireType, content, value) ==
  \A buf \in Seq(Nat) : \A pos :
    /\ StandsAt(buf, pos, content)
         => Content(buf, varints, lens, no, wireType, pos) = {Got(value, pos + Len(content))}
    /\ TornAt(buf, pos, content)
         => \A got \in Content(buf, varints, lens, no, wireType, pos) :
              no \notin varints \cup lens /\ got.next \in Nat /\ got.next > Len(buf)

LEMMA TagRead ==
  ASSUME NEW no \in FieldNumbers, NEW wireType \in 0 .. 7, NEW varints, NEW lens,
         NEW buf \in Seq(Nat), NEW pos
  PROVE  /\ StandsAt(buf, pos, Tag(no, wireType)) =>
              ReadField(buf, varints, lens, pos) =
                {Got([no |-> no, value |-> got.value], Min({got.next, Len(buf) + 1})) :
                   got \in Content(buf, varints, lens, no, wireType, pos + Len(Tag(no, wireType)))}
         /\ TornAt(buf, pos, Tag(no, wireType)) => ReadField(buf, varints, lens, pos) = {}
<1> DEFINE key == Digits(8 * no + wireType)
<1>1. key \in U64 /\ FieldNo(key) = no /\ WireType(key) = wireType
  BY KeyBack
<1>2. Tag(no, wireType) = VarintBig(key)
  BY DEF Tag, Varint
<1> HIDE DEF key
<1>3. ASSUME StandsAt(buf, pos, Tag(no, wireType))
      PROVE  ReadField(buf, varints, lens, pos) =
                {Got([no |-> no, value |-> got.value], Min({got.next, Len(buf) + 1})) :
                   got \in Content(buf, varints, lens, no, wireType, pos + Len(Tag(no, wireType)))}
  <2> DEFINE tag == Got(key, pos + Len(Tag(no, wireType)))
             F(t) == {Got([no |-> FieldNo(t.value), value |-> got.value],
                 Min({got.next, Len(buf) + 1})) :
                        got \in Content(buf, varints, lens, FieldNo(t.value), WireType(t.value),
                            t.next)}
  <2>1. ReadVarint(buf, pos) = {tag}
    BY <1>1, <1>2, <1>3, ReadVarintBack
  <2>2. ReadField(buf, varints, lens, pos) = UNION {F(t) : t \in ReadVarint(buf, pos)}
    BY Zenon DEF ReadField
  <2>3. tag.value = key /\ tag.next = pos + Len(Tag(no, wireType))
    BY DEF Got
  <2> HIDE DEF tag
  <2>4. UNION {F(t) : t \in {tag}} = F(tag)
    <3> HIDE DEF F
    <3> QED
      OBVIOUS
  <2> QED
    BY <1>1, <2>1, <2>2, <2>3, <2>4, Zenon
<1>4. ASSUME TornAt(buf, pos, Tag(no, wireType)) PROVE ReadField(buf, varints, lens, pos) = {}
  <2>1. ReadVarint(buf, pos) = {}
    BY <1>1, <1>2, <1>4, ReadVarintTorn DEF TornAt
  <2> QED
    BY <2>1 DEF ReadField
<1> QED
  BY <1>3, <1>4

LEMMA TagBytes ==
  ASSUME NEW no \in FieldNumbers, NEW wireType \in 0 .. 7
  PROVE  Tag(no, wireType) \in Seq(Nat) /\ Len(Tag(no, wireType)) \in 1 .. 10
  BY KeyBack, VarintBytes DEF Tag, Varint

\* A tag and what it says of the content make a field.
LEMMA PieceOf ==
  ASSUME NEW no \in FieldNumbers, NEW wireType \in 0 .. 7, NEW varints, NEW lens,
         NEW content \in Seq(Nat), NEW value,
         ContentIs(varints, lens, no, wireType, content, value)
  PROVE  Piece(varints, lens, Tag(no, wireType) \o content, [no |-> no, value |-> value])
<1> DEFINE tag == Tag(no, wireType)
           bytes == tag \o content
           f == [no |-> no, value |-> value]
<1>1. tag \in Seq(Nat) /\ Len(tag) \in 1 .. 10 /\ Len(content) \in Nat
  BY TagBytes, LenProperties
<1> HIDE DEF tag
<1>2. bytes \in Seq(Nat) /\ Len(bytes) = Len(tag) + Len(content)
  BY <1>1, ConcatProperties
<1>3. bytes # <<>>
  <2>1. \A a \in 1 .. 10, b \in Nat : a + b # 0
    OBVIOUS
  <2>2. Len(bytes) # 0
    BY <1>1, <1>2, <2>1, Zenon
  <2> QED
    BY <2>2, EmptySeq
<1> HIDE DEF bytes
<1>4. ASSUME NEW buf \in Seq(Nat), NEW pos, StandsAt(buf, pos, bytes)
      PROVE  ReadField(buf, varints, lens, pos) = {Got(f, pos + Len(bytes))}
  <2> DEFINE p == pos + Len(tag)
             q == p + Len(content)
             G(got) == Got([no |-> no, value |-> got.value], Min({got.next, Len(buf) + 1}))
  <2>1. StandsAt(buf, pos, tag) /\ StandsAt(buf, p, content)
    BY <1>1, <1>4, StandsInParts DEF bytes
  <2>2. Content(buf, varints, lens, no, wireType, p) = {Got(value, q)}
    BY <2>1 DEF ContentIs
  <2>3. ReadField(buf, varints, lens, pos) =
          {G(got) : got \in Content(buf, varints, lens, no, wireType, p)}
    BY <2>1, TagRead, Zenon DEF tag
  <2>4. q = pos + Len(bytes) /\ q <= Len(buf) + 1 /\ q \in Nat /\ Len(buf) + 1 \in Nat
    <3>1. /\ pos \in Nat /\ pos + Len(bytes) <= Len(buf) + 1
          /\ Len(buf) \in Nat /\ Len(tag) \in Nat
      BY <1>1, <1>4, LenProperties DEF StandsAt
    <3>2. \A x, y, z, w \in Nat : x + (y + z) <= w + 1 =>
            /\ (x + y) + z = x + (y + z) /\ (x + y) + z <= w + 1
            /\ (x + y) + z \in Nat /\ w + 1 \in Nat
      OBVIOUS
    <3> QED
      BY <1>1, <1>2, <3>1, <3>2
  <2>5. Min({q, Len(buf) + 1}) = q
    <3> HIDE DEF q
    <3> QED
      BY <2>4, MinOf
  <2> HIDE DEF q, p
  <2>6. G(Got(value, q)) = Got(f, q)
    BY <2>5 DEF Got
  <2> HIDE DEF G
  <2>7. ReadField(buf, varints, lens, pos) = {G(Got(value, q))}
    BY <2>2, <2>3
  <2> QED
    BY <2>4, <2>6, <2>7
<1>5. ASSUME NEW buf \in Seq(Nat), NEW pos, TornAt(buf, pos, bytes),
             NEW got \in ReadField(buf, varints, lens, pos)
      PROVE  \E u : u.no \notin varints \cup lens /\ got = Got(u, Len(buf) + 1)
  <2> DEFINE p == pos + Len(tag)
  <2>1. TornAt(buf, pos, tag) \/ (StandsAt(buf, pos, tag) /\ TornAt(buf, p, content))
    BY <1>1, <1>5, TornInParts DEF bytes
  <2>2. CASE TornAt(buf, pos, tag)
    BY <1>5, <2>2, TagRead DEF tag
  <2>3. CASE StandsAt(buf, pos, tag) /\ TornAt(buf, p, content)
    <3>1. ReadField(buf, varints, lens, pos) =
            {Got([no |-> no, value |-> g.value], Min({g.next, Len(buf) + 1})) :
               g \in Content(buf, varints, lens, no, wireType, p)}
      BY <2>3, TagRead, Zenon DEF tag
    <3>2. PICK g \in Content(buf, varints, lens, no, wireType, p) :
            got = Got([no |-> no, value |-> g.value], Min({g.next, Len(buf) + 1}))
      BY <1>5, <3>1
    <3>3. no \notin varints \cup lens /\ g.next \in Nat /\ g.next > Len(buf)
      BY <2>3, <3>2 DEF ContentIs
    <3>4. Len(buf) + 1 \in Nat /\ (g.next <= Len(buf) + 1 => g.next = Len(buf) + 1)
      BY <3>3
    <3>5. Min({g.next, Len(buf) + 1}) = Len(buf) + 1
      BY <3>3, <3>4, MinOf
    <3> DEFINE u == [no |-> no, value |-> g.value]
    <3>6. u.no = no
      OBVIOUS
    <3>7. got = Got(u, Len(buf) + 1)
      BY <3>2, <3>5
    <3> HIDE DEF u
    <3> QED
      BY <3>3, <3>6, <3>7
  <2> QED
    BY <2>1, <2>2, <2>3
<1>6. Piece(varints, lens, bytes, f)
  BY <1>2, <1>3, <1>4, <1>5 DEF Piece
<1> QED
  BY <1>6 DEF bytes, tag

LEMMA VarintContent ==
  ASSUME NEW varints, NEW lens, NEW no, NEW wireType, NEW d \in U64,
         no \in varints \/ (no \notin varints \cup lens /\ wireType = VARINT)
  PROVE  ContentIs(varints, lens, no, wireType, VarintBig(d), d)
<1>1. \A buf, pos : Content(buf, varints, lens, no, wireType, pos) = ReadVarint(buf, pos)
  BY DEF Content, Skip, VARINT, FIXED64, LEN, FIXED32
<1>2. ASSUME NEW buf \in Seq(Nat), NEW pos, StandsAt(buf, pos, VarintBig(d))
      PROVE  Content(buf, varints, lens, no, wireType, pos) = {Got(d, pos + Len(VarintBig(d)))}
  BY <1>1, <1>2, ReadVarintBack
<1>3. ASSUME NEW buf \in Seq(Nat), NEW pos, TornAt(buf, pos, VarintBig(d))
      PROVE  Content(buf, varints, lens, no, wireType, pos) = {}
  BY <1>1, <1>3, ReadVarintTorn DEF TornAt
<1> QED
  BY <1>2, <1>3 DEF ContentIs

\* A length that is written is read with it where it stands, or is torn.
LEMMA LengthRead ==
  ASSUME NEW v \in Seq(Nat), Len(v) < AboveAnyLength, NEW buf \in Seq(Nat), NEW pos
  PROVE  LET length == Varint(Len(v))
             bytes == length \o v
             p == pos + Len(length)
         IN  /\ bytes \in Seq(Nat) /\ Len(bytes) = Len(length) + Len(v) /\ Len(length) \in Nat
             /\ StandsAt(buf, pos, bytes) => StandsAt(buf, p, v)
             /\ TornAt(buf, pos, bytes) =>
                  ReadVarint(buf, pos) = {} \/ (TornAt(buf, p, v) /\ StandsAt(buf, pos, length))
             /\ StandsAt(buf, pos, length) =>
                  \E got : /\ ReadVarint(buf, pos) = {got}
                           /\ got.next = p /\ Number(got.value) = Len(v)
<1> DEFINE n == Len(v)
           d == Digits(n)
           length == Varint(n)
           bytes == length \o v
           p == pos + Len(length)
<1>1. n \in Nat /\ d \in U64 /\ Number(d) = n
  <2>1. n \in Nat
    BY LenProperties
  <2> QED
    BY <2>1, NumberBack
<1>2. length = VarintBig(d)
  BY DEF Varint
<1> HIDE DEF d, n
<1>3. length \in Seq(Nat) /\ Len(length) \in Nat
  BY <1>1, <1>2, VarintBytes
<1> HIDE DEF length
<1>4. bytes \in Seq(Nat) /\ Len(bytes) = Len(length) + Len(v)
  BY <1>3, ConcatProperties
<1>5. StandsAt(buf, pos, bytes) => StandsAt(buf, p, v)
  BY <1>3, StandsInParts
<1>6. TornAt(buf, pos, bytes) =>
        ReadVarint(buf, pos) = {} \/ (TornAt(buf, p, v) /\ StandsAt(buf, pos, length))
  <2>1. ASSUME TornAt(buf, pos, length) PROVE ReadVarint(buf, pos) = {}
    BY <1>1, <1>2, <2>1, ReadVarintTorn DEF TornAt
  <2> QED
    BY <1>3, <2>1, TornInParts
<1>7. ASSUME StandsAt(buf, pos, length)
      PROVE  \E got : /\ ReadVarint(buf, pos) = {got}
                      /\ got.next = p /\ Number(got.value) = n
  <2> DEFINE got == Got(d, p)
  <2>1. ReadVarint(buf, pos) = {got}
    BY <1>1, <1>2, <1>7, ReadVarintBack
  <2>2. got.next = p /\ got.value = d
    BY DEF Got
  <2> HIDE DEF got
  <2> QED
    BY <1>1, <2>1, <2>2
<1> QED
  BY <1>3, <1>4, <1>5, <1>6, <1>7 DEF length, n

LEMMA LenContent ==
  ASSUME NEW varints, NEW lens, NEW no, NEW wireType, no \in lens \ varints,
         NEW v \in Seq(Nat), Len(v) < AboveAnyLength
  PROVE  /\ Varint(Len(v)) \o v \in Seq(Nat)
         /\ ContentIs(varints, lens, no, wireType, Varint(Len(v)) \o v, v)
<1> DEFINE length == Varint(Len(v))
           bytes == length \o v
<1>1. \A buf, pos : Content(buf, varints, lens, no, wireType, pos) = ReadBytes(buf, pos)
  BY DEF Content
<1>2. ASSUME NEW buf \in Seq(Nat), NEW pos, StandsAt(buf, pos, bytes)
      PROVE  ReadBytes(buf, pos) = {Got(v, pos + Len(bytes))}
  <2> DEFINE p == pos + Len(length)
             n == Len(v)
  <2>1. StandsAt(buf, p, v) /\ StandsAt(buf, pos, length) /\ Len(bytes) = Len(length) + n
          /\ Len(length) \in Nat /\ length \in Seq(Nat) /\ pos \in Nat
    <3>1. length \in Seq(Nat)
      <4>1. Digits(Len(v)) \in U64
        BY NumberBack, LenProperties
      <4> QED
        BY <4>1, VarintBytes DEF Varint
    <3> HIDE DEF length
    <3>2. StandsAt(buf, p, v) /\ StandsAt(buf, pos, length)
      BY <1>2, <3>1, StandsInParts
    <3>3. Len(bytes) = Len(length) + n /\ Len(length) \in Nat
      BY <3>1, ConcatProperties, LenProperties
    <3> QED
      BY <3>1, <3>2, <3>3, <1>2 DEF StandsAt
  <2>2. PICK got : /\ ReadVarint(buf, pos) = {got}
                   /\ got.next = p /\ Number(got.value) = n
    BY <2>1, LengthRead
  <2>3. n \in Nat /\ p \in Nat /\ p + n <= Len(buf) + 1 /\ \A i \in 1 .. n : buf[p + i - 1] = v[i]
    <3>1. n \in Nat
      BY LenProperties
    <3> HIDE DEF n, p
    <3> QED
      BY <2>1, <3>1 DEF StandsAt, n
  <2> HIDE DEF n, p, length, bytes
  <2>4. SubSeq(buf, p, p + n - 1) = v
    <3> DEFINE w == SubSeq(buf, p, p + n - 1)
    <3>1. \A i \in p .. p + n - 1 : buf[i] \in Nat
      <4>1. ASSUME NEW i \in p .. p + n - 1 PROVE buf[i] \in Nat
        <5> DEFINE j == i - p + 1
        <5>1. j \in 1 .. n /\ p + j - 1 = i
          BY <2>3
        <5> HIDE DEF j
        <5>2. buf[i] = v[j]
          BY <2>3, <5>1
        <5>3. j \in 1 .. Len(v)
          BY <5>1 DEF n
        <5> QED
          BY <5>2, <5>3, ElementOfSeq
      <4> QED
        BY <4>1
    <3>2. /\ p \in Int /\ p + n - 1 \in Int
          /\ (IF p <= p + n - 1 THEN p + n - 1 - p + 1 ELSE 0) = n
          /\ p + n - 1 - p + 1 = n
      BY <2>3
    <3> DEFINE e == p + n - 1
    <3>6. p \in Int /\ e \in Int /\ (\A i \in p .. e : buf[i] \in Nat) /\ w = SubSeq(buf, p, e)
      BY <3>1, <3>2
    <3>7. (IF p <= e THEN e - p + 1 ELSE 0) = n /\ e - p + 1 = n
      BY <2>3
    <3> HIDE DEF e, w
    <3>3. /\ w \in Seq(Nat)
          /\ Len(w) = IF p <= e THEN e - p + 1 ELSE 0
          /\ \A i \in 1 .. e - p + 1 : w[i] = buf[p + i - 1]
      BY <3>6, SubSeqProperties
    <3>4. Len(w) = n /\ \A i \in 1 .. n : w[i] = v[i]
      BY <2>3, <3>7, <3>3
    <3>5. w = v
      BY <3>3, <3>4, SeqEqual DEF n
    <3> QED
      BY <3>5 DEF w, e
  <2> DEFINE R(len) == Got(SubSeq(buf, len.next, len.next + Number(len.value) - 1),
                           len.next + Number(len.value))
  <2>5. {l \in ReadVarint(buf, pos) : l.next + Number(l.value) <= Len(buf) + 1} = {got}
    BY <2>2, <2>3
  <2>6. ReadBytes(buf, pos) =
          {R(len) : len \in {l \in ReadVarint(buf, pos) : l.next + Number(l.value) <= Len(buf) + 1}}
    BY Zenon DEF ReadBytes
  <2>7. R(got) = Got(v, p + n)
    BY <2>2, <2>4
  <2>8. p + n = pos + Len(bytes)
    BY <2>1, <2>3 DEF p
  <2> HIDE DEF R
  <2>9. ReadBytes(buf, pos) = {R(got)}
    BY <2>5, <2>6
  <2> QED
    BY <2>7, <2>8, <2>9
<1>3. ASSUME NEW buf \in Seq(Nat), NEW pos, TornAt(buf, pos, bytes)
      PROVE  ReadBytes(buf, pos) = {}
  <2> DEFINE p == pos + Len(length)
             n == Len(v)
  <2>1. ReadVarint(buf, pos) = {} \/ (TornAt(buf, p, v) /\ StandsAt(buf, pos, length))
    BY <1>3, LengthRead
  <2>2. CASE ReadVarint(buf, pos) = {}
    BY <2>2 DEF ReadBytes
  <2>3. CASE TornAt(buf, p, v) /\ StandsAt(buf, pos, length)
    <3>1. PICK got : /\ ReadVarint(buf, pos) = {got}
                     /\ got.next = p /\ Number(got.value) = n
      BY <2>3, LengthRead
    <3>2. ~(p + n <= Len(buf) + 1)
      <4>1. n \in Nat /\ Len(buf) \in Nat
        BY LenProperties
      <4> HIDE DEF p, n
      <4>2. p \in Nat /\ Len(buf) + 1 < p + n
        BY <2>3 DEF TornAt, n
      <4> QED
        BY <4>1, <4>2
    <3> HIDE DEF p, n, length
    <3>3. {l \in ReadVarint(buf, pos) : l.next + Number(l.value) <= Len(buf) + 1} = {}
      BY <3>1, <3>2
    <3> QED
      BY <3>3 DEF ReadBytes
  <2> QED
    BY <2>1, <2>2, <2>3
<1>4. bytes \in Seq(Nat)
  <2>1. Digits(Len(v)) \in U64
    BY NumberBack, LenProperties
  <2>2. length \in Seq(Nat)
    BY <2>1, VarintBytes DEF Varint
  <2> QED
    BY <2>2, ConcatProperties
<1> HIDE DEF bytes
<1>5. ContentIs(varints, lens, no, wireType, bytes, v)
  BY <1>1, <1>2, <1>3 DEF ContentIs
<1> QED
  BY <1>4, <1>5 DEF bytes, length

\* What a decoder does not know, it skips.
LEMMA SkippedContent ==
  ASSUME NEW varints, NEW lens, NEW no, no \notin varints \cup lens, NEW wireType, NEW content,
         \/ wireType = FIXED64 /\ content \in Seq(Nat) /\ Len(content) = 8
         \/ wireType = FIXED32 /\ content \in Seq(Nat) /\ Len(content) = 4
         \/ /\ wireType = LEN
            /\ \E v \in Seq(Nat) : Len(v) < AboveAnyLength /\ content = Varint(Len(v)) \o v
  PROVE  content \in Seq(Nat) /\ ContentIs(varints, lens, no, wireType, content, <<>>)
<1>1. CASE wireType \in {FIXED64, FIXED32} /\ content \in Seq(Nat)
  <2> DEFINE n == IF wireType = FIXED64 THEN 8 ELSE 4
  <2>1. n \in Nat /\ Len(content) = n
    <3>1. FIXED64 # FIXED32 /\ FIXED64 # LEN /\ FIXED32 # LEN
      BY DEF FIXED64, FIXED32, LEN
    <3>2. wireType # LEN /\ (wireType = FIXED64 \/ wireType = FIXED32)
      BY <1>1, <3>1
    <3>3. 8 \in Nat /\ 4 \in Nat
      OBVIOUS
    <3> QED
      BY <3>1, <3>2, <3>3, Zenon
  <2>2. \A buf, pos : Content(buf, varints, lens, no, wireType, pos) = {Got(<<>>, pos + n)}
    BY <1>1 DEF Content, Skip, VARINT, FIXED64, LEN, FIXED32
  <2> HIDE DEF n
  <2>3. ASSUME NEW buf \in Seq(Nat), NEW pos, TornAt(buf, pos, content)
        PROVE  pos + n \in Nat /\ pos + n > Len(buf)
    <3>1. pos \in Nat /\ Len(buf) + 1 < pos + n /\ Len(buf) \in Nat
      BY <2>1, <2>3, LenProperties DEF TornAt
    <3> QED
      BY <2>1, <3>1
  <2>4. \A value, next : Got(value, next).next = next
    BY DEF Got
  <2> QED
    BY <1>1, <2>1, <2>2, <2>3, <2>4 DEF ContentIs
<1>2. ASSUME wireType = LEN, NEW v \in Seq(Nat), Len(v) < AboveAnyLength,
             content = Varint(Len(v)) \o v
      PROVE  content \in Seq(Nat) /\ ContentIs(varints, lens, no, wireType, content, <<>>)
  <2> DEFINE length == Varint(Len(v))
             n == Len(v)
  <2>1. /\ content \in Seq(Nat) /\ length \in Seq(Nat) /\ Len(length) \in Nat /\ n \in Nat
        /\ Len(content) = Len(length) + n
    <3>1. n \in Nat
      BY LenProperties
    <3>2. Digits(n) \in U64
      BY <1>2, <3>1, NumberBack
    <3>3. length \in Seq(Nat)
      BY <3>2, VarintBytes DEF Varint
    <3> HIDE DEF length
    <3>4. content = length \o v
      BY <1>2 DEF length
    <3> QED
      BY <3>1, <3>3, <3>4, ConcatProperties, LenProperties
  <2>2. \A buf, pos : Content(buf, varints, lens, no, wireType, pos) =
                        {Got(<<>>, l.next + Number(l.value)) : l \in ReadVarint(buf, pos)}
    BY <1>2 DEF Content, Skip, VARINT, FIXED64, LEN, FIXED32
  <2>3. \A value, next : Got(value, next).next = next
    BY DEF Got
  <2>4. ASSUME NEW buf \in Seq(Nat), NEW pos, StandsAt(buf, pos, length)
        PROVE  Content(buf, varints, lens, no, wireType, pos) = {Got(<<>>, pos + Len(content))}
    <3>1. PICK got : /\ ReadVarint(buf, pos) = {got}
                     /\ got.next = pos + Len(length) /\ Number(got.value) = n
      BY <1>2, <2>4, LengthRead
    <3>2. pos \in Nat
      BY <2>4 DEF StandsAt
    <3> HIDE DEF length, n
    <3>3. got.next + Number(got.value) = pos + Len(content)
      BY <2>1, <3>1, <3>2
    <3>4. Content(buf, varints, lens, no, wireType, pos) = {Got(<<>>, got.next + Number(got.value))}
      BY <2>2, <3>1
    <3> QED
      BY <3>3, <3>4
  <2>5. ASSUME NEW buf \in Seq(Nat), NEW pos, StandsAt(buf, pos, content)
        PROVE  StandsAt(buf, pos, length)
    <3> HIDE DEF length
    <3>1. content = length \o v
      BY <1>2 DEF length
    <3> QED
      BY <2>1, <2>5, <3>1, StandsInParts
  <2>6. ASSUME NEW buf \in Seq(Nat), NEW pos, TornAt(buf, pos, content),
               NEW got \in Content(buf, varints, lens, no, wireType, pos)
        PROVE  got.next \in Nat /\ got.next > Len(buf)
    <3>1. ReadVarint(buf, pos) = {} \/ StandsAt(buf, pos, length)
      BY <1>2, <2>6, LengthRead
    <3>2. ReadVarint(buf, pos) # {}
      BY <2>2, <2>6
    <3>3. got = Got(<<>>, pos + Len(content))
      BY <2>4, <2>6, <3>1, <3>2
    <3>4. got.next = pos + Len(content)
      BY <2>3, <3>3
    <3>5. pos \in Nat /\ Len(buf) + 1 < pos + Len(content) /\ Len(buf) \in Nat
      BY <2>6, LenProperties DEF TornAt
    <3> HIDE DEF length, n
    <3>6. Len(content) \in Nat
      BY <2>1, LenProperties
    <3> QED
      BY <3>4, <3>5, <3>6
  <2> QED
    BY <2>1, <2>4, <2>5, <2>6 DEF ContentIs
<1> QED
  BY <1>1, <1>2

-----------------------------------------------------------------------------
(* The bytes of the fields of a message, one after another.                *)

\* What the first n sequences make up, for each n.
SumsOf(ss, S, g, N) ==
  /\ g[0] = <<>>
  /\ \A n \in 1 .. N : g[n] = g[n - 1] \o ss[n] /\ g[n] \in Seq(S)

LEMMA FlatExists ==
  ASSUME NEW S, NEW ss \in Seq(Seq(S)), NEW m \in 0 .. Len(ss)
  PROVE  \E g : SumsOf(ss, S, g, m)
<1> DEFINE N == Len(ss)
           T == {n \in 0 .. N : ~(\E g : SumsOf(ss, S, g, n))}
<1>0. N \in Nat /\ \A n \in 1 .. N : ss[n] \in Seq(S)
  BY LenProperties, ElementOfSeq
<1> SUFFICES ASSUME T # {} PROVE FALSE
  OBVIOUS
<1> HIDE DEF N
<1>1. PICK n \in T : \A y \in T : n <= y
  <2>1. T \subseteq Nat
    OBVIOUS
  <2> HIDE DEF T
  <2> QED
    BY <2>1, Least
<1>2. n \in 0 .. N /\ ~(\E g : SumsOf(ss, S, g, n))
  OBVIOUS
<1>3. n # 0
  <2> DEFINE g == [i \in {0} |-> <<>>]
  <2>1. g[0] = <<>> /\ \A i \in 1 .. 0 : FALSE
    OBVIOUS
  <2> HIDE DEF g
  <2>2. SumsOf(ss, S, g, 0)
    BY <2>1 DEF SumsOf
  <2> QED
    BY <1>2, <2>2
<1>4. n - 1 \in 0 .. N /\ n \in 1 .. N /\ ~(n <= n - 1) /\ n \in Nat /\ n - 1 \in Nat
  BY <1>0, <1>2, <1>3
<1>5. PICK g : SumsOf(ss, S, g, n - 1)
  BY <1>1, <1>4
<1> HIDE DEF T
<1> DEFINE h == [i \in 0 .. n |-> IF i = n THEN g[n - 1] \o ss[n] ELSE g[i]]
<1>6. (\A i \in 0 .. n - 1 : h[i] = g[i]) /\ h[n] = g[n - 1] \o ss[n]
  <2>1. n \in 0 .. n /\ \A i \in 0 .. n - 1 : i \in 0 .. n /\ i # n
    BY <1>4
  <2> QED
    BY <2>1, Zenon
<1> HIDE DEF h
<1>7. g[n - 1] \in Seq(S)
  <2>1. n - 1 = 0 \/ n - 1 \in 1 .. n - 1
    BY <1>4
  <2>2. <<>> \in Seq(S)
    BY EmptySeq
  <2> QED
    BY <1>5, <2>1, <2>2 DEF SumsOf
<1>8. ASSUME NEW i \in 1 .. n PROVE h[i] = h[i - 1] \o ss[i] /\ h[i] \in Seq(S)
  <2>1. CASE i = n
    <3>1. h[i - 1] = g[n - 1]
      BY <1>4, <1>6, <2>1
    <3>2. g[n - 1] \o ss[n] \in Seq(S)
      BY <1>0, <1>4, <1>7, ConcatProperties
    <3> QED
      BY <1>6, <2>1, <3>1, <3>2
  <2>2. CASE i # n
    <3>1. i \in 0 .. n - 1 /\ i - 1 \in 0 .. n - 1 /\ i \in 1 .. n - 1
      BY <1>4, <2>2
    <3>2. g[i] = g[i - 1] \o ss[i] /\ g[i] \in Seq(S)
      BY <1>5, <3>1 DEF SumsOf
    <3> QED
      BY <1>6, <3>1, <3>2
  <2> QED
    BY <2>1, <2>2
<1>9. h[0] = <<>>
  <2>1. 0 \in 0 .. n - 1
    BY <1>4
  <2> QED
    BY <1>5, <1>6, <2>1 DEF SumsOf
<1>10. SumsOf(ss, S, h, n)
  BY <1>8, <1>9 DEF SumsOf
<1> QED
  BY <1>2, <1>10

LEMMA FlatIs ==
  ASSUME NEW S, NEW ss \in Seq(Seq(S)), NEW g, SumsOf(ss, S, g, Len(ss))
  PROVE  FlattenSeq(ss) = g[Len(ss)] /\ FlattenSeq(ss) \in Seq(S)
<1> DEFINE N == Len(ss)
           Turns(f) == f = [i \in 1 .. N |-> IF i = 1 THEN ss[i] ELSE f[i - 1] \o ss[i]]
           h == [i \in 1 .. N |-> g[i]]
           f == CHOOSE u : Turns(u)
<1>0. N \in Nat /\ \A n \in 1 .. N : ss[n] \in Seq(S)
  BY LenProperties, ElementOfSeq
<1>1. g[0] = <<>> /\ \A n \in 1 .. N : g[n] = g[n - 1] \o ss[n] /\ g[n] \in Seq(S)
  BY DEF SumsOf
<1>2. CASE N = 0
  <2>1. ss = <<>>
    BY <1>2, EmptySeq
  <2>2. FlattenSeq(ss) = ss
    BY <1>2 DEF FlattenSeq
  <2>3. <<>> \in Seq(S)
    BY EmptySeq
  <2> QED
    BY <1>1, <1>2, <2>1, <2>2, <2>3
<1>3. CASE N # 0
  <2>0. FlattenSeq(ss) = f[N]
    BY <1>3 DEF FlattenSeq
  <2> HIDE DEF N
  <2>1. Turns(h)
    <3>1. ASSUME NEW i \in 1 .. N PROVE g[i] = IF i = 1 THEN ss[i] ELSE h[i - 1] \o ss[i]
      <4>1. CASE i = 1
        <5>1. g[i] = g[0] \o ss[i]
          <6>1. g[i] = g[i - 1] \o ss[i]
            BY <1>1, Zenon
          <6>2. i - 1 = 0
            BY <4>1
          <6> QED
            BY <6>1, <6>2, Zenon
        <5>2. <<>> \o ss[i] = ss[i]
          BY <1>0, ConcatEmptySeq
        <5> QED
          BY <1>1, <4>1, <5>1, <5>2
      <4>2. CASE i # 1
        <5>1. i - 1 \in 1 .. N
          BY <1>0, <4>2
        <5> QED
          BY <1>1, <4>2, <5>1
      <4> QED
        BY <4>1, <4>2
    <3> QED
      BY <3>1
  <2>2. Turns(f)
    <3> HIDE DEF Turns, h
    <3> QED
      BY <2>1, Zenon
  <2> HIDE DEF f, h
  <2>3. \A i \in 1 .. N : f[i] = IF i = 1 THEN ss[i] ELSE f[i - 1] \o ss[i]
    BY <2>2, Zenon
  <2> HIDE DEF Turns
  <2> DEFINE T == {i \in 1 .. N : f[i] # g[i]}
  <2>4. ASSUME T # {} PROVE FALSE
    <3>1. PICK i \in T : \A y \in T : i <= y
      <4>1. T \subseteq Nat
        OBVIOUS
      <4> HIDE DEF T
      <4> QED
        BY <2>4, <4>1, Least
    <3>2. i \in 1 .. N /\ f[i] # g[i]
      OBVIOUS
    <3>3. i # 1
      <4>1. ASSUME i = 1 PROVE FALSE
        <5>1. f[i] = ss[i] /\ g[i] = g[0] \o ss[i]
          <6>1. g[i] = g[i - 1] \o ss[i] /\ f[i] = ss[i]
            BY <1>1, <2>3, <3>2, <4>1, Zenon
          <6>2. i - 1 = 0
            BY <4>1
          <6> QED
            BY <6>1, <6>2, Zenon
        <5>2. <<>> \o ss[i] = ss[i]
          BY <1>0, <3>2, ConcatEmptySeq
        <5> QED
          BY <1>1, <3>2, <5>1, <5>2
      <4> QED
        BY <4>1
    <3>4. i - 1 \in 1 .. N /\ ~(i <= i - 1)
      BY <1>0, <3>2, <3>3
    <3>5. f[i - 1] = g[i - 1]
      BY <3>1, <3>4
    <3> QED
      BY <1>1, <2>3, <3>2, <3>3, <3>5
  <2>5. N \in 1 .. N
    BY <1>0, <1>3
  <2>6. f[N] = g[N] /\ g[N] \in Seq(S)
    BY <1>1, <2>4, <2>5
  <2> QED
    BY <2>0, <2>6 DEF N
<1> QED
  BY <1>2, <1>3

LEMMA FlatNone == FlattenSeq(<<>>) = <<>>
<1>1. Len(<<>>) = 0
  OBVIOUS
<1> QED
  BY <1>1, Zenon DEF FlattenSeq

LEMMA FlatType ==
  ASSUME NEW S, NEW ss \in Seq(Seq(S))
  PROVE  FlattenSeq(ss) \in Seq(S)
<1>1. Len(ss) \in 0 .. Len(ss)
  BY LenProperties
<1>2. PICK g : SumsOf(ss, S, g, Len(ss))
  BY <1>1, FlatExists
<1> QED
  BY <1>2, FlatIs

LEMMA FlatOne ==
  ASSUME NEW S, NEW s \in Seq(S)
  PROVE  FlattenSeq(<<s>>) = s
<1> DEFINE ss == <<s>>
           g == [i \in 0 .. 1 |-> IF i = 0 THEN <<>> ELSE s]
<1>1. ss \in Seq(Seq(S)) /\ Len(ss) = 1 /\ ss[1] = s
  OBVIOUS
<1>2. g[0] = <<>> /\ g[1] = s
  OBVIOUS
<1>3. (\A n \in 1 .. 1 : n = 1) /\ 1 - 1 = 0
  OBVIOUS
<1> HIDE DEF ss, g
<1>4. <<>> \o s = s
  BY ConcatEmptySeq
<1>5. g[1] = g[1 - 1] \o ss[1]
  BY <1>1, <1>2, <1>3, <1>4, Zenon
<1>6. SumsOf(ss, S, g, 1)
  BY <1>2, <1>3, <1>5, Zenon DEF SumsOf
<1>7. FlattenSeq(ss) = s
  BY <1>1, <1>2, <1>6, FlatIs
<1> QED
  BY <1>7 DEF ss

LEMMA FlatOn ==
  ASSUME NEW S, NEW s \in Seq(Seq(S)), NEW t \in Seq(Seq(S))
  PROVE  FlattenSeq(s \o t) = FlattenSeq(s) \o FlattenSeq(t)
<1> DEFINE a == Len(s)
           b == Len(t)
           st == s \o t
<1>1. /\ a \in Nat /\ b \in Nat /\ st \in Seq(Seq(S)) /\ Len(st) = a + b
      /\ \A n \in 1 .. a + b : st[n] = IF n <= a THEN s[n] ELSE t[n - a]
      /\ \A n \in 1 .. b : t[n] \in Seq(S)
  BY ConcatProperties, LenProperties, ElementOfSeq
<1>0. a \in 0 .. a /\ b \in 0 .. b
  BY <1>1
<1>2. PICK g : SumsOf(s, S, g, a)
  BY <1>0, FlatExists
<1>3. PICK h : SumsOf(t, S, h, b)
  BY <1>0, FlatExists
<1>4. FlattenSeq(s) = g[a] /\ FlattenSeq(t) = h[b]
  BY <1>2, <1>3, FlatIs
<1> HIDE DEF a, b, st
<1>5. /\ g[0] = <<>> /\ \A n \in 1 .. a : g[n] = g[n - 1] \o s[n] /\ g[n] \in Seq(S)
      /\ h[0] = <<>> /\ \A n \in 1 .. b : h[n] = h[n - 1] \o t[n] /\ h[n] \in Seq(S)
  BY <1>2, <1>3, Zenon DEF SumsOf
<1>6. /\ \A n \in 0 .. a : g[n] \in Seq(S)
      /\ \A n \in 0 .. b : h[n] \in Seq(S)
  <2>1. <<>> \in Seq(S)
    BY EmptySeq
  <2>2. \A m \in Nat : \A n \in 0 .. m : n = 0 \/ n \in 1 .. m
    OBVIOUS
  <2> QED
    BY <1>1, <1>5, <2>1, <2>2
<1> DEFINE k == [n \in 0 .. a + b |-> IF n <= a THEN g[n] ELSE g[a] \o h[n - a]]
<1>7. \A n \in 0 .. a : k[n] = g[n]
  <2>1. \A n \in 0 .. a : n \in 0 .. a + b /\ n <= a
    BY <1>1
  <2> QED
    BY <2>1, Zenon
<1>8. \A n \in 1 .. b : k[a + n] = g[a] \o h[n]
  <2>1. ASSUME NEW n \in 1 .. b PROVE k[a + n] = g[a] \o h[n]
    <3>1. PICK j : j = a + n
      OBVIOUS
    <3>2. j \in 0 .. a + b /\ ~(j <= a) /\ j - a = n
      BY <1>1, <3>1
    <3>3. k[j] = g[a] \o h[j - a]
      BY <3>2, Zenon
    <3> QED
      BY <3>1, <3>2, <3>3, Zenon
  <2> QED
    BY <2>1
<1> HIDE DEF k
<1>9. \A n \in 0 .. b : k[a + n] = g[a] \o h[n]
  <2>1. k[a + 0] = g[a] \o h[0]
    <3>1. a \in 0 .. a /\ a + 0 = a
      BY <1>1
    <3>2. g[a] \o <<>> = g[a]
      BY <1>6, <3>1, ConcatEmptySeq
    <3> QED
      BY <1>5, <1>7, <3>1, <3>2, Zenon
  <2>2. \A n \in 0 .. b : n = 0 \/ n \in 1 .. b
    BY <1>1
  <2> QED
    BY <1>8, <2>1, <2>2, Zenon
<1>10. ASSUME NEW n \in 1 .. a + b PROVE k[n] = k[n - 1] \o st[n] /\ k[n] \in Seq(S)
  <2>1. CASE n <= a
    <3>1. n \in 1 .. a /\ n \in 0 .. a /\ n - 1 \in 0 .. a
      BY <1>1, <2>1
    <3>2. st[n] = s[n]
      BY <1>1, <2>1, Zenon
    <3>3. k[n] = g[n] /\ k[n - 1] = g[n - 1]
      BY <1>7, <3>1, Zenon
    <3> QED
      BY <1>5, <1>6, <3>1, <3>2, <3>3, Zenon
  <2>2. CASE ~(n <= a)
    <3>1. PICK i : i = n - a
      OBVIOUS
    <3>2. /\ i \in 1 .. b /\ i \in 0 .. b /\ i - 1 \in 0 .. b
          /\ n = a + i /\ n - 1 = a + (i - 1) /\ a \in 0 .. a
      <4>1. a \in Nat /\ b \in Nat /\ n \in 1 .. a + b
        BY <1>1
      <4> QED
        BY <2>2, <3>1, <4>1
    <3>3. k[n] = g[a] \o h[i] /\ k[n - 1] = g[a] \o h[i - 1]
      BY <1>9, <3>2, Zenon
    <3>4. st[n] = t[i]
      BY <1>1, <2>2, <3>1, Zenon
    <3>5. h[i] = h[i - 1] \o t[i] /\ h[i - 1] \in Seq(S) /\ t[i] \in Seq(S) /\ g[a] \in Seq(S)
            /\ h[i] \in Seq(S)
      BY <1>1, <1>5, <1>6, <3>2, Zenon
    <3>5a. \A x, y, z \in Seq(S) : (x \o y) \o z = x \o (y \o z)
      BY ConcatAssociative, SMTT(30)
    <3>6. (g[a] \o h[i - 1]) \o t[i] = g[a] \o (h[i - 1] \o t[i])
      BY <3>5, <3>5a, Zenon
    <3>7. g[a] \o h[i] \in Seq(S)
      BY <3>5, ConcatProperties
    <3> QED
      BY <3>3, <3>4, <3>5, <3>6, <3>7, Zenon
  <2> QED
    BY <2>1, <2>2
<1>11. k[0] = <<>>
  <2>1. 0 \in 0 .. a
    BY <1>1
  <2> QED
    BY <1>5, <1>7, <2>1, Zenon
<1>12. SumsOf(st, S, k, Len(st))
  BY <1>1, <1>10, <1>11, Zenon DEF SumsOf
<1>13. FlattenSeq(st) = k[a + b]
  BY <1>1, <1>12, FlatIs
<1>14. b \in 0 .. b
  BY <1>1
<1> QED
  BY <1>4, <1>9, <1>13, <1>14, Zenon DEF st

\* One more piece adds its bytes.
LEMMA FlatMore ==
  ASSUME NEW S, NEW ss \in Seq(Seq(S)), NEW k \in 1 .. Len(ss)
  PROVE  FlattenSeq(SubSeq(ss, 1, k)) = FlattenSeq(SubSeq(ss, 1, k - 1)) \o ss[k]
<1>1. Len(ss) \in Nat /\ ss[k] \in Seq(S)
  BY LenProperties, ElementOfSeq
<1>2. SubSeq(ss, 1, k) = SubSeq(ss, 1, k - 1) \o <<ss[k]>>
  <2>1. 1 \in 1 .. Len(ss) /\ k \in 1 .. Len(ss)
    BY <1>1
  <2> QED
    BY <2>1, SubSeqRecursiveSecond
<1> DEFINE s == SubSeq(ss, 1, k - 1)
           t == <<ss[k]>>
<1>3. s \in Seq(Seq(S))
  <2>1. k - 1 \in Int /\ 1 \in Int /\ \A i \in 1 .. k - 1 : i \in 1 .. Len(ss)
    BY <1>1
  <2>2. \A i \in 1 .. k - 1 : ss[i] \in Seq(S)
    BY <2>1, ElementOfSeq
  <2> QED
    BY <2>1, <2>2, SubSeqProperties
<1>4. t \in Seq(Seq(S))
  BY <1>1
<1>5. FlattenSeq(t) = ss[k]
  BY <1>1, FlatOne
<1> HIDE DEF s, t
<1>6. FlattenSeq(s \o t) = FlattenSeq(s) \o FlattenSeq(t)
  BY <1>3, <1>4, FlatOn
<1> QED
  BY <1>2, <1>5, <1>6, Zenon DEF s, t

\* Sequences of one element each.
LEMMA FlatOnes ==
  ASSUME NEW S, NEW p \in Seq(S), NEW ss, Len(ss) = Len(p), ss \in Seq(Seq(S)),
         \A i \in 1 .. Len(p) : ss[i] = <<p[i]>>
  PROVE  FlattenSeq(ss) = p
<1> DEFINE N == Len(p)
           g == [i \in 0 .. N |-> SubSeq(p, 1, i)]
<1>1. N \in Nat /\ \A i \in 1 .. N : p[i] \in S
  BY LenProperties, ElementOfSeq
<1>2. g[0] = <<>>
  <2>1. 0 \in 0 .. N /\ SubSeq(p, 1, 0) = <<>>
    BY <1>1, SubSeqEmpty
  <2> QED
    BY <2>1
<1>3. ASSUME NEW n \in 1 .. N PROVE g[n] = g[n - 1] \o ss[n] /\ g[n] \in Seq(S)
  <2>1. n \in 0 .. N /\ n - 1 \in 0 .. N /\ 1 \in 1 .. N /\ n \in Int /\ 1 \in Int
          /\ \A i \in 1 .. n : i \in 1 .. N
    BY <1>1
  <2>2. g[n] = SubSeq(p, 1, n) /\ g[n - 1] = SubSeq(p, 1, n - 1)
    BY <2>1, Zenon
  <2> HIDE DEF g
  <2>3. SubSeq(p, 1, n) = SubSeq(p, 1, n - 1) \o <<p[n]>>
    BY <2>1, SubSeqRecursiveSecond
  <2>4. SubSeq(p, 1, n) \in Seq(S)
    BY <1>1, <2>1, SubSeqProperties
  <2> QED
    BY <2>2, <2>3, <2>4, Zenon
<1>4. SumsOf(ss, S, g, Len(ss))
  <2> HIDE DEF g
  <2> QED
    BY <1>2, <1>3, Zenon DEF SumsOf
<1>5. FlattenSeq(ss) = g[Len(ss)]
  <2> HIDE DEF g
  <2> QED
    BY <1>4, FlatIs
<1>6. g[Len(ss)] = SubSeq(p, 1, N)
  <2>1. N \in 0 .. N
    BY <1>1
  <2> QED
    BY <2>1
<1> QED
  BY <1>5, <1>6, SubSeqFull

\* Where the first k pieces end.
EndOf(pieces, k) == Len(FlattenSeq(SubSeq(pieces, 1, k)))

LEMMA PieceEnds ==
  ASSUME NEW S, NEW pieces \in Seq(Seq(S))
  PROVE  /\ EndOf(pieces, 0) = 0
         /\ EndOf(pieces, Len(pieces)) = Len(FlattenSeq(pieces))
         /\ \A k \in 0 .. Len(pieces) :
              EndOf(pieces, k) \in Nat /\ EndOf(pieces, k) <= Len(FlattenSeq(pieces))
         /\ \A k \in 1 .. Len(pieces) :
              /\ EndOf(pieces, k) = EndOf(pieces, k - 1) + Len(pieces[k])
              /\ \A i \in 1 .. Len(pieces[k]) :
                   FlattenSeq(pieces)[EndOf(pieces, k - 1) + i] = pieces[k][i]
<1> DEFINE N == Len(pieces)
           flat == FlattenSeq(pieces)
           Up(k) == FlattenSeq(SubSeq(pieces, 1, k))
           Rest(k) == FlattenSeq(SubSeq(pieces, k + 1, N))
<1>1. N \in Nat /\ \A i \in 1 .. N : pieces[i] \in Seq(S)
  BY LenProperties, ElementOfSeq
<1>2. EndOf(pieces, 0) = 0
  <2>1. SubSeq(pieces, 1, 0) = <<>> /\ Len(<<>>) = 0
    BY SubSeqEmpty
  <2> QED
    BY <2>1, FlatNone, Zenon DEF EndOf
<1>3. EndOf(pieces, N) = Len(flat)
  BY SubSeqFull DEF EndOf
<1>4. ASSUME NEW k \in 0 .. N
      PROVE  Up(k) \in Seq(S) /\ Rest(k) \in Seq(S) /\ flat = Up(k) \o Rest(k)
  <2> DEFINE s == SubSeq(pieces, 1, k)
             t == SubSeq(pieces, k + 1, N)
  <2>1. k \in Int /\ 1 \in Int /\ k + 1 \in Int /\ N \in Int
          /\ (\A i \in 1 .. k : i \in 1 .. N) /\ (\A i \in k + 1 .. N : i \in 1 .. N)
    BY <1>1
  <2>2. s \in Seq(Seq(S)) /\ t \in Seq(Seq(S))
    <3>1. \A i \in 1 .. k : pieces[i] \in Seq(S)
      BY <1>1, <2>1
    <3>2. \A i \in k + 1 .. N : pieces[i] \in Seq(S)
      BY <1>1, <2>1
    <3> QED
      BY <2>1, <3>1, <3>2, SubSeqProperties
  <2>3. pieces = s \o t
    <3>1. 1 \in 1 .. N + 1 /\ k \in 1 - 1 .. N /\ N \in k .. N
      BY <1>1
    <3>2. s \o t = SubSeq(pieces, 1, N)
      BY <3>1, ConcatAdjacentSubSeq
    <3> QED
      BY <3>2, SubSeqFull
  <2> HIDE DEF s, t
  <2>4. FlattenSeq(s) \in Seq(S) /\ FlattenSeq(t) \in Seq(S)
          /\ FlattenSeq(s \o t) = FlattenSeq(s) \o FlattenSeq(t)
    BY <2>2, FlatType, FlatOn
  <2> QED
    BY <2>3, <2>4, Zenon DEF s, t
<1>5. ASSUME NEW k \in 0 .. N
      PROVE  /\ EndOf(pieces, k) \in Nat /\ EndOf(pieces, k) <= Len(flat) /\ Len(flat) \in Nat
             /\ \A i \in 1 .. EndOf(pieces, k) : flat[i] = Up(k)[i]
  <2> DEFINE u == Up(k)
             r == Rest(k)
  <2>1. u \in Seq(S) /\ r \in Seq(S) /\ flat = u \o r /\ EndOf(pieces, k) = Len(u)
    BY <1>4, Zenon DEF EndOf
  <2> HIDE DEF u, r, flat
  <2>2. /\ Len(u) \in Nat /\ Len(r) \in Nat /\ Len(flat) = Len(u) + Len(r)
        /\ \A i \in 1 .. Len(u) + Len(r) : flat[i] = IF i <= Len(u) THEN u[i] ELSE r[i - Len(u)]
    BY <2>1, ConcatProperties, LenProperties
  <2>3. Len(u) <= Len(flat) /\ Len(flat) \in Nat
    BY <2>2
  <2>4. \A i \in 1 .. Len(u) : flat[i] = u[i]
    BY <2>2
  <2> QED
    BY <2>1, <2>2, <2>3, <2>4, Zenon DEF u
<1>6. ASSUME NEW k \in 1 .. N
      PROVE  /\ EndOf(pieces, k) = EndOf(pieces, k - 1) + Len(pieces[k])
             /\ \A i \in 1 .. Len(pieces[k]) : flat[EndOf(pieces, k - 1) + i] = pieces[k][i]
  <2> DEFINE u == Up(k - 1)
             p == pieces[k]
             v == Up(k)
             e == EndOf(pieces, k - 1)
  <2>1. k - 1 \in 0 .. N /\ k \in 0 .. N
    BY <1>1
  <2>2. u \in Seq(S) /\ p \in Seq(S) /\ v = u \o p /\ e = Len(u)
          /\ EndOf(pieces, k) = Len(v)
    BY <1>1, <1>4, <2>1, FlatMore DEF EndOf
  <2>3. \A i \in 1 .. Len(v) : flat[i] = v[i]
    BY <1>5, <2>1, <2>2
  <2> HIDE DEF u, p, v, e, flat
  <2>4. /\ Len(u) \in Nat /\ Len(p) \in Nat /\ Len(v) = Len(u) + Len(p)
        /\ \A i \in 1 .. Len(u) + Len(p) : v[i] = IF i <= Len(u) THEN u[i] ELSE p[i - Len(u)]
    BY <2>2, ConcatProperties, LenProperties
  <2>5. ASSUME NEW i \in 1 .. Len(p) PROVE flat[e + i] = p[i]
    <3> DEFINE j == Len(u) + i
    <3>1. \A a, b \in Nat : \A x \in 1 .. b :
            a + x \in 1 .. a + b /\ ~(a + x <= a) /\ (a + x) - a = x
      OBVIOUS
    <3>2. j \in 1 .. Len(u) + Len(p) /\ ~(j <= Len(u)) /\ j - Len(u) = i
      BY <2>4, <3>1, Zenon
    <3> HIDE DEF j
    <3>3. v[j] = p[j - Len(u)]
      BY <2>4, <3>2, Zenon
    <3>4. flat[j] = v[j]
      BY <2>3, <2>4, <3>2
    <3>5. flat[j] = p[i]
      BY <3>2, <3>3, <3>4, Zenon
    <3> QED
      BY <2>2, <3>5 DEF j
  <2> QED
    BY <2>2, <2>4, <2>5, Zenon DEF p, e
<1> QED
  BY <1>2, <1>3, <1>5, <1>6, Zenon

-----------------------------------------------------------------------------
(* The fields that are read of a buffer.                                   *)

LEMMA ReadVarintNext ==
  ASSUME NEW buf \in Seq(Nat), NEW pos \in Nat \ {0}, NEW got \in ReadVarint(buf, pos)
  PROVE  got.next \in Nat /\ got.next > pos /\ got.value \in Seq(Nat)
<1> DEFINE x(last) == [i \in 1 .. last - pos + 1 |-> buf[pos + i - 1] % 128]
<1>1. PICK last \in pos .. Len(buf) : got = Got(Masked(x(last)), last + 1)
  BY DEF ReadVarint
<1>2. got.next = last + 1 /\ got.value = Masked(x(last))
  BY <1>1 DEF Got
<1>3. last + 1 \in Nat /\ last + 1 > pos
  BY <1>1
<1>4. Masked(x(last)) \in Seq(Nat)
  <2> DEFINE y == x(last)
             n == Min({Len(y), 10})
             z == [i \in 1 .. n |-> IF i = 10 THEN y[i] % 2 ELSE y[i]]
             k == Max({0} \cup {i \in DOMAIN z : z[i] # 0})
  <2>1. last - pos + 1 \in Nat
    BY <1>1
  <2>2. Len(y) \in Nat /\ \A i \in 1 .. Len(y) : y[i] \in Nat
    <3>1. PICK m \in Nat : m = last - pos + 1
      BY <2>1
    <3>4. y = [i \in 1 .. m |-> buf[pos + i - 1] % 128]
      BY <3>1, Zenon
    <3>5. \A i \in 1 .. m : pos + i - 1 \in 1 .. Len(buf)
      <4>1. Len(buf) \in Nat /\ last \in Nat
        BY <1>1, LenProperties
      <4> QED
        BY <1>1, <3>1, <4>1
    <3> HIDE DEF y
    <3>2. Len(y) = m /\ \A i \in 1 .. m : y[i] = buf[pos + i - 1] % 128
          /\ pos + i - 1 \in 1 .. Len(buf)
      BY <3>4, <3>5
    <3>3. \A i \in 1 .. Len(buf) : buf[i] % 128 \in Nat
      BY ElementOfSeq
    <3> QED
      BY <3>2, <3>3
  <2> HIDE DEF y
  <2>3. n \in Nat /\ n <= Len(y)
    <3>1. n = IF Len(y) <= 10 THEN Len(y) ELSE 10
      BY <2>2, MinOf
    <3> HIDE DEF n
    <3> QED
      BY <2>2, <3>1
  <2> HIDE DEF n
  <2>4. \A i \in 1 .. n : z[i] \in Nat
    BY <2>2, <2>3
  <2>5. Len(z) = n /\ DOMAIN z = 1 .. n
    BY <2>3
  <2> HIDE DEF z
  <2>6. k \in 0 .. n
    <3> DEFINE T == {0} \cup {i \in 1 .. n : z[i] # 0}
    <3>1. T \subseteq 0 .. n /\ T # {} /\ T \subseteq Nat
      BY <2>3
    <3> HIDE DEF T
    <3>2. PICK m \in T : \A j \in T : j <= m
      BY <2>3, <3>1, Greatest
    <3>3. Max(T) = m
      BY <3>1, <3>2, MaxIs
    <3> QED
      BY <2>5, <3>1, <3>3 DEF T
  <2> HIDE DEF k
  <2>7. SubSeq(z, 1, k) \in Seq(Nat)
    <3>1. k \in Int /\ 1 \in Int /\ \A i \in 1 .. k : z[i] \in Nat
      BY <2>3, <2>4, <2>6
    <3> QED
      BY <3>1, SubSeqProperties
  <2>8. Masked(y) = SubSeq(z, 1, k)
    BY DEF Masked, Trim, n, z, k
  <2> QED
    BY <2>7, <2>8 DEF y
<1> QED
  BY <1>2, <1>3, <1>4

\* After a field the loop is further on, and not beyond the end.
LEMMA ReadFieldNext ==
  ASSUME NEW buf \in Seq(Nat), NEW varints, NEW lens, NEW pos \in 1 .. Len(buf),
         NEW field \in ReadField(buf, varints, lens, pos)
  PROVE  field.next \in pos + 1 .. Len(buf) + 1
<1>0. Len(buf) \in Nat
  BY LenProperties
<1>1. PICK tag \in ReadVarint(buf, pos) : \E got :
        /\ got \in Content(buf, varints, lens, FieldNo(tag.value), WireType(tag.value), tag.next)
        /\ field = Got([no |-> FieldNo(tag.value), value |-> got.value],
                       Min({got.next, Len(buf) + 1}))
  BY DEF ReadField
<1>6. PICK got :
        /\ got \in Content(buf, varints, lens, FieldNo(tag.value), WireType(tag.value), tag.next)
        /\ field = Got([no |-> FieldNo(tag.value), value |-> got.value],
                       Min({got.next, Len(buf) + 1}))
  BY <1>1
<1>2. tag.next \in Nat /\ tag.next > pos
  BY ReadVarintNext
<1>3. got.next \in Nat /\ got.next >= tag.next
  <2> DEFINE p == tag.next
             wireType == WireType(tag.value)
  <2>0. p \in Nat /\ p \in Nat \ {0}
    BY <1>2
  <2>1. \A value, next : Got(value, next).next = next
    BY DEF Got
  <2> HIDE DEF p
  <2>2. \A l \in ReadVarint(buf, p) : l.next \in Nat /\ l.next > p /\ Number(l.value) \in Nat
    BY <2>0, ReadVarintNext, NumberType
  <2>3. \A l \in ReadVarint(buf, p) :
          l.next + Number(l.value) \in Nat /\ l.next + Number(l.value) >= p
    BY <2>0, <2>2
  <2>4. p + 8 \in Nat /\ p + 8 >= p /\ p + 4 \in Nat /\ p + 4 >= p
    BY <2>0
  <2>5. ASSUME got \in ReadVarint(buf, p) PROVE got.next \in Nat /\ got.next >= p
    BY <2>0, <2>2, <2>5
  <2>6. ASSUME got \in ReadBytes(buf, p) PROVE got.next \in Nat /\ got.next >= p
    BY <2>1, <2>3, <2>6 DEF ReadBytes
  <2>7. ASSUME got \in Skip(buf, p, wireType) PROVE got.next \in Nat /\ got.next >= p
    BY <2>1, <2>3, <2>4, <2>5, <2>7 DEF Skip
  <2>8. \/ got \in ReadVarint(buf, p) \/ got \in ReadBytes(buf, p) \/ got \in Skip(buf, p, wireType)
    BY <1>6 DEF Content, p
  <2> QED
    BY <2>5, <2>6, <2>7, <2>8 DEF p
<1>4. field.next = Min({got.next, Len(buf) + 1})
  BY <1>6 DEF Got
<1>5. field.next = IF got.next <= Len(buf) + 1 THEN got.next ELSE Len(buf) + 1
  BY <1>0, <1>3, <1>4, MinOf
<1> QED
  BY <1>0, <1>2, <1>3, <1>5

\* A turn of the loop looks at what later positions give, and at nothing else.
LEMMA ReadOnLocal ==
  ASSUME NEW buf \in Seq(Nat), NEW varints, NEW lens, NEW pos \in 1 .. Len(buf) + 1,
         NEW f, NEW g, \A q \in pos + 1 .. Len(buf) + 1 : f[q] = g[q]
  PROVE  ReadOn(buf, varints, lens, f, pos) = ReadOn(buf, varints, lens, g, pos)
<1>1. CASE pos > Len(buf)
  BY <1>1 DEF ReadOn
<1>2. CASE ~(pos > Len(buf))
  <2>1. pos \in 1 .. Len(buf)
    BY <1>2, LenProperties
  <2>2. \A field \in ReadField(buf, varints, lens, pos) : f[field.next] = g[field.next]
    BY <2>1, ReadFieldNext
  <2> DEFINE F == {{<<field.value>> \o rest : rest \in f[field.next]} :
                     field \in ReadField(buf, varints, lens, pos)}
             G == {{<<field.value>> \o rest : rest \in g[field.next]} :
                     field \in ReadField(buf, varints, lens, pos)}
  <2>3. F = G
    BY <2>2
  <2>4. ReadOn(buf, varints, lens, f, pos) = UNION F /\ ReadOn(buf, varints, lens, g, pos) = UNION G
    BY <1>2, Zenon DEF ReadOn
  <2> HIDE DEF F, G
  <2> QED
    BY <2>3, <2>4
<1> QED
  BY <1>1, <1>2

\* The loop can be run from each position on.
LEMMA LoopExists ==
  ASSUME NEW buf \in Seq(Nat), NEW varints, NEW lens, NEW m \in 0 .. Len(buf) + 1
  PROVE  \E f : \A pos \in Len(buf) + 2 - m .. Len(buf) + 1 :
           f[pos] = ReadOn(buf, varints, lens, f, pos)
<1> DEFINE N == Len(buf) + 1
           Turns(f, k) == \A pos \in N + 1 - k .. N : f[pos] = ReadOn(buf, varints, lens, f, pos)
           T == {k \in 0 .. N : ~(\E f : Turns(f, k))}
<1>0. N \in Nat /\ N = Len(buf) + 1 /\ Len(buf) \in Nat
  BY LenProperties
<1>1. ASSUME T # {} PROVE FALSE
  <2> HIDE DEF N
  <2>1. PICK k \in T : \A y \in T : k <= y
    <3>1. T \subseteq Nat
      OBVIOUS
    <3> HIDE DEF T
    <3> QED
      BY <1>1, <3>1, Least
  <2>2. k \in 0 .. N /\ ~(\E f : Turns(f, k))
    OBVIOUS
  <2>3. k # 0
    <3>1. \A pos \in N + 1 - 0 .. N : FALSE
      BY <1>0
    <3> QED
      BY <2>2, <3>1
  <2>4. k - 1 \in 0 .. N /\ ~(k <= k - 1)
    BY <1>0, <2>2, <2>3
  <2>5. PICK f : Turns(f, k - 1)
    BY <2>1, <2>4
  <2> HIDE DEF T
  <2> DEFINE p == N + 1 - k
  <2>6. p \in 1 .. N /\ N + 1 - (k - 1) = p + 1
    BY <1>0, <2>2, <2>3
  <2>7. \A pos \in p + 1 .. N : f[pos] = ReadOn(buf, varints, lens, f, pos)
    BY <2>5, <2>6
  <2>8. ~(\E g : \A pos \in p .. N : g[pos] = ReadOn(buf, varints, lens, g, pos))
    BY <2>2
  <2> HIDE DEF p, Turns
  <2> DEFINE g == [pos \in 1 .. N |-> IF pos = p THEN ReadOn(buf, varints, lens, f, p) ELSE f[pos]]
  <2>9. g[p] = ReadOn(buf, varints, lens, f, p) /\ \A pos \in p + 1 .. N : g[pos] = f[pos]
    <3>1. \A pos \in p + 1 .. N : pos \in 1 .. N /\ pos # p
      BY <1>0, <2>6
    <3> QED
      BY <2>6, <3>1, Zenon
  <2> HIDE DEF g
  <2>10. ASSUME NEW pos \in p .. N PROVE g[pos] = ReadOn(buf, varints, lens, g, pos)
    <3>1. pos \in 1 .. Len(buf) + 1 /\ \A q \in pos + 1 .. Len(buf) + 1 : q \in p + 1 .. N
      BY <1>0, <2>6
    <3>2. \A q \in pos + 1 .. Len(buf) + 1 : f[q] = g[q]
      BY <2>9, <3>1
    <3>3. ReadOn(buf, varints, lens, f, pos) = ReadOn(buf, varints, lens, g, pos)
      BY <3>1, <3>2, ReadOnLocal
    <3>4. pos = p \/ pos \in p + 1 .. N
      BY <1>0, <2>6
    <3> QED
      BY <2>7, <2>9, <3>3, <3>4
  <2> QED
    BY <2>8, <2>10
<1>2. \E f : Turns(f, m)
  <2>1. m \in 0 .. N
    OBVIOUS
  <2> HIDE DEF Turns, N
  <2> QED
    BY <1>1, <2>1
<1>3. N + 1 - m = Len(buf) + 2 - m
  BY <1>0
<1> QED
  BY <1>2, <1>3

\* ReadFields does a turn of the loop at each position.
LEMMA LoopRuns ==
  ASSUME NEW buf \in Seq(Nat), NEW varints, NEW lens
  PROVE  \E f : /\ ReadFields(buf, varints, lens) = f[1]
                /\ \A pos \in 1 .. Len(buf) + 1 : f[pos] = ReadOn(buf, varints, lens, f, pos)
<1> DEFINE N == Len(buf) + 1
           Running(f) == f = [pos \in 1 .. N |-> ReadOn(buf, varints, lens, f, pos)]
           run == CHOOSE f : Running(f)
<1>0. N \in Nat /\ Len(buf) + 1 \in 0 .. Len(buf) + 1 /\ Len(buf) + 2 - (Len(buf) + 1) = 1
  BY LenProperties
<1>1. PICK f : \A pos \in Len(buf) + 2 - (Len(buf) + 1) .. Len(buf) + 1 :
                 f[pos] = ReadOn(buf, varints, lens, f, pos)
  BY <1>0, LoopExists
<1>2. \A pos \in 1 .. N : f[pos] = ReadOn(buf, varints, lens, f, pos)
  BY <1>0, <1>1
<1>3. ReadFields(buf, varints, lens) = run[1]
  BY DEF ReadFields
<1> DEFINE g == [pos \in 1 .. N |-> f[pos]]
<1>4. \A pos \in 1 .. N : ReadOn(buf, varints, lens, f, pos) = ReadOn(buf, varints, lens, g, pos)
  <2>1. TAKE pos \in 1 .. N
  <2>2. \A q \in pos + 1 .. Len(buf) + 1 : f[q] = g[q]
    <3>1. \A q \in pos + 1 .. Len(buf) + 1 : q \in 1 .. N
      BY <1>0
    <3> QED
      BY <3>1
  <2>3. pos \in 1 .. Len(buf) + 1
    OBVIOUS
  <2> HIDE DEF g, N
  <2> QED
    BY <2>2, <2>3, ReadOnLocal
<1> HIDE DEF N
<1>5. Running(g)
  <2>1. \A pos \in 1 .. N : f[pos] = ReadOn(buf, varints, lens, g, pos)
    BY <1>2, <1>4
  <2> QED
    BY <2>1, Zenon
<1> HIDE DEF g
<1>6. Running(run)
  <2> HIDE DEF Running
  <2> QED
    BY <1>5, Zenon
<1> HIDE DEF run
<1>7. \A pos \in 1 .. N : run[pos] = ReadOn(buf, varints, lens, run, pos)
  BY <1>6, Zenon
<1> QED
  BY <1>3, <1>7 DEF N

\* Bytes that stand in a sequence after the first of them stand in its beginning, or
\* are torn there.
LEMMA StandsFrom ==
  ASSUME NEW flat, NEW buf, NEW cut \in Nat, Len(buf) = cut, \A i \in 1 .. cut : buf[i] = flat[i],
         NEW p, NEW n \in Nat, n # 0, Len(p) = n, NEW lo \in Nat,
         \A i \in 1 .. n : flat[lo + i] = p[i]
  PROVE  /\ lo + n <= cut => lo + 1 \in 1 .. cut /\ StandsAt(buf, lo + 1, p)
         /\ lo < cut /\ cut < lo + n => lo + 1 \in 1 .. cut /\ TornAt(buf, lo + 1, p)
<1> DEFINE pos == lo + 1
<1>1. ASSUME NEW i \in 1 .. n, lo + i <= cut PROVE buf[pos + i - 1] = p[i]
  <2>1. lo + i = pos + i - 1 /\ lo + i \in 1 .. cut
    BY <1>1
  <2> QED
    BY <2>1
<1>2. ASSUME lo + n <= cut PROVE pos \in 1 .. cut /\ StandsAt(buf, pos, p)
  <2>1. \A i \in 1 .. n : lo + i <= cut
    BY <1>2
  <2>2. pos \in 1 .. cut /\ pos \in Nat \ {0} /\ pos + n <= cut + 1
    BY <1>2
  <2> HIDE DEF pos
  <2> QED
    BY <1>1, <2>1, <2>2 DEF StandsAt
<1>3. ASSUME lo < cut, cut < lo + n PROVE pos \in 1 .. cut /\ TornAt(buf, pos, p)
  <2>1. \A i \in 1 .. cut + 1 - pos : i \in 1 .. n /\ lo + i <= cut
    BY <1>3
  <2>2. pos \in 1 .. cut /\ pos \in Nat \ {0} /\ pos <= cut + 1 /\ cut + 1 < pos + n
    BY <1>3
  <2> HIDE DEF pos
  <2> QED
    BY <1>1, <2>1, <2>2 DEF TornAt
<1> QED
  BY <1>2, <1>3

\* Ends do not decrease.
LEMMA EndsGrow ==
  ASSUME NEW N \in Nat, NEW b, \A i \in 0 .. N : b[i] \in Nat,
         \A i \in 1 .. N : b[i - 1] <= b[i], NEW k \in 0 .. N, NEW i \in 0 .. k
  PROVE  b[i] <= b[k]
<1> DEFINE V == {x \in 0 .. k - i : ~(b[i] <= b[i + x])}
<1>1. ASSUME V # {} PROVE FALSE
  <2>1. PICK x \in V : \A y \in V : x <= y
    <3>1. V \subseteq Nat
      OBVIOUS
    <3> HIDE DEF V
    <3> QED
      BY <1>1, <3>1, Least
  <2>2. x \in 0 .. k - i /\ ~(b[i] <= b[i + x])
    OBVIOUS
  <2>3. x # 0
    <3>1. i + 0 = i /\ b[i] \in Nat
      OBVIOUS
    <3> QED
      BY <2>2, <3>1
  <2>4. x - 1 \in 0 .. k - i /\ ~(x <= x - 1)
    BY <2>2, <2>3
  <2>5. b[i] <= b[i + (x - 1)]
    BY <2>1, <2>4
  <2>6. PICK m : m = i + x
    OBVIOUS
  <2>7. m \in 1 .. N /\ i + (x - 1) = m - 1 /\ m \in 0 .. N /\ m - 1 \in 0 .. N /\ i \in 0 .. N
    BY <2>2, <2>3, <2>6
  <2>8. b[m - 1] <= b[m] /\ b[m] \in Nat /\ b[m - 1] \in Nat /\ b[i] \in Nat
    BY <2>7, Zenon
  <2>9. b[i] <= b[m - 1] /\ ~(b[i] <= b[m])
    BY <2>2, <2>5, <2>6, <2>7
  <2>10. \A x1, x2, x3 \in Nat : x1 <= x2 /\ x2 <= x3 => x1 <= x3
    OBVIOUS
  <2> QED
    BY <2>8, <2>9, <2>10, Zenon
<1>2. k - i \in 0 .. k - i /\ i + (k - i) = k
  OBVIOUS
<1> QED
  BY <1>1, <1>2

\* Read are the first k fields, which end at "end", and, of the bytes from there to the
\* cut, nothing or one field that is not known.
ReadUpTo(buf, varints, lens, fields, k, end, cut) ==
  \E T :
    /\ ReadFields(buf, varints, lens) = {SubSeq(fields, 1, k) \o t : t \in T}
    /\ cut = end => T = {<<>>}
    /\ cut # end => \A t \in T : \E u : u.no \notin varints \cup lens /\ t = <<u>>

\* Of the first bytes of a message, the fields of its whole pieces are read.
LEMMA ReadOfPieces ==
  ASSUME NEW varints, NEW lens, NEW pieces \in Seq(Seq(Nat)),
         NEW F, NEW fields \in Seq(F), Len(fields) = Len(pieces),
         \A n \in 1 .. Len(pieces) : Piece(varints, lens, pieces[n], fields[n]),
         NEW cut \in Nat, cut <= Len(FlattenSeq(pieces)),
         NEW k \in 0 .. Len(pieces), EndOf(pieces, k) <= cut,
         k < Len(pieces) => cut < EndOf(pieces, k + 1)
  PROVE  ReadUpTo(SubSeq(FlattenSeq(pieces), 1, cut), varints, lens, fields, k,
                  EndOf(pieces, k), cut)
<1> DEFINE N == Len(pieces)
           flat == FlattenSeq(pieces)
           buf == SubSeq(flat, 1, cut)
           ends == [i \in 0 .. N |-> EndOf(pieces, i)]
<1>15. /\ N \in Nat /\ \A i \in 0 .. N : ends[i] = EndOf(pieces, i)
       /\ 0 \in 0 .. N /\ N \in 0 .. N /\ k \in 0 .. N /\ (k < N => k + 1 \in 0 .. N)
       /\ \A i \in 1 .. N : i \in 0 .. N /\ i - 1 \in 0 .. N
  BY LenProperties
<1>16. PICK b : \A i \in 0 .. N : b[i] = EndOf(pieces, i)
  BY <1>15, Zenon
<1>1. /\ N \in Nat /\ b[0] = 0 /\ b[N] = Len(flat)
      /\ \A i \in 0 .. N : b[i] \in Nat /\ b[i] <= Len(flat)
      /\ \A i \in 1 .. N : /\ b[i] = b[i - 1] + Len(pieces[i])
                           /\ \A n \in 1 .. Len(pieces[i]) : flat[b[i - 1] + n] = pieces[i][n]
      /\ \A i \in 1 .. N : pieces[i] \in Seq(Nat) /\ Len(pieces[i]) \in Nat
  <2>1. /\ \A i \in 1 .. N : pieces[i] \in Seq(Nat)
        /\ \A i \in 1 .. N : Len(pieces[i]) \in Nat
    BY LenProperties, ElementOfSeq
  <2>2. /\ EndOf(pieces, 0) = 0
        /\ EndOf(pieces, N) = Len(flat)
        /\ \A i \in 0 .. N : EndOf(pieces, i) \in Nat /\ EndOf(pieces, i) <= Len(flat)
        /\ \A i \in 1 .. N :
              /\ EndOf(pieces, i) = EndOf(pieces, i - 1) + Len(pieces[i])
              /\ \A n \in 1 .. Len(pieces[i]) : flat[EndOf(pieces, i - 1) + n] = pieces[i][n]
    BY PieceEnds
  <2> HIDE DEF N, flat
  <2> QED
    BY <1>15, <1>16, <2>1, <2>2, Zenon
<1>2. flat \in Seq(Nat) /\ Len(flat) \in Nat
  BY FlatType, LenProperties
<1> HIDE DEF N, flat
<1>3. buf \in Seq(Nat) /\ Len(buf) = cut /\ \A i \in 1 .. cut : buf[i] = flat[i]
  <2>1. cut \in Int /\ 1 \in Int /\ \A i \in 1 .. cut : flat[i] \in Nat
    <3>1. \A i \in 1 .. cut : i \in 1 .. Len(flat)
      BY <1>2 DEF flat
    <3>2. \A i \in 1 .. Len(flat) : flat[i] \in Nat
      BY <1>2, ElementOfSeq
    <3> QED
      BY <3>1, <3>2
  <2>2. /\ buf \in Seq(Nat) /\ Len(buf) = (IF 1 <= cut THEN cut - 1 + 1 ELSE 0)
        /\ \A i \in 1 .. cut - 1 + 1 : buf[i] = flat[1 + i - 1]
    BY <2>1, SubSeqProperties
  <2> HIDE DEF buf
  <2> QED
    BY <2>2
<1>4. PICK f : /\ ReadFields(buf, varints, lens) = f[1]
               /\ \A pos \in 1 .. cut + 1 : f[pos] = ReadOn(buf, varints, lens, f, pos)
  <2> HIDE DEF buf
  <2>1. PICK f : /\ ReadFields(buf, varints, lens) = f[1]
                 /\ \A pos \in 1 .. Len(buf) + 1 : f[pos] = ReadOn(buf, varints, lens, f, pos)
    BY <1>3, LoopRuns
  <2> QED
    BY <1>3, <2>1, Zenon
<1>0. b[k] \in Nat /\ b[k] <= cut /\ k \in 0 .. N /\ (k < N => cut < b[k + 1]) /\ cut <= Len(flat)
  <2>1. b[k] = EndOf(pieces, k) /\ (k < N => b[k + 1] = EndOf(pieces, k + 1))
    BY <1>15, <1>16, Zenon
  <2>2. /\ EndOf(pieces, k) <= cut /\ (k < N => cut < EndOf(pieces, k + 1)) /\ cut <= Len(flat)
    BY DEF N, flat
  <2>3. b[k] \in Nat
    BY <1>1, <1>15, Zenon
  <2> QED
    BY <1>15, <2>1, <2>2, <2>3, Zenon
<1> HIDE DEF buf
<1>5. f[cut + 1] = {<<>>}
  <2>1. cut + 1 > Len(buf) /\ cut + 1 \in 1 .. cut + 1
    BY <1>3
  <2> QED
    BY <1>4, <2>1 DEF ReadOn
<1>6. ASSUME NEW pos \in 1 .. cut
      PROVE  f[pos] = UNION {{<<field.value>> \o rest : rest \in f[field.next]} :
                               field \in ReadField(buf, varints, lens, pos)}
  <2>1. ~(pos > Len(buf)) /\ pos \in 1 .. cut + 1
    BY <1>3
  <2> QED
    BY <1>4, <2>1, Zenon DEF ReadOn
<1> DEFINE T == f[b[k] + 1]
<1>7. ASSUME cut # b[k], NEW t \in T
      PROVE  \E u : u.no \notin varints \cup lens /\ t = <<u>>
  <2>0. PICK m : m = k + 1
    OBVIOUS
  <2> DEFINE pos == b[k] + 1
             p == pieces[m]
  <2>1. k < N /\ m \in 1 .. N /\ m - 1 = k
    <3>1. k # N
      <4>1. b[N] = Len(flat)
        BY <1>1
      <4> QED
        BY <1>0, <1>2, <1>7, <4>1
    <3>2. k \in 0 .. N /\ N \in Nat
      BY <1>0, <1>1
    <3> QED
      BY <2>0, <3>1, <3>2
  <2>2. PICK n : n = Len(p)
    OBVIOUS
  <2>13. PICK lo : lo = b[k]
    OBVIOUS
  <2>14. Piece(varints, lens, p, fields[m])
    BY <2>1 DEF N
  <2> HIDE DEF p
  <2>15. /\ n \in Nat /\ p \in Seq(Nat) /\ lo \in Nat
         /\ \A i \in 1 .. n : flat[lo + i] = p[i]
    <3>1. /\ Len(p) \in Nat /\ p \in Seq(Nat)
          /\ \A i \in 1 .. Len(p) : flat[b[m - 1] + i] = p[i]
      BY <1>1, <2>1, Zenon DEF p
    <3> QED
      BY <1>0, <2>1, <2>2, <2>13, <3>1
  <2>4. n # 0
    BY <2>2, <2>14, <2>15, EmptySeq DEF Piece
  <2>12. lo < cut /\ cut < lo + n
    <3>1. b[m] = b[m - 1] + Len(p)
      BY <1>1, <2>1, Zenon DEF p
    <3>2. b[m] = lo + n
      BY <2>1, <2>2, <2>13, <3>1
    <3>3. cut < b[m]
      BY <1>0, <2>0, <2>1
    <3>4. cut < lo + n
      BY <3>2, <3>3
    <3>5. lo <= cut /\ lo # cut
      BY <1>0, <1>7, <2>13
    <3> QED
      BY <2>15, <3>4, <3>5
  <2>3. pos \in 1 .. cut /\ TornAt(buf, pos, p)
    <3>1. lo + 1 \in 1 .. cut /\ TornAt(buf, lo + 1, p)
      <4>1. Len(buf) = cut /\ cut \in Nat
        BY <1>3
      <4>2. \A i \in 1 .. cut : buf[i] = flat[i]
        BY <1>3
      <4>3. n \in Nat /\ lo \in Nat /\ n # 0 /\ Len(p) = n
        BY <2>2, <2>4, <2>15
      <4>4. \A i \in 1 .. n : flat[lo + i] = p[i]
        BY <2>15
      <4> QED
        BY <2>12, <4>1, <4>2, <4>3, <4>4, StandsFrom, ZenonT(40)
    <3> QED
      BY <2>13, <3>1
  <2>5. TornAt(buf, pos, p)
    BY <2>3
  <2>6. T = UNION {{<<field.value>> \o rest : rest \in f[field.next]} :
                     field \in ReadField(buf, varints, lens, pos)}
    BY <1>6, <2>3
  <2>7. PICK field \in ReadField(buf, varints, lens, pos) :
          t \in {<<field.value>> \o rest : rest \in f[field.next]}
    <3> HIDE DEF T, pos
    <3> QED
      BY <1>7, <2>6
  <2>8. PICK u : u.no \notin varints \cup lens /\ field = Got(u, cut + 1)
    BY <1>3, <2>3, <2>5, <2>7, <2>14 DEF Piece
  <2>9. field.value = u /\ field.next = cut + 1
    BY <2>8 DEF Got
  <2>10. t = <<u>> \o <<>>
    BY <1>5, <2>7, <2>9
  <2>11. <<u>> \o <<>> = <<u>>
    <3>1. <<u>> \in Seq({u})
      OBVIOUS
    <3> QED
      BY <3>1, ConcatEmptySeq
  <2> QED
    BY <2>8, <2>10, <2>11
<1>8. cut = b[k] => T = {<<>>}
  BY <1>5
<1> HIDE DEF T
<1> DEFINE G == F \cup {t[1] : t \in T}
<1>9. T \subseteq Seq(G) /\ fields \in Seq(G)
  <2>1. ASSUME NEW t \in T PROVE t \in Seq(G)
    <3>1. CASE cut = b[k]
      <4>1. t = <<>>
        BY <1>8, <3>1
      <4> QED
        BY <4>1, EmptySeq
    <3>2. CASE cut # b[k]
      <4>1. PICK u : t = <<u>>
        BY <1>7, <3>2
      <4>2. t[1] = u
        BY <4>1
      <4>3. u \in G
        BY <4>2
      <4> HIDE DEF G
      <4> QED
        BY <4>1, <4>3
    <3> QED
      BY <3>1, <3>2
  <2>2. F \subseteq G
    OBVIOUS
  <2> HIDE DEF G
  <2>3. fields \in Seq(G)
    BY <2>2, SeqMonotonic
  <2> QED
    BY <2>1, <2>3
<1> HIDE DEF G
<1>10. Len(fields) = N
  BY DEF N
<1> DEFINE C(i) == f[b[i] + 1] = {SubSeq(fields, i + 1, k) \o t : t \in T}
           W == {j \in 0 .. k : ~C(k - j)}
<1>11. ASSUME W # {} PROVE FALSE
  <2>1. PICK j \in W : \A y \in W : j <= y
    <3>1. W \subseteq Nat
      OBVIOUS
    <3> HIDE DEF W
    <3> QED
      BY <1>11, <3>1, Least
  <2>2. j \in 0 .. k /\ ~C(k - j)
    OBVIOUS
  <2>3. j # 0
    <3>1. ASSUME j = 0 PROVE FALSE
      <4>1. k - j = k /\ k + 1 \in Int /\ k \in Int /\ k < k + 1
        BY <1>0, <1>1, <3>1
      <4>2. SubSeq(fields, k + 1, k) = <<>>
        BY <4>1, SubSeqEmpty
      <4>3. \A t \in T : <<>> \o t = t
        BY <1>9, ConcatEmptySeq
      <4>4. {SubSeq(fields, k + 1, k) \o t : t \in T} = T
        BY <4>2, <4>3
      <4>5. C(k)
        BY <4>4 DEF T
      <4> HIDE DEF C
      <4> QED
        BY <2>2, <4>1, <4>5
    <3> QED
      BY <3>1
  <2>4. j - 1 \in 0 .. k /\ ~(j <= j - 1)
    BY <1>0, <1>1, <2>2, <2>3
  <2>5. C(k - (j - 1))
    <3> HIDE DEF C
    <3> QED
      BY <2>1, <2>4
  <2> DEFINE i == k - (j - 1)
  <2>6. i \in 1 .. k /\ i \in 1 .. N /\ k - j = i - 1 /\ i - 1 \in 0 .. N /\ k \in i .. N
    BY <1>0, <1>1, <2>2, <2>3
  <2>7. C(i) /\ ~C(i - 1)
    <3>1. ~C(i - 1)
      <4> HIDE DEF C, i
      <4> QED
        BY <2>2, <2>6
    <3> QED
      BY <2>5, <3>1
  <2> HIDE DEF W, i
  <2>8. C(i - 1)
    <3> DEFINE pos == b[i - 1] + 1
               p == pieces[i]
               next == b[i] + 1
    <3>1. /\ b[i] = b[i - 1] + Len(p) /\ Len(p) \in Nat /\ p \in Seq(Nat) /\ b[i - 1] \in Nat
          /\ \A n \in 1 .. Len(p) : flat[b[i - 1] + n] = p[n]
          /\ Piece(varints, lens, p, fields[i])
      <4>1. Piece(varints, lens, p, fields[i])
        BY <2>6 DEF N
      <4> HIDE DEF p
      <4>2. /\ b[i] = b[i - 1] + Len(p) /\ Len(p) \in Nat /\ p \in Seq(Nat)
            /\ \A n \in 1 .. Len(p) : flat[b[i - 1] + n] = p[n]
        BY <1>1, <2>6, Zenon DEF p
      <4>3. b[i - 1] \in Nat
        BY <1>1, <2>6, Zenon
      <4> QED
        BY <4>1, <4>2, <4>3
    <3> HIDE DEF p
    <3>2. Len(p) # 0
      BY <3>1, EmptySeq DEF Piece
    <3>3. b[i - 1] + Len(p) <= cut
      <4>1. \A n \in 1 .. N : b[n - 1] <= b[n]
        <5>1. ASSUME NEW n \in 1 .. N PROVE b[n - 1] <= b[n]
          <6>1. b[n] = b[n - 1] + Len(pieces[n]) /\ Len(pieces[n]) \in Nat
            BY <1>1, Zenon
          <6>2. b[n - 1] \in Nat
            BY <1>1, <1>15, Zenon
          <6> QED
            BY <6>1, <6>2
        <5> QED
          BY <5>1
      <4>2. i \in 0 .. k /\ \A n \in 0 .. N : b[n] \in Nat
        BY <1>1, <2>6
      <4>3. b[i] <= b[k]
        BY <1>0, <1>1, <4>1, <4>2, EndsGrow
      <4>4. b[i] \in Nat /\ b[k] \in Nat
        BY <1>0, <2>6, <1>15, <4>2, Zenon
      <4>5. b[i] <= cut
        BY <1>0, <4>3, <4>4
      <4> QED
        BY <3>1, <4>5, Zenon
    <3>4. pos \in 1 .. cut /\ StandsAt(buf, pos, p)
      <4>1. PICK n : n = Len(p)
        OBVIOUS
      <4>2. PICK lo : lo = b[i - 1]
        OBVIOUS
      <4>3. /\ n \in Nat /\ n # 0 /\ lo \in Nat /\ lo + n <= cut
            /\ \A a \in 1 .. n : flat[lo + a] = p[a]
        BY <3>1, <3>2, <3>3, <4>1, <4>2
      <4>4. lo + 1 \in 1 .. cut /\ StandsAt(buf, lo + 1, p)
        <5> HIDE DEF pos
        <5> QED
          <6>1. Len(buf) = cut /\ cut \in Nat
            BY <1>3
          <6>2. \A a \in 1 .. cut : buf[a] = flat[a]
            BY <1>3
          <6>3. n \in Nat /\ lo \in Nat /\ n # 0 /\ Len(p) = n /\ lo + n <= cut
            BY <4>1, <4>3
          <6>4. \A a \in 1 .. n : flat[lo + a] = p[a]
            BY <4>3
          <6> QED
            BY <6>1, <6>2, <6>3, <6>4, StandsFrom, ZenonT(40)
      <4> QED
        BY <4>2, <4>4
    <3>5. pos + Len(p) = next
      <4>1. \A x, y \in Nat : (x + 1) + y = (x + y) + 1
        OBVIOUS
      <4> QED
        BY <3>1, <4>1, Zenon
    <3>7. ReadField(buf, varints, lens, pos) = {Got(fields[i], next)}
      <4> HIDE DEF pos, next
      <4>1. ReadField(buf, varints, lens, pos) = {Got(fields[i], pos + Len(p))}
        BY <1>3, <3>1, <3>4, Zenon DEF Piece
      <4> QED
        BY <3>5, <4>1
    <3>8. f[pos] = {<<fields[i]>> \o rest : rest \in f[next]}
      <4> HIDE DEF pos, next
      <4> DEFINE R(field) == {<<field.value>> \o rest : rest \in f[field.next]}
      <4>1. f[pos] = UNION {R(field) : field \in ReadField(buf, varints, lens, pos)}
        BY <1>6, <3>4
      <4> DEFINE g == Got(fields[i], next)
      <4>2. g.value = fields[i] /\ g.next = next
        BY DEF Got
      <4> HIDE DEF g
      <4>3. R(g) = {<<fields[i]>> \o rest : rest \in f[next]}
        BY <4>2
      <4> HIDE DEF R
      <4>4. UNION {R(field) : field \in {g}} = R(g)
        OBVIOUS
      <4> QED
        BY <3>7, <4>1, <4>3, <4>4, Zenon DEF g
    <3> DEFINE s == SubSeq(fields, i + 1, k)
    <3>9. f[next] = {s \o t : t \in T}
      BY <2>7
    <3>10. SubSeq(fields, i, k) = <<fields[i]>> \o s /\ <<fields[i]>> \in Seq(G) /\ s \in Seq(G)
      <4>1. i \in 1 .. Len(fields) /\ k \in i .. Len(fields)
        BY <1>10, <2>6
      <4>2. fields[i] \in G
        BY <1>9, <4>1, ElementOfSeq
      <4>3. s \in Seq(G)
        <5>1. \A n \in i + 1 .. k : n \in 1 .. Len(fields)
          BY <1>1, <1>10, <2>6
        <5>2. \A n \in i + 1 .. k : fields[n] \in G
          BY <1>9, <5>1, ElementOfSeq
        <5>3. i + 1 \in Int /\ k \in Int
          BY <2>6
        <5> QED
          BY <5>2, <5>3, SubSeqProperties
      <4> QED
        BY <1>9, <4>1, <4>2, <4>3, SubSeqRecursiveFirst
    <3> HIDE DEF s, pos, next
    <3>11. \A t \in T : <<fields[i]>> \o (s \o t) = SubSeq(fields, i, k) \o t
      <4>1. \A t \in T : (<<fields[i]>> \o s) \o t = <<fields[i]>> \o (s \o t)
        <5>1. \A t \in T : t \in Seq(G)
          BY <1>9
        <5>2. \A x, y, z \in Seq(G) : (x \o y) \o z = x \o (y \o z)
          BY ConcatAssociative, SMTT(30)
        <5> QED
          BY <3>10, <5>1, <5>2, Zenon
      <4> QED
        BY <3>10, <4>1
    <3>12. f[pos] = {SubSeq(fields, i, k) \o t : t \in T}
      <4>1. {<<fields[i]>> \o rest : rest \in {s \o t : t \in T}}
            = {<<fields[i]>> \o (s \o t) : t \in T}
        OBVIOUS
      <4>2. {<<fields[i]>> \o (s \o t) : t \in T} = {SubSeq(fields, i, k) \o t : t \in T}
        BY <3>11
      <4> QED
        BY <3>8, <3>9, <4>1, <4>2, Zenon
    <3>13. i - 1 + 1 = i
      BY <2>6
    <3> QED
      BY <3>12, <3>13 DEF pos
  <2> QED
    BY <2>7, <2>8
<1>12. C(0)
  <2>1. k \in 0 .. k /\ k - k = 0
    BY <1>0, <1>1
  <2> HIDE DEF C
  <2> QED
    BY <1>11, <2>1
<1>13. f[1] = {SubSeq(fields, 1, k) \o t : t \in T}
  <2>1. b[0] + 1 = 1 /\ 0 + 1 = 1
    BY <1>1
  <2> QED
    BY <1>12, <2>1
<1>14. ReadFields(buf, varints, lens) = {SubSeq(fields, 1, k) \o t : t \in T}
  BY <1>4, <1>13
<1>17. b[k] = EndOf(pieces, k)
  BY <1>15, <1>16, Zenon
<1>18. ReadUpTo(buf, varints, lens, fields, k, b[k], cut)
  BY <1>7, <1>8, <1>14, Zenon DEF ReadUpTo
<1> QED
  BY <1>17, <1>18 DEF buf, flat

-----------------------------------------------------------------------------
(* What a Writer appends.                                                  *)

\* The pieces are one, which is read as the field.
IsField(varints, lens, pieces, no, value) ==
  \E p : pieces = <<p>> /\ Piece(varints, lens, p, [no |-> no, value |-> value])

LEMMA DigitsType ==
  ASSUME NEW n \in Nat
  PROVE  Digits(n) \in U64
<1> DEFINE x == [i \in 1 .. 5 |-> (n \div Worth[i]) % 128]
<1>1. \A i \in 1 .. 5 : Worth[i] \in Nat \ {0}
  BY SMT DEF Worth
<1>2. \A w \in Nat \ {0} : (n \div w) % 128 \in 0 .. 127
  OBVIOUS
<1>3. x \in [1 .. 5 -> Group]
  BY <1>1, <1>2 DEF Group
<1> HIDE DEF x
<1>4. Trim(x) \in U64
  BY <1>3, TrimDigits
<1> QED
  BY <1>4 DEF Digits, x

\* A one-byte group more than its length.
LEMMA UInt64Field ==
  ASSUME NEW no \in FieldNumbers, NEW d \in U64
  PROVE  /\ UInt64Present(no, d) \in Seq(Seq(Nat)) /\ UInt64(no, d) \in Seq(Seq(Nat))
         /\ Len(FlattenSeq(UInt64Present(no, d))) <= 20
         /\ \A varints, lens : no \in varints =>
              /\ IsField(varints, lens, UInt64Present(no, d), no, d)
              /\ d # <<>> => IsField(varints, lens, UInt64(no, d), no, d)
<1> DEFINE tag == Tag(no, VARINT)
           v == VarintBig(d)
           p == tag \o v
<1>1. VARINT \in 0 .. 7
  BY DEF VARINT
<1>2. tag \in Seq(Nat) /\ Len(tag) \in 1 .. 10 /\ v \in Seq(Nat) /\ Len(v) \in 1 .. 10
  BY <1>1, TagBytes, VarintBytes
<1>3. ASSUME NEW varints, NEW lens, no \in varints
      PROVE  Piece(varints, lens, p, [no |-> no, value |-> d])
  <2>1. ContentIs(varints, lens, no, VARINT, v, d)
    BY <1>3, VarintContent
  <2> HIDE DEF v
  <2> QED
    BY <1>1, <1>2, <2>1, PieceOf
<1>4. UInt64Present(no, d) = <<p>>
  BY DEF UInt64Present
<1>5. UInt64(no, d) = IF d = <<>> THEN <<>> ELSE <<p>>
  BY <1>4 DEF UInt64
<1> HIDE DEF tag, v
<1>6. p \in Seq(Nat) /\ Len(p) = Len(tag) + Len(v)
  BY <1>2, ConcatProperties
<1> HIDE DEF p
<1>7. <<p>> \in Seq(Seq(Nat)) /\ <<>> \in Seq(Seq(Nat)) /\ FlattenSeq(<<p>>) = p
  BY <1>6, FlatOne
<1>8. Len(p) <= 20
  <2>1. \A x, y \in 1 .. 10 : x + y <= 20
    OBVIOUS
  <2> QED
    BY <1>2, <1>6, <2>1, Zenon
<1> QED
  BY <1>3, <1>4, <1>5, <1>7, <1>8, Zenon DEF IsField

LEMMA BoolField ==
  ASSUME NEW no \in FieldNumbers, NEW b \in BOOLEAN
  PROVE  /\ Bool(no, b) \in Seq(Seq(Nat))
         /\ Len(FlattenSeq(Bool(no, b))) <= 20
         /\ ~b => Bool(no, b) = <<>>
         /\ b => \A varints, lens : no \in varints => IsField(varints, lens, Bool(no, b), no, <<1>>)
<1>1. VarintBig(<<1>>) = <<1>>
  <2> DEFINE one == <<1>>
  <2>1. DOMAIN one = 1 .. 1 /\ Len(one) = 1 /\ one # <<>> /\ one[1] = 1
    OBVIOUS
  <2>2. VarintBig(one) = [i \in 1 .. 1 |-> one[1]]
    BY <2>1 DEF VarintBig
  <2>3. [i \in 1 .. 1 |-> 1] = <<1>>
    OBVIOUS
  <2> QED
    BY <2>1, <2>2, <2>3
<1>2. <<1>> \in U64
  <2> DEFINE one == <<1>>
  <2>1. one \in Seq(Group) /\ Len(one) = 1 /\ one[1] = 1
    BY DEF Group
  <2> HIDE DEF one
  <2>3. 1 \in 0 .. 10 /\ 1 # 0 /\ 1 # 10
    OBVIOUS
  <2>2. one \in U64
    BY <2>1, <2>3, Zenon DEF U64
  <2> QED
    BY <2>2 DEF one
<1>3. b => Bool(no, b) = UInt64Present(no, <<1>>)
  BY <1>1 DEF Bool, UInt64Present
<1>4. ~b => Bool(no, b) = <<>>
  BY DEF Bool
<1>5. <<>> \in Seq(Seq(Nat)) /\ Len(FlattenSeq(<<>>)) <= 20
  BY FlatNone
<1> QED
  BY <1>2, <1>3, <1>4, <1>5, UInt64Field

LEMMA UInt32Field ==
  ASSUME NEW no \in FieldNumbers, NEW n \in Nat, n < AboveAnyLength
  PROVE  /\ UInt32(no, n) \in Seq(Seq(Nat))
         /\ Len(FlattenSeq(UInt32(no, n))) <= 20
         /\ n = 0 => UInt32(no, n) = <<>>
         /\ n # 0 => \A varints, lens : no \in varints =>
                       IsField(varints, lens, UInt32(no, n), no, Digits(n))
<1>1. Digits(n) \in U64
  BY DigitsType
<1>2. n # 0 => UInt32(no, n) = UInt64Present(no, Digits(n))
  BY DEF UInt32, UInt64Present, Varint
<1>3. n = 0 => UInt32(no, n) = <<>>
  BY DEF UInt32
<1>4. <<>> \in Seq(Seq(Nat)) /\ Len(FlattenSeq(<<>>)) <= 20
  BY FlatNone
<1> HIDE DEF AboveAnyLength
<1> QED
  BY <1>1, <1>2, <1>3, <1>4, UInt64Field, Zenon

LEMMA DelimitedField ==
  ASSUME NEW no \in FieldNumbers, NEW v \in Seq(Nat)
  PROVE  /\ Delimited(no, v) \in Seq(Seq(Nat))
         /\ Len(FlattenSeq(Delimited(no, v))) \in Len(v) .. 20 + Len(v)
         /\ Len(v) < AboveAnyLength => \A varints, lens : no \in lens \ varints =>
              IsField(varints, lens, Delimited(no, v), no, v)
<1> DEFINE tag == Tag(no, LEN)
           length == Varint(Len(v))
           content == length \o v
           p == tag \o content
<1>1. LEN \in 0 .. 7 /\ Len(v) \in Nat
  BY LenProperties DEF LEN
<1>2. tag \in Seq(Nat) /\ Len(tag) \in 1 .. 10
  BY <1>1, TagBytes
<1>3. length \in Seq(Nat) /\ Len(length) \in 1 .. 10
  BY <1>1, DigitsType, VarintBytes DEF Varint
<1>4. ASSUME Len(v) < AboveAnyLength, NEW varints, NEW lens, no \in lens \ varints
      PROVE  Piece(varints, lens, p, [no |-> no, value |-> v])
  <2>1. content \in Seq(Nat) /\ ContentIs(varints, lens, no, LEN, content, v)
    BY <1>4, LenContent
  <2> HIDE DEF content
  <2> QED
    BY <1>1, <2>1, PieceOf
<1>5. Delimited(no, v) = <<p>>
  <2>1. Delimited(no, v) = <<tag \o length \o v>>
    BY Zenon DEF Delimited
  <2> HIDE DEF tag, length
  <2>2a. \A x, y, z \in Seq(Nat) : (x \o y) \o z = x \o (y \o z)
    BY ConcatAssociative, SMTT(30)
  <2>3. (tag \o length) \o v = tag \o (length \o v)
    BY <1>2, <1>3, <2>2a, Zenon
  <2> QED
    BY <2>1, <2>3
<1> HIDE DEF tag, length
<1>6. content \in Seq(Nat) /\ Len(content) = Len(length) + Len(v)
  BY <1>3, ConcatProperties
<1> HIDE DEF content
<1>7. p \in Seq(Nat) /\ Len(p) = Len(tag) + Len(content)
  BY <1>2, <1>6, ConcatProperties
<1> HIDE DEF p
<1>8. <<p>> \in Seq(Seq(Nat)) /\ FlattenSeq(<<p>>) = p
  BY <1>7, FlatOne
<1>9. Len(p) \in Len(v) .. 20 + Len(v)
  <2>1. \A x, y \in 1 .. 10, z \in Nat : x + (y + z) \in z .. 20 + z
    OBVIOUS
  <2> QED
    BY <1>1, <1>2, <1>3, <1>6, <1>7, <2>1, Zenon
<1>10. ASSUME Len(v) < AboveAnyLength, NEW varints, NEW lens, no \in lens \ varints
       PROVE  IsField(varints, lens, Delimited(no, v), no, v)
  BY <1>4, <1>5, <1>10, Zenon DEF IsField
<1> QED
  BY <1>5, <1>8, <1>9, <1>10

LEMMA BytesField ==
  ASSUME NEW no \in FieldNumbers, NEW v \in Seq(Nat)
  PROVE  /\ Bytes(no, v) \in Seq(Seq(Nat))
         /\ Len(FlattenSeq(Bytes(no, v))) \in Len(v) .. 20 + Len(v)
         /\ v = <<>> => Bytes(no, v) = <<>>
         /\ v # <<>> /\ Len(v) < AboveAnyLength => \A varints, lens : no \in lens \ varints =>
              IsField(varints, lens, Bytes(no, v), no, v)
<1>1. CASE v = <<>>
  <2>1. Bytes(no, v) = <<>> /\ <<>> \in Seq(Seq(Nat)) /\ Len(v) = 0 /\ Len(FlattenSeq(<<>>)) = 0
    BY <1>1, FlatNone DEF Bytes
  <2>2. 0 \in 0 .. 20 + 0
    OBVIOUS
  <2> QED
    BY <1>1, <2>1, <2>2, Zenon
<1>2. CASE v # <<>>
  <2>1. Bytes(no, v) = Delimited(no, v)
    BY <1>2 DEF Bytes
  <2> HIDE DEF AboveAnyLength
  <2> QED
    BY <1>2, <2>1, DelimitedField, Zenon
<1> QED
  BY <1>1, <1>2

\* A Writer's content that is shorter than the lengths of four groups of seven bits.
Small(pieces) == Len(FlattenSeq(pieces)) < AboveAnyLength

LEMMA LenOn ==
  ASSUME NEW s \in Seq(Seq(Nat)), NEW t \in Seq(Seq(Nat))
  PROVE  /\ s \o t \in Seq(Seq(Nat))
         /\ Len(FlattenSeq(s)) \in Nat /\ Len(FlattenSeq(t)) \in Nat
         /\ Len(FlattenSeq(s \o t)) = Len(FlattenSeq(s)) + Len(FlattenSeq(t))
         /\ Small(s \o t) => Small(s) /\ Small(t)
<1> DEFINE f == FlattenSeq(s)
           g == FlattenSeq(t)
<1>1. f \in Seq(Nat) /\ g \in Seq(Nat)
  BY FlatType
<1>2. FlattenSeq(s \o t) = f \o g
  BY FlatOn
<1>3. s \o t \in Seq(Seq(Nat))
  BY ConcatProperties
<1> HIDE DEF f, g
<1>4. Len(f \o g) = Len(f) + Len(g)
  BY <1>1, ConcatProperties
<1>5. Len(f) \in Nat /\ Len(g) \in Nat
  BY <1>1, LenProperties
<1>6. \A x, y \in Nat : x + y < AboveAnyLength => x < AboveAnyLength /\ y < AboveAnyLength
  BY DEF AboveAnyLength
<1> QED
  BY <1>2, <1>3, <1>4, <1>5, <1>6, Zenon DEF Small, f, g

\* No piece is longer than all of them.
LEMMA SmallPiece ==
  ASSUME NEW pieces \in Seq(Seq(Nat)), NEW n \in 1 .. Len(pieces)
  PROVE  /\ Len(pieces[n]) \in Nat /\ Len(pieces[n]) <= Len(FlattenSeq(pieces))
<1>1. /\ \A k \in 0 .. Len(pieces) :
              EndOf(pieces, k) \in Nat /\ EndOf(pieces, k) <= Len(FlattenSeq(pieces))
      /\ \A k \in 1 .. Len(pieces) : EndOf(pieces, k) = EndOf(pieces, k - 1) + Len(pieces[k])
  BY PieceEnds, Zenon
<1>2. n \in 0 .. Len(pieces) /\ n - 1 \in 0 .. Len(pieces)
  BY LenProperties
<1>3. pieces[n] \in Seq(Nat)
  BY ElementOfSeq
<1>4. Len(pieces[n]) \in Nat /\ Len(FlattenSeq(pieces)) \in Nat
  BY <1>3, FlatType, LenProperties
<1>5. /\ EndOf(pieces, n) = EndOf(pieces, n - 1) + Len(pieces[n])
      /\ EndOf(pieces, n - 1) \in Nat /\ EndOf(pieces, n) <= Len(FlattenSeq(pieces))
  BY <1>1, <1>2
<1>6. \A x, y, z, w \in Nat : x = y + z /\ x <= w => z <= w
  OBVIOUS
<1> QED
  BY <1>1, <1>2, <1>4, <1>5, <1>6, Zenon

\* Of a repeated field, one piece for each element.
LEMMA EachField ==
  ASSUME NEW no \in FieldNumbers, NEW contents \in Seq(Seq(Nat)), NEW pieces,
         pieces = FlattenSeq([n \in 1 .. Len(contents) |-> Delimited(no, contents[n])])
  PROVE  /\ pieces \in Seq(Seq(Nat)) /\ Len(pieces) = Len(contents)
         /\ \A n \in 1 .. Len(contents) :
              /\ Len(pieces[n]) <= 20 + Len(contents[n])
              /\ Len(pieces[n]) \in Nat /\ Len(contents[n]) \in Nat
              /\ Len(contents[n]) < AboveAnyLength =>
                   \A varints, lens : no \in lens \ varints =>
                     Piece(varints, lens, pieces[n], [no |-> no, value |-> contents[n]])
         /\ Small(pieces) => \A n \in 1 .. Len(contents) : Len(contents[n]) < AboveAnyLength
<1> DEFINE N == Len(contents)
           p == [n \in 1 .. N |-> Delimited(no, contents[n])[1]]
           ss == [n \in 1 .. N |-> Delimited(no, contents[n])]
<1>1. N \in Nat /\ \A n \in 1 .. N : contents[n] \in Seq(Nat) /\ Len(contents[n]) \in Nat
  BY LenProperties, ElementOfSeq
<1> HIDE DEF N
<1>2. ASSUME NEW n \in 1 .. N
      PROVE  /\ p[n] \in Seq(Nat) /\ ss[n] = <<p[n]>> /\ ss[n] \in Seq(Seq(Nat))
             /\ Len(p[n]) \in Nat
             /\ Len(p[n]) <= 20 + Len(contents[n]) /\ Len(contents[n]) <= Len(p[n])
             /\ Len(contents[n]) < AboveAnyLength =>
                  \A varints, lens : no \in lens \ varints =>
                    Piece(varints, lens, p[n], [no |-> no, value |-> contents[n]])
  <2>1. PICK v : v = contents[n]
    OBVIOUS
  <2>2. v \in Seq(Nat) /\ Len(v) \in Nat
    BY <1>1, <2>1
  <2>3. PICK q : Delimited(no, v) = <<q>>
    BY DEF Delimited
  <2>4. p[n] = q /\ ss[n] = <<q>>
    BY <2>1, <2>3
  <2>5. /\ <<q>> \in Seq(Seq(Nat))
        /\ Len(FlattenSeq(<<q>>)) \in Len(v) .. 20 + Len(v)
        /\ Len(v) < AboveAnyLength => \A varints, lens : no \in lens \ varints =>
             IsField(varints, lens, <<q>>, no, v)
    BY <2>2, <2>3, DelimitedField, Zenon
  <2>6. q \in Seq(Nat)
    <3>1. Len(<<q>>) = 1 /\ <<q>>[1] = q /\ 1 \in 1 .. 1
      OBVIOUS
    <3> QED
      BY <2>5, <3>1, ElementOfSeq
  <2>7. FlattenSeq(<<q>>) = q
    BY <2>6, FlatOne
  <2>8. \A varints, lens : IsField(varints, lens, <<q>>, no, v)
                             => Piece(varints, lens, q, [no |-> no, value |-> v])
    <3>1. \A x, y : <<x>> = <<y>> => x = y
      OBVIOUS
    <3> QED
      BY <3>1, Zenon DEF IsField
  <2>9. \A l \in Len(v) .. 20 + Len(v) : l <= 20 + Len(v) /\ Len(v) <= l /\ l \in Nat
    BY <2>2
  <2> HIDE DEF p, ss
  <2> QED
    BY <2>1, <2>4, <2>5, <2>6, <2>7, <2>8, <2>9, Zenon
<1>3. p \in Seq(Seq(Nat)) /\ Len(p) = N /\ ss \in Seq(Seq(Seq(Nat))) /\ Len(ss) = N
  <2>1. p = [n \in 1 .. N |-> p[n]] /\ ss = [n \in 1 .. N |-> ss[n]]
    OBVIOUS
  <2> HIDE DEF p, ss
  <2>2. p \in [1 .. N -> Seq(Nat)] /\ ss \in [1 .. N -> Seq(Seq(Nat))]
    BY <1>2, <2>1
  <2>3. \A S, f : f \in [1 .. N -> S] => f \in Seq(S) /\ Len(f) = N
    BY <1>1
  <2> QED
    BY <2>2, <2>3, Zenon
<1>4. pieces = FlattenSeq(ss)
  BY DEF N
<1> HIDE DEF p, ss
<1>5. FlattenSeq(ss) = p
  <2>1. \A i \in 1 .. Len(p) : ss[i] = <<p[i]>>
    BY <1>2, <1>3
  <2>2. Len(ss) = Len(p) /\ p \in Seq(Seq(Nat)) /\ ss \in Seq(Seq(Seq(Nat)))
    BY <1>3
  <2> QED
    BY <2>1, <2>2, FlatOnes, Zenon
<1>6. ASSUME Small(pieces), NEW n \in 1 .. N PROVE Len(contents[n]) < AboveAnyLength
  <2>1. Len(p[n]) <= Len(FlattenSeq(p))
    BY <1>3, SmallPiece
  <2>2. Len(FlattenSeq(p)) < AboveAnyLength
    BY <1>4, <1>5, <1>6 DEF Small
  <2>3. Len(FlattenSeq(p)) \in Nat
    BY <1>3, FlatType, LenProperties
  <2>4. \A x, y, z \in Nat : x <= y /\ y <= z /\ z < AboveAnyLength => x < AboveAnyLength
    BY DEF AboveAnyLength
  <2> QED
    BY <1>1, <1>2, <2>1, <2>2, <2>3, <2>4, Zenon
<1> QED
  BY <1>1, <1>2, <1>3, <1>4, <1>5, <1>6, Zenon DEF N

\* A bound on the bytes of each piece that a message of the model has.
Few == 1000

\* Any number of pieces of a few bytes are a few bytes for each.
LEMMA FewBytes ==
  ASSUME NEW pieces \in Seq(Seq(Nat)), \A n \in 1 .. Len(pieces) : Len(pieces[n]) <= Few
  PROVE  Len(FlattenSeq(pieces)) <= Few * Len(pieces)
<1> DEFINE N == Len(pieces)
           T == {k \in 0 .. N : ~(EndOf(pieces, k) <= Few * k)}
<1>1. /\ N \in Nat /\ EndOf(pieces, 0) = 0 /\ EndOf(pieces, N) = Len(FlattenSeq(pieces))
      /\ \A k \in 0 .. N : EndOf(pieces, k) \in Nat
      /\ \A k \in 1 .. N : /\ EndOf(pieces, k) = EndOf(pieces, k - 1) + Len(pieces[k])
                           /\ Len(pieces[k]) \in Nat /\ Len(pieces[k]) <= Few
  BY PieceEnds, SmallPiece, LenProperties
<1> HIDE DEF N
<1>2. ASSUME T # {} PROVE FALSE
  <2>1. PICK k \in T : \A y \in T : k <= y
    <3>1. T \subseteq Nat
      OBVIOUS
    <3> HIDE DEF T
    <3> QED
      BY <1>2, <3>1, Least, Zenon
  <2>2. k \in 0 .. N /\ ~(EndOf(pieces, k) <= Few * k)
    OBVIOUS
  <2> HIDE DEF T
  <2>3. k # 0
    BY <1>1, <2>2 DEF Few
  <2>4. k \in 1 .. N /\ k - 1 \in 0 .. N /\ ~(k <= k - 1) /\ k \in Nat
    BY <1>1, <2>2, <2>3
  <2>5. EndOf(pieces, k - 1) <= Few * (k - 1)
    <3>1. k - 1 \notin T
      BY <2>1, <2>4, Zenon
    <3> QED
      BY <2>4, <3>1, Zenon DEF T
  <2>6. /\ EndOf(pieces, k) = EndOf(pieces, k - 1) + Len(pieces[k])
        /\ EndOf(pieces, k) \in Nat /\ EndOf(pieces, k - 1) \in Nat
        /\ Len(pieces[k]) \in Nat /\ Len(pieces[k]) <= Few
    BY <1>1, <2>2, <2>4, Zenon
  <2>7. \A x, y, z, w \in Nat : x = y + z /\ z <= Few /\ w # 0 /\ y <= Few * (w - 1) => x <= Few * w
    BY SMT DEF Few
  <2> QED
    BY <2>2, <2>3, <2>4, <2>5, <2>6, <2>7, Zenon
<1>3. N \in 0 .. N
  BY <1>1
<1> QED
  BY <1>1, <1>2, <1>3 DEF N

-----------------------------------------------------------------------------
(* Whole messages, and messages cut short.                                 *)

\* The fields of all pieces are read, and nothing else.
LEMMA ReadWhole ==
  ASSUME NEW varints, NEW lens, NEW pieces \in Seq(Seq(Nat)),
         NEW F, NEW fields \in Seq(F), Len(fields) = Len(pieces),
         \A n \in 1 .. Len(pieces) : Piece(varints, lens, pieces[n], fields[n])
  PROVE  ReadFields(FlattenSeq(pieces), varints, lens) = {fields}
<1> DEFINE N == Len(pieces)
           flat == FlattenSeq(pieces)
           cut == Len(flat)
<1>1. flat \in Seq(Nat) /\ cut \in Nat /\ N \in 0 .. N
  BY FlatType, LenProperties
<1>2. EndOf(pieces, N) = cut
  BY PieceEnds
<1>3. cut <= cut /\ EndOf(pieces, N) <= cut /\ ~(N < N)
  BY <1>1, <1>2
<1>4. PICK T : /\ ReadFields(SubSeq(flat, 1, cut), varints, lens)
                    = {SubSeq(fields, 1, N) \o t : t \in T}
               /\ cut = EndOf(pieces, N) => T = {<<>>}
  <2> HIDE DEF N, flat, cut
  <2>1. ReadUpTo(SubSeq(flat, 1, cut), varints, lens, fields, N, EndOf(pieces, N), cut)
    BY <1>1, <1>3, ReadOfPieces DEF N, flat, cut
  <2> QED
    BY <2>1, Zenon DEF ReadUpTo
<1>5. SubSeq(flat, 1, cut) = flat
  BY <1>1, SubSeqFull
<1>6. SubSeq(fields, 1, N) = fields /\ fields \o <<>> = fields
  BY SubSeqFull, ConcatEmptySeq
<1>7. {fields \o t : t \in {<<>>}} = {fields}
  BY <1>6
<1> QED
  BY <1>2, <1>4, <1>5, <1>6, <1>7, Zenon

\* The fields that are read of a body cut short: as many as are whole, and perhaps one
\* that the decoder skips.
TornReads(varints, lens, pieces, fields, cut) ==
  \E k \in 0 .. Len(pieces) :
    \A read \in ReadFields(SubSeq(FlattenSeq(pieces), 1, cut), varints, lens) :
      \/ read = SubSeq(fields, 1, k)
      \/ \E u : u.no \notin varints \cup lens /\ read = SubSeq(fields, 1, k) \o <<u>>

\* Of a message cut short, the fields of the pieces before the cut are read, and at
\* most one more that is not known.
LEMMA ReadTorn ==
  ASSUME NEW varints, NEW lens, NEW pieces \in Seq(Seq(Nat)),
         NEW F, NEW fields \in Seq(F), Len(fields) = Len(pieces),
         \A n \in 1 .. Len(pieces) : Piece(varints, lens, pieces[n], fields[n]),
         NEW cut \in 0 .. Len(FlattenSeq(pieces))
  PROVE  TornReads(varints, lens, pieces, fields, cut)
<1> DEFINE N == Len(pieces)
           flat == FlattenSeq(pieces)
           After == {x \in 0 .. N : ~(EndOf(pieces, x) <= cut)}
<1>1. Len(flat) \in Nat /\ N \in Nat /\ cut \in Nat /\ cut <= Len(flat)
  BY FlatType, LenProperties
<1>2. /\ EndOf(pieces, 0) = 0 /\ EndOf(pieces, N) = Len(flat)
      /\ \A k \in 0 .. N : EndOf(pieces, k) \in Nat
  BY PieceEnds
<1> HIDE DEF N, flat
<1>3. PICK k \in 0 .. N : EndOf(pieces, k) <= cut /\ (k < N => cut < EndOf(pieces, k + 1))
  <2>1. CASE After = {}
    <3>1. N \in 0 .. N /\ ~(N < N)
      BY <1>1
    <3>2. EndOf(pieces, N) <= cut
      BY <2>1, <3>1
    <3> HIDE DEF After
    <3> QED
      BY <3>1, <3>2
  <2>2. CASE After # {}
    <3>1. PICK x \in After : \A y \in After : x <= y
      <4>1. After \subseteq Nat
        OBVIOUS
      <4> HIDE DEF After
      <4> QED
        BY <2>2, <4>1, Least, Zenon
    <3>2. x \in 0 .. N /\ ~(EndOf(pieces, x) <= cut)
      OBVIOUS
    <3> HIDE DEF After
    <3>3. x # 0
      BY <1>1, <1>2, <3>2
    <3> DEFINE k == x - 1
    <3>4. k \in 0 .. N /\ k + 1 = x /\ ~(x <= k)
      BY <1>1, <3>2, <3>3
    <3> HIDE DEF k
    <3>5. k \notin After
      BY <3>1, <3>4, Zenon
    <3>6. EndOf(pieces, k) <= cut
      BY <3>4, <3>5, Zenon DEF After
    <3>7. EndOf(pieces, x) \in Nat
      BY <1>2, <3>2, Zenon
    <3>8. cut < EndOf(pieces, x)
      BY <1>1, <3>2, <3>7
    <3> QED
      BY <3>4, <3>6, <3>8
  <2> QED
    BY <2>1, <2>2
<1>4. PICK T : /\ ReadFields(SubSeq(flat, 1, cut), varints, lens)
                    = {SubSeq(fields, 1, k) \o t : t \in T}
               /\ cut = EndOf(pieces, k) => T = {<<>>}
               /\ cut # EndOf(pieces, k)
                      => \A t \in T : \E u : u.no \notin varints \cup lens /\ t = <<u>>
  <2>1. ReadUpTo(SubSeq(flat, 1, cut), varints, lens, fields, k, EndOf(pieces, k), cut)
    BY <1>1, <1>3, ReadOfPieces DEF N, flat
  <2> QED
    BY <2>1, Zenon DEF ReadUpTo
<1>5. SubSeq(fields, 1, k) \in Seq(F)
  <2>1. k \in Int /\ 1 \in Int /\ \A i \in 1 .. k : i \in 1 .. Len(fields)
    BY <1>1 DEF N
  <2>2. \A i \in 1 .. k : fields[i] \in F
    BY <2>1, ElementOfSeq
  <2> QED
    BY <2>1, <2>2, SubSeqProperties
<1>6. SubSeq(fields, 1, k) \o <<>> = SubSeq(fields, 1, k)
  BY <1>5, ConcatEmptySeq
<1>7. ASSUME NEW read \in ReadFields(SubSeq(flat, 1, cut), varints, lens)
      PROVE  \/ read = SubSeq(fields, 1, k)
             \/ \E u : u.no \notin varints \cup lens /\ read = SubSeq(fields, 1, k) \o <<u>>
  <2>1. PICK t \in T : read = SubSeq(fields, 1, k) \o t
    BY <1>4, <1>7
  <2> QED
    BY <1>4, <1>6, <2>1, Zenon
<1> QED
  BY <1>3, <1>7, Zenon DEF N, flat, TornReads

\* Strings and messages of a content that is small.
LEMMA BytesSmall ==
  ASSUME NEW no \in FieldNumbers, NEW v \in Seq(Nat), v # <<>>, Small(Bytes(no, v)),
         NEW varints, NEW lens, no \in lens \ varints
  PROVE  IsField(varints, lens, Bytes(no, v), no, v)
<1> DEFINE n == Len(FlattenSeq(Bytes(no, v)))
<1>1. n \in Len(v) .. 20 + Len(v) /\ n < AboveAnyLength
  BY BytesField DEF Small
<1> HIDE DEF n
<1>2. Len(v) < AboveAnyLength
  <2>1. \A x \in Nat, y \in Int : y \in x .. 20 + x /\ y < AboveAnyLength => x < AboveAnyLength
    BY DEF AboveAnyLength
  <2>2. Len(v) \in Nat /\ n \in Int
    BY <1>1, LenProperties
  <2> QED
    BY <1>1, <2>1, <2>2
<1> QED
  BY <1>2, BytesField, Zenon

LEMMA MessageField ==
  ASSUME NEW no \in FieldNumbers, NEW fields \in Seq(Seq(Nat))
  PROVE  /\ Message(no, fields) \in Seq(Seq(Nat))
         /\ Len(FlattenSeq(Message(no, fields))) <= 20 + Len(FlattenSeq(fields))
         /\ Small(Message(no, fields)) => Small(fields)
         /\ Small(fields) => \A varints, lens : no \in lens \ varints =>
              IsField(varints, lens, Message(no, fields), no, FlattenSeq(fields))
<1> DEFINE v == FlattenSeq(fields)
           n == Len(FlattenSeq(Delimited(no, v)))
<1>1. v \in Seq(Nat) /\ Len(v) \in Nat
  BY FlatType, LenProperties
<1>2. Message(no, fields) = Delimited(no, v)
  BY DEF Message
<1>3. Small(fields) <=> Len(v) < AboveAnyLength
  BY DEF Small
<1>4. Small(Delimited(no, v)) => n < AboveAnyLength
  BY DEF Small
<1> HIDE DEF v
<1>5. n \in Len(v) .. 20 + Len(v)
  BY <1>1, DelimitedField
<1>6. n <= 20 + Len(v) /\ (n < AboveAnyLength => Len(v) < AboveAnyLength)
  <2>1. \A x \in Nat : \A y \in x .. 20 + x :
          y <= 20 + x /\ (y < AboveAnyLength => x < AboveAnyLength)
    BY DEF AboveAnyLength
  <2> HIDE DEF n
  <2> QED
    BY <1>1, <1>5, <2>1, Zenon
<1> QED
  BY <1>1, <1>2, <1>3, <1>4, <1>6, DelimitedField, Zenon DEF v

\* What may be omitted is written or has the value that a reader starts with.
LEMMA Written1 ==
  ASSUME NEW no \in FieldNumbers, NEW varints, NEW lens
  PROVE  /\ no \in varints => \A d \in U64 :
              \/ d = <<>> /\ UInt64(no, d) = <<>>
              \/ IsField(varints, lens, UInt64(no, d), no, d)
         /\ no \in varints => \A b \in BOOLEAN :
              \/ b = FALSE /\ Bool(no, b) = <<>>
              \/ b = TRUE /\ IsField(varints, lens, Bool(no, b), no, <<1>>)
         /\ no \in varints => \A n \in Nat : n < AboveAnyLength =>
              \/ n = 0 /\ UInt32(no, n) = <<>>
              \/ IsField(varints, lens, UInt32(no, n), no, Digits(n))
         /\ no \in lens \ varints => \A v \in Seq(Nat) : Small(Bytes(no, v)) =>
              \/ v = <<>> /\ Bytes(no, v) = <<>>
              \/ IsField(varints, lens, Bytes(no, v), no, v)
<1> HIDE DEF AboveAnyLength
<1>1. ASSUME no \in varints, NEW d \in U64
      PROVE  \/ d = <<>> /\ UInt64(no, d) = <<>>
             \/ IsField(varints, lens, UInt64(no, d), no, d)
  <2>1. d = <<>> => UInt64(no, d) = <<>>
    BY DEF UInt64
  <2> QED
    BY <1>1, <2>1, UInt64Field, Zenon
<1>2. ASSUME no \in varints, NEW b \in BOOLEAN
      PROVE  \/ b = FALSE /\ Bool(no, b) = <<>>
             \/ b = TRUE /\ IsField(varints, lens, Bool(no, b), no, <<1>>)
  BY <1>2, BoolField, Zenon
<1>3. ASSUME no \in varints, NEW n \in Nat, n < AboveAnyLength
      PROVE  \/ n = 0 /\ UInt32(no, n) = <<>>
             \/ IsField(varints, lens, UInt32(no, n), no, Digits(n))
  BY <1>3, UInt32Field, Zenon
<1>4. ASSUME no \in lens \ varints, NEW v \in Seq(Nat), Small(Bytes(no, v))
      PROVE  \/ v = <<>> /\ Bytes(no, v) = <<>>
             \/ IsField(varints, lens, Bytes(no, v), no, v)
  <2>1. v = <<>> => Bytes(no, v) = <<>>
    BY DEF Bytes
  <2> QED
    BY <1>4, <2>1, BytesSmall, Zenon
<1> QED
  BY <1>1, <1>2, <1>3, <1>4, Zenon
=============================================================================
