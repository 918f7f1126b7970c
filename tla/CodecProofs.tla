---------------------------- MODULE CodecProofs ----------------------------
(***************************************************************************)
(* Theorems about the codec of messages.ts: what the decoder of a message  *)
(* makes of the bytes its encoder writes, of the bytes an encoder with     *)
(* fields of its own would write, and of bytes that end too early, for     *)
(* every request and every response; and the two invariants of Codec that  *)
(* follow from them.                                                       *)
(*                                                                         *)
(* Each message takes four steps: its fields, each read back (Wire, by     *)
(* BytesProofs); its loop, which takes the fields one after another        *)
(* (DecoderProofs, instantiated with the message's cases); the bytes the   *)
(* concrete messages of Codec may come to (Short...); and the whole.       *)
(***************************************************************************)
EXTENDS Codec, BytesProofs

-----------------------------------------------------------------------------
(* The messages there are, of every length and with every value.           *)

\* The element of a set of one.
LEMMA OnlyOne ==
  \A x : (CHOOSE v \in {x} : TRUE) = x
  OBVIOUS

\* The numbers of 32 bits that four groups hold.
Small32 == {n \in Nat : n < AboveAnyLength}

EventType == [type : Seq(Nat), tags : Seq(Seq(Nat)), payload : Seq(Nat)]

QueryItemType == [types : Seq(Seq(Nat)), tags : Seq(Seq(Nat))]

QueryType == [all : BOOLEAN, items : Seq(QueryItemType)]

ConditionType == [failIfEventsMatch : QueryType, after : U64, failIfExists : AtMostOne(QueryType)]

AppendRequestType == [events : Seq(EventType), condition : AtMostOne(ConditionType)]

ReadRequestType == [query : QueryType, after : U64, limit : AtMostOne(U64), reverse : BOOLEAN]

SubscribeRequestType == [query : QueryType, after : U64]

CancelRequestType == [target : U64]

HelloType == [protocolVersion : Small32, authToken : AtMostOne(Seq(Nat) \ {<<>>})]

RequestKinds ==
  {Kind("append", c) : c \in AppendRequestType}
    \cup {Kind("read", c) : c \in ReadRequestType}
    \cup {Kind("subscribe", c) : c \in SubscribeRequestType}
    \cup {Kind("cancel", c) : c \in CancelRequestType}
    \cup {Kind("stats", Empty)}
    \cup {Kind("hello", c) : c \in HelloType}
    \cup {NoKind}

RequestType == [requestId : U64, kind : RequestKinds]

\* The pieces of a kind.
RequestContent(kind) ==
  CASE kind.kind = "append" -> Message(2, EncodeAppendRequest(kind.content))
    [] kind.kind = "read" -> Message(3, EncodeReadRequest(kind.content))
    [] kind.kind = "subscribe" -> Message(4, EncodeSubscribeRequest(kind.content))
    [] kind.kind = "cancel" -> Message(5, EncodeCancelRequest(kind.content))
    [] kind.kind = "stats" -> Message(6, <<>>)
    [] kind.kind = "hello" -> Message(7, EncodeHello(kind.content))
    [] kind.kind = "none" -> <<>>

SequencedEventType == [position : U64, event : AtMostOne(EventType)]

AppendResponseType == [first : U64, last : U64]

ReadEventsType == [events : Seq(SequencedEventType)]

ErrorResponseType ==
  [code : Small32, message : Seq(Nat), conflictPosition : AtMostOne(U64), retryable : BOOLEAN]

HelloAckType == [protocolVersion : Small32, serverVersion : Seq(Nat)]

StatsResponseType ==
  {res \in [Range(StatsField) -> Seq(Nat)] :
     \A i \in (1 .. 10) \ {7} : res[StatsField[i]] \in U64}

ResponseKinds ==
  {Kind("append", c) : c \in AppendResponseType}
    \cup {Kind("readEvents", c) : c \in ReadEventsType}
    \cup {Kind("readEnd", [watermark |-> w]) : w \in U64}
    \cup {Kind("error", c) : c \in ErrorResponseType}
    \cup {Kind("caughtUp", [watermark |-> w]) : w \in U64}
    \cup {Kind("stats", c) : c \in StatsResponseType}
    \cup {Kind("helloAck", c) : c \in HelloAckType}
    \cup {NoKind}

ResponseType == [requestId : U64, kind : ResponseKinds]

\* The pieces of a kind.
ResponseContent(kind) ==
  CASE kind.kind = "append" -> Message(2, EncodeAppendResponse(kind.content))
    [] kind.kind = "readEvents" -> Message(3, EncodeReadEvents(kind.content))
    [] kind.kind = "readEnd" -> Message(4, EncodeWatermark(kind.content.watermark))
    [] kind.kind = "error" -> Message(5, EncodeErrorResponse(kind.content))
    [] kind.kind = "caughtUp" -> Message(6, EncodeWatermark(kind.content.watermark))
    [] kind.kind = "stats" -> Message(7, EncodeStatsResponse(kind.content))
    [] kind.kind = "helloAck" -> Message(8, EncodeHelloAck(kind.content))
    [] kind.kind = "none" -> <<>>

LEMMA StatsFields ==
  /\ DOMAIN StatsField = 1 .. 10 /\ StatsField[7] = "version"
  /\ \A i \in 1 .. 10 : StatsField[i] \in Range(StatsField)
  /\ (1 .. 10) \subseteq FieldNumbers
<1>1. DOMAIN StatsField = 1 .. 10 /\ StatsField[7] = "version"
  BY DEF StatsField
<1>2. (1 .. 10) \subseteq FieldNumbers
  BY DEF FieldNumbers
<1> QED
  BY <1>1, <1>2, Zenon DEF Range

\* The field of a number.
StatPiece(res, i) ==
  IF i = 7 THEN Bytes(i, res.version) ELSE UInt64(i, res[StatsField[i]])

LEMMA StatPieceType ==
  ASSUME NEW res \in StatsResponseType, NEW i \in 1 .. 10
  PROVE  /\ StatPiece(res, i) \in Seq(Seq(Nat))
         /\ Small(StatPiece(res, i)) =>
              \/ StatPiece(res, i) = <<>> /\ res[StatsField[i]] = <<>>
              \/ IsField((1 .. 10) \ {7}, {7}, StatPiece(res, i), i, res[StatsField[i]])
<1>1. i \in FieldNumbers
  BY StatsFields
<1>2. CASE i = 7
  <2> DEFINE v == res[StatsField[7]]
  <2>1. v \in Seq(Nat)
    BY StatsFields DEF StatsResponseType
  <2>2. StatPiece(res, i) = Bytes(7, v)
    BY <1>2, StatsFields DEF StatPiece
  <2>3. 7 \in {7} \ ((1 .. 10) \ {7})
    OBVIOUS
  <2> HIDE DEF v
  <2>4. /\ Bytes(7, v) \in Seq(Seq(Nat))
        /\ Small(Bytes(7, v)) =>
             \/ Bytes(7, v) = <<>> /\ v = <<>>
             \/ IsField((1 .. 10) \ {7}, {7}, Bytes(7, v), 7, v)
    <3>1. 7 \in FieldNumbers
      BY <1>1, <1>2
    <3> QED
      BY <2>1, <2>3, <3>1, BytesField, BytesSmall
  <2> QED
    BY <1>2, <2>2, <2>4 DEF v
<1>3. CASE i # 7
  <2> DEFINE d == res[StatsField[i]]
  <2>1. d \in U64 /\ StatPiece(res, i) = UInt64(i, d)
    BY <1>3 DEF StatsResponseType, StatPiece
  <2>2. i \in (1 .. 10) \ {7}
    BY <1>3
  <2> HIDE DEF d
  <2>3. UInt64(i, d) \in Seq(Seq(Nat))
    BY <1>1, <2>1, UInt64Field
  <2>4. \A varints, lens : i \in varints =>
          (UInt64(i, d) = <<>> /\ d = <<>>) \/ IsField(varints, lens, UInt64(i, d), i, d)
    BY <1>1, <2>1, Written1
  <2>5. (UInt64(i, d) = <<>> /\ d = <<>>)
          \/ IsField((1 .. 10) \ {7}, {7}, UInt64(i, d), i, d)
    BY <2>2, <2>4
  <2> QED
    BY <2>1, <2>3, <2>5 DEF d
<1> QED
  BY <1>2, <1>3

\* A number of fields of the stats, in their order.
StatPieces(res, n) == FlattenSeq([i \in 1 .. n |-> StatPiece(res, i)])

LEMMA StatPiecesOn ==
  ASSUME NEW res \in StatsResponseType
  PROVE  /\ StatPieces(res, 0) = <<>>
         /\ \A n \in 0 .. 10 : StatPieces(res, n) \in Seq(Seq(Nat))
         /\ \A n \in 1 .. 10 :
              StatPieces(res, n) = StatPieces(res, n - 1) \o StatPiece(res, n)
<1> DEFINE P(n) == [i \in 1 .. n |-> StatPiece(res, i)]
<1>1. ASSUME NEW n \in 0 .. 10 PROVE P(n) \in Seq(Seq(Seq(Nat))) /\ Len(P(n)) = n
  <2>1. P(n) \in [1 .. n -> Seq(Seq(Nat))]
    <3>1. \A i \in 1 .. n : i \in 1 .. 10
      OBVIOUS
    <3> QED
      BY <3>1, StatPieceType
  <2> HIDE DEF P
  <2> QED
    BY <2>1
<1>2. StatPieces(res, 0) = <<>>
  <2>1. P(0) = <<>>
    <3>1. Len(P(0)) = 0 /\ P(0) \in Seq(Seq(Seq(Nat)))
      BY <1>1
    <3> HIDE DEF P
    <3> QED
      BY <3>1, EmptySeq
  <2> HIDE DEF P
  <2>2. FlattenSeq(P(0)) = <<>>
    BY <2>1, FlatNone
  <2> QED
    BY <2>2 DEF P, StatPieces
<1>3. ASSUME NEW n \in 0 .. 10 PROVE StatPieces(res, n) \in Seq(Seq(Nat))
  <2>1. P(n) \in Seq(Seq(Seq(Nat)))
    BY <1>1
  <2>2. StatPieces(res, n) = FlattenSeq(P(n))
    BY DEF StatPieces
  <2> HIDE DEF P
  <2> QED
    BY <2>1, <2>2, FlatType
<1>4. ASSUME NEW n \in 1 .. 10
      PROVE  StatPieces(res, n) = StatPieces(res, n - 1) \o StatPiece(res, n)
  <2>1. P(n) \in Seq(Seq(Seq(Nat))) /\ Len(P(n)) = n /\ n \in 1 .. n
    <3>1. n \in 0 .. 10 /\ n \in 1 .. n
      OBVIOUS
    <3> QED
      BY <1>1, <3>1, Zenon
  <2>2. P(n)[n] = StatPiece(res, n) /\ \A i \in 1 .. n : P(n)[i] = StatPiece(res, i)
    OBVIOUS
  <2>3. SubSeq(P(n), 1, n) = P(n) /\ SubSeq(P(n), 1, n - 1) = P(n - 1)
    <3>1. P(n - 1) \in Seq(Seq(Seq(Nat))) /\ Len(P(n - 1)) = n - 1 /\ n - 1 \in Nat
      <4>1. n - 1 \in 0 .. 10 /\ n - 1 \in Nat
        OBVIOUS
      <4> QED
        BY <1>1, <4>1, Zenon
    <3>2. \A i \in 1 .. n - 1 : P(n - 1)[i] = P(n)[i]
      BY <2>2
    <3> HIDE DEF P
    <3> QED
      BY <2>1, <3>1, <3>2
  <2>4. FlattenSeq(SubSeq(P(n), 1, n)) = FlattenSeq(SubSeq(P(n), 1, n - 1)) \o P(n)[n]
    <3> HIDE DEF P
    <3> QED
      BY <2>1, FlatMore
  <2>5. FlattenSeq(P(n)) = FlattenSeq(P(n - 1)) \o StatPiece(res, n)
    <3> HIDE DEF P
    <3> QED
      BY <2>2, <2>3, <2>4
  <2> QED
    BY <2>5 DEF StatPieces
<1> QED
  BY <1>2, <1>3, <1>4

\* An empty token is written as none.
LEMMA HelloEmpty ==
  ASSUME NEW n
  PROVE  EncodeHello([protocolVersion |-> n, authToken |-> {<<>>}])
           = EncodeHello([protocolVersion |-> n, authToken |-> {}])
<1>1. Bytes(2, <<>>) = <<>>
  BY DEF Bytes
<1>2. /\ {<<>>} # {}
      /\ (CHOOSE v \in {<<>>} : TRUE) = <<>>
  BY OnlyOne
<1>3. Present(LAMBDA token : Bytes(2, token), {<<>>}) = <<>>
  BY <1>1, <1>2 DEF Present
<1>4. Present(LAMBDA token : Bytes(2, token), {}) = <<>>
  BY DEF Present
<1> QED
  BY <1>3, <1>4 DEF EncodeHello

-----------------------------------------------------------------------------
(* The bodies of the model: their messages have the types above, and their *)
(* content is far below the length at which Number saturates.              *)

\* Pieces of a number of bytes at most.
Short(pieces, n) == pieces \in Seq(Seq(Nat)) /\ Len(FlattenSeq(pieces)) <= n

LEMMA ShortOn ==
  ASSUME NEW a \in Nat, NEW b \in Nat, NEW n \in Nat, a + b <= n,
         NEW s, NEW t, Short(s, a), Short(t, b)
  PROVE  Short(s \o t, n)
<1>1. /\ s \in Seq(Seq(Nat)) /\ t \in Seq(Seq(Nat))
      /\ Len(FlattenSeq(s)) <= a /\ Len(FlattenSeq(t)) <= b
  BY DEF Short
<1>2. /\ s \o t \in Seq(Seq(Nat))
      /\ Len(FlattenSeq(s)) \in Nat /\ Len(FlattenSeq(t)) \in Nat
      /\ Len(FlattenSeq(s \o t)) = Len(FlattenSeq(s)) + Len(FlattenSeq(t))
  BY <1>1, LenOn
<1>3. \A x, y \in Nat : x <= a /\ y <= b => x + y <= n
  OBVIOUS
<1>4. Len(FlattenSeq(s)) + Len(FlattenSeq(t)) <= n
  BY <1>1, <1>2, <1>3
<1> QED
  BY <1>2, <1>4 DEF Short

LEMMA ShortNone == \A n \in Nat : Short(<<>>, n)
<1>1. <<>> \in Seq(Seq(Nat)) /\ Len(<<>>) = 0
  BY EmptySeq
<1>2. Len(FlattenSeq(<<>>)) = 0
  BY <1>1, FlatNone
<1> QED
  BY <1>1, <1>2 DEF Short

LEMMA ShortWider ==
  ASSUME NEW s, NEW a \in Nat, NEW n \in Nat, a <= n, Short(s, a)
  PROVE  Short(s, n)
<1>1. s \in Seq(Seq(Nat)) /\ Len(FlattenSeq(s)) <= a
  BY DEF Short
<1>2. Len(FlattenSeq(s)) \in Nat
  BY <1>1, FlatType, LenProperties
<1>3. \A x \in Nat : x <= a => x <= n
  OBVIOUS
<1> QED
  BY <1>1, <1>2, <1>3 DEF Short

\* At most two elements of a repeated field.
LEMMA ShortTwo ==
  ASSUME NEW n \in Nat, NEW ss \in Seq(Seq(Seq(Nat))), Len(ss) <= 2,
         \A i \in 1 .. Len(ss) : Short(ss[i], n)
  PROVE  Short(FlattenSeq(ss), n + n)
<1>1. Len(ss) = 0 \/ Len(ss) = 1 \/ Len(ss) = 2
  <2>1. Len(ss) \in Nat
    BY LenProperties
  <2>2. \A k \in Nat : k <= 2 => k = 0 \/ k = 1 \/ k = 2
    OBVIOUS
  <2> QED
    BY <2>1, <2>2, Zenon
<1>2. CASE Len(ss) = 0
  <2>1. ss = <<>>
    BY <1>2, EmptySeq
  <2> QED
    BY <2>1, FlatNone, ShortNone
<1>3. CASE Len(ss) = 1
  <2>1. Short(ss[1], n) /\ ss[1] \in Seq(Seq(Nat))
    BY <1>3, ElementOfSeq
  <2>2. ss = <<ss[1]>>
    BY <1>3
  <2>3. FlattenSeq(<<ss[1]>>) = ss[1]
    BY <2>1, FlatOne
  <2>4. Short(ss[1], n + n)
    BY <2>1, ShortWider
  <2> QED
    BY <2>2, <2>3, <2>4
<1>4. CASE Len(ss) = 2
  <2>1. /\ Short(ss[1], n) /\ ss[1] \in Seq(Seq(Nat))
        /\ Short(ss[2], n) /\ ss[2] \in Seq(Seq(Nat))
    BY <1>4, ElementOfSeq
  <2>2. ss = <<ss[1]>> \o <<ss[2]>>
    BY <1>4
  <2>3. /\ FlattenSeq(<<ss[1]>>) = ss[1] /\ FlattenSeq(<<ss[2]>>) = ss[2]
        /\ <<ss[1]>> \in Seq(Seq(Seq(Nat))) /\ <<ss[2]>> \in Seq(Seq(Seq(Nat)))
    BY <2>1, FlatOne
  <2>4. FlattenSeq(<<ss[1]>> \o <<ss[2]>>) = ss[1] \o ss[2]
    BY <2>3, FlatOn
  <2>5. Short(ss[1] \o ss[2], n + n)
    BY <2>1, ShortOn
  <2> QED
    BY <2>2, <2>4, <2>5
<1> QED
  BY <1>1, <1>2, <1>3, <1>4

\* The fields of a Writer.
LEMMA ShortField ==
  ASSUME NEW no \in FieldNumbers
  PROVE  /\ \A d \in U64 : Short(UInt64(no, d), 20) /\ Short(UInt64Present(no, d), 20)
         /\ \A b \in BOOLEAN : Short(Bool(no, b), 20)
         /\ \A n \in Small32 : Short(UInt32(no, n), 20)
<1>1. ASSUME NEW d \in U64 PROVE Short(UInt64(no, d), 20) /\ Short(UInt64Present(no, d), 20)
  <2>1. Short(UInt64Present(no, d), 20)
    BY UInt64Field DEF Short
  <2>2. UInt64(no, d) = <<>> \/ UInt64(no, d) = UInt64Present(no, d)
    BY DEF UInt64
  <2> QED
    BY <2>1, <2>2, ShortNone
<1>2. ASSUME NEW b \in BOOLEAN PROVE Short(Bool(no, b), 20)
  BY BoolField DEF Short
<1>3. ASSUME NEW n \in Small32 PROVE Short(UInt32(no, n), 20)
  BY UInt32Field DEF Short, Small32
<1> QED
  BY <1>1, <1>2, <1>3

LEMMA ShortBytes ==
  ASSUME NEW no \in FieldNumbers, NEW n \in Nat, NEW v \in Seq(Nat), Len(v) <= n
  PROVE  Short(Bytes(no, v), 20 + n) /\ Short(Delimited(no, v), 20 + n)
<1>1. /\ Bytes(no, v) \in Seq(Seq(Nat)) /\ Delimited(no, v) \in Seq(Seq(Nat))
      /\ Len(FlattenSeq(Bytes(no, v))) \in Len(v) .. 20 + Len(v)
      /\ Len(FlattenSeq(Delimited(no, v))) \in Len(v) .. 20 + Len(v)
  BY BytesField, DelimitedField
<1>2. \A k \in Nat : \A x \in k .. 20 + k : k <= n => x <= 20 + n
  OBVIOUS
<1>3. Len(v) \in Nat
  BY LenProperties
<1>4. Len(FlattenSeq(Bytes(no, v))) <= 20 + n /\ Len(FlattenSeq(Delimited(no, v))) <= 20 + n
  BY <1>1, <1>2, <1>3, Zenon
<1> QED
  BY <1>1, <1>4 DEF Short

LEMMA ShortMessage ==
  ASSUME NEW no \in FieldNumbers, NEW n \in Nat, NEW fields, Short(fields, n)
  PROVE  Short(Message(no, fields), 20 + n)
<1>1. fields \in Seq(Seq(Nat)) /\ Len(FlattenSeq(fields)) <= n
  BY DEF Short
<1>2. FlattenSeq(fields) \in Seq(Nat)
  BY <1>1, FlatType
<1>3. Short(Delimited(no, FlattenSeq(fields)), 20 + n)
  BY <1>1, <1>2, ShortBytes
<1> QED
  BY <1>3 DEF Message

\* Such content is small.
LEMMA ShortSmall ==
  ASSUME NEW s, NEW n \in Nat, n <= Few, Short(s, n)
  PROVE  s \in Seq(Seq(Nat)) /\ Small(s)
<1>1. s \in Seq(Seq(Nat)) /\ Len(FlattenSeq(s)) <= n
  BY DEF Short
<1>2. Len(FlattenSeq(s)) \in Nat
  BY <1>1, FlatType, LenProperties
<1>3. \A x, y \in Nat : x <= y /\ y <= Few => x < AboveAnyLength
  BY SMT DEF AboveAnyLength, Few
<1>4. Len(FlattenSeq(s)) < AboveAnyLength
  BY <1>1, <1>2, <1>3, Zenon
<1> QED
  BY <1>1, <1>4 DEF Small

\* Strings of a byte at most, and lists of two of them at most.
Words == {s \in Seq(Nat) : Len(s) <= 1}
WordLists == {t \in Seq(Words) : Len(t) <= 2}

LEMMA SeqWider ==
  ASSUME NEW S, NEW T, S \subseteq T, NEW s \in Seq(S)
  PROVE  s \in Seq(T)
  OBVIOUS

LEMMA WordsType == Words \subseteq Seq(Nat) /\ WordLists \subseteq Seq(Seq(Nat))
<1>1. Words \subseteq Seq(Nat)
  BY DEF Words
<1> QED
  BY <1>1, SeqWider DEF WordLists

LEMMA WordLists2 ==
  ASSUME NEW t \in WordLists
  PROVE  t \in Seq(Seq(Nat)) /\ Len(t) <= 2 /\ \A n \in 1 .. Len(t) : Len(t[n]) <= 1
<1>1. t \in Seq(Words) /\ Len(t) <= 2
  BY DEF WordLists
<1>2. \A n \in 1 .. Len(t) : t[n] \in Words
  BY <1>1, ElementOfSeq
<1> QED
  BY <1>1, <1>2, WordsType DEF Words

\* A repeated field of two elements at most.
LEMMA ShortRepeated ==
  ASSUME NEW no \in FieldNumbers, NEW n \in Nat, NEW b \in Nat, b = (20 + n) + (20 + n),
         NEW contents \in Seq(Seq(Nat)), Len(contents) <= 2,
         \A i \in 1 .. Len(contents) : Len(contents[i]) <= n
  PROVE  Short(FlattenSeq([i \in 1 .. Len(contents) |-> Delimited(no, contents[i])]), b)
<1> DEFINE N == Len(contents)
           ss == [i \in 1 .. N |-> Delimited(no, contents[i])]
<1>1. N \in Nat /\ N <= 2 /\ \A i \in 1 .. N : contents[i] \in Seq(Nat)
  BY LenProperties, ElementOfSeq
<1>2. ASSUME NEW i \in 1 .. N PROVE Short(Delimited(no, contents[i]), 20 + n)
  BY <1>1, ShortBytes
<1>3. \A i \in 1 .. N : Delimited(no, contents[i]) \in Seq(Seq(Nat))
  BY <1>2 DEF Short
<1> HIDE DEF N
<1>4. ss \in [1 .. N -> Seq(Seq(Nat))] /\ \A i \in 1 .. N : Short(ss[i], 20 + n)
  BY <1>2, <1>3
<1> HIDE DEF ss
<1>5. ss \in Seq(Seq(Seq(Nat))) /\ Len(ss) = N
  BY <1>1, <1>4
<1>6. 20 + n \in Nat
  OBVIOUS
<1>7. Short(FlattenSeq(ss), (20 + n) + (20 + n))
  BY <1>1, <1>4, <1>5, <1>6, ShortTwo
<1> QED
  BY <1>7 DEF ss, N

LEMMA ShortWords ==
  ASSUME NEW no \in FieldNumbers, NEW t \in WordLists
  PROVE  Short(FlattenSeq([n \in 1 .. Len(t) |-> Delimited(no, t[n])]), 42)
<1>1. t \in Seq(Seq(Nat)) /\ Len(t) <= 2 /\ \A n \in 1 .. Len(t) : Len(t[n]) <= 1
  BY WordLists2
<1>2. 1 \in Nat /\ 42 \in Nat /\ 42 = (20 + 1) + (20 + 1)
  OBVIOUS
<1> QED
  BY <1>1, <1>2, ShortRepeated

ShortEvents == [type : Words, tags : WordLists, payload : Words]

LEMMA ShortEventType == ShortEvents \subseteq EventType
  BY WordsType DEF ShortEvents, EventType

LEMMA ShortEvent ==
  ASSUME NEW message \in ShortEvents
  PROVE  Short(EncodeEvent(message), 84)
<1> DEFINE p == message.type
           q == message.tags
           r == message.payload
           a == Bytes(1, p)
           b == FlattenSeq([n \in 1 .. Len(q) |-> Delimited(2, q[n])])
           c == Bytes(3, r)
<1>1. p \in Words /\ q \in WordLists /\ r \in Words
  BY DEF ShortEvents
<1>2. 1 \in FieldNumbers /\ 2 \in FieldNumbers /\ 3 \in FieldNumbers
  BY DEF FieldNumbers
<1>3. EncodeEvent(message) = (a \o b) \o c
  <2>1. DOMAIN q = 1 .. Len(q)
    <3>1. q \in Seq(Words)
      BY <1>1 DEF WordLists
    <3> QED
      BY <3>1, LenProperties
  <2> QED
    BY <2>1, Zenon DEF EncodeEvent, Each
<1> HIDE DEF p, q, r
<1>4. Short(a, 21)
  <2>1. p \in Seq(Nat) /\ Len(p) <= 1
    BY <1>1 DEF Words
  <2>2. Short(Bytes(1, p), 20 + 1)
    BY <1>2, <2>1, ShortBytes
  <2> QED
    BY <2>2
<1>5. Short(b, 42)
  BY <1>1, <1>2, ShortWords
<1>6. Short(c, 21)
  <2>1. r \in Seq(Nat) /\ Len(r) <= 1
    BY <1>1 DEF Words
  <2>2. Short(Bytes(3, r), 20 + 1)
    BY <1>2, <2>1, ShortBytes
  <2> QED
    BY <2>2
<1> HIDE DEF a, b, c
<1>7. Short(a \o b, 63)
  BY <1>4, <1>5, ShortOn
<1> QED
  <2>1. Short((a \o b) \o c, 84)
    BY <1>7, <1>6, ShortOn
  <2> QED
    BY <1>3, <2>1

ShortQueryItems == [types : WordLists, tags : WordLists]

LEMMA ShortQueryItemType == ShortQueryItems \subseteq QueryItemType
  BY WordsType DEF ShortQueryItems, QueryItemType

LEMMA ShortQueryItem ==
  ASSUME NEW message \in ShortQueryItems
  PROVE  Short(EncodeQueryItem(message), 84)
<1> DEFINE p == message.types
           q == message.tags
           a == FlattenSeq([n \in 1 .. Len(p) |-> Delimited(1, p[n])])
           b == FlattenSeq([n \in 1 .. Len(q) |-> Delimited(2, q[n])])
<1>1. p \in WordLists /\ q \in WordLists
  BY DEF ShortQueryItems
<1>2. 1 \in FieldNumbers /\ 2 \in FieldNumbers
  BY DEF FieldNumbers
<1>3. EncodeQueryItem(message) = a \o b
  <2>1. DOMAIN p = 1 .. Len(p) /\ DOMAIN q = 1 .. Len(q)
    <3>1. p \in Seq(Words) /\ q \in Seq(Words)
      BY <1>1 DEF WordLists
    <3> QED
      BY <3>1, LenProperties
  <2> QED
    BY <2>1, Zenon DEF EncodeQueryItem, Each
<1> HIDE DEF p, q
<1>4. Short(a, 42)
  BY <1>1, <1>2, ShortWords
<1>5. Short(b, 42)
  BY <1>1, <1>2, ShortWords
<1> HIDE DEF a, b
<1> QED
  <2>1. Short(a \o b, 84)
    BY <1>4, <1>5, ShortOn
  <2> QED
    BY <1>3, <2>1

ShortQueries == [all : BOOLEAN, items : {s \in Seq(ShortQueryItems) : Len(s) <= 2}]

LEMMA ShortQueryType == ShortQueries \subseteq QueryType
<1>1. ASSUME NEW message \in ShortQueries PROVE message \in QueryType
  <2>1. message.all \in BOOLEAN
    BY DEF ShortQueries
  <2>2. message.items \in Seq(QueryItemType)
    <3>1. message.items \in Seq(ShortQueryItems)
      BY DEF ShortQueries
    <3> QED
      BY <3>1, ShortQueryItemType, SeqWider
  <2>3. message = [all |-> message.all, items |-> message.items]
    BY DEF ShortQueries
  <2> QED
    BY <2>1, <2>2, <2>3 DEF QueryType
<1> QED
  BY <1>1

LEMMA ShortQuery ==
  ASSUME NEW message \in ShortQueries
  PROVE  Short(EncodeQuery(message), 228)
<1> DEFINE p == message.all
           q == message.items
           a == Bool(1, p)
           b == FlattenSeq([n \in 1 .. Len(q) |-> Message(2, EncodeQueryItem(q[n]))])
<1>1. p \in BOOLEAN /\ q \in {s \in Seq(ShortQueryItems) : Len(s) <= 2}
  BY DEF ShortQueries
<1>2. 1 \in FieldNumbers /\ 2 \in FieldNumbers
  BY DEF FieldNumbers
<1>3. EncodeQuery(message) = a \o b
  <2>1. DOMAIN q = 1 .. Len(q)
    <3>1. q \in Seq(ShortQueryItems)
      BY <1>1 DEF WordLists
    <3> QED
      BY <3>1, LenProperties
  <2> QED
    BY <2>1, Zenon DEF EncodeQuery, Each
<1> HIDE DEF p, q
<1>4. Short(a, 20)
  BY <1>1, <1>2, ShortField
<1>5. Short(b, 208)
  <2> DEFINE contents == [n \in 1 .. Len(q) |-> FlattenSeq(EncodeQueryItem(q[n]))]
  <2>1. q \in Seq(ShortQueryItems) /\ Len(q) <= 2 /\ Len(q) \in Nat
    BY <1>1, LenProperties
  <2>2. ASSUME NEW n \in 1 .. Len(q)
        PROVE  /\ FlattenSeq(EncodeQueryItem(q[n])) \in Seq(Nat)
               /\ Len(FlattenSeq(EncodeQueryItem(q[n]))) <= 84
    <3>1. q[n] \in ShortQueryItems
      BY <2>1, ElementOfSeq
    <3>2. Short(EncodeQueryItem(q[n]), 84)
      BY <3>1, ShortQueryItem
    <3>3. EncodeQueryItem(q[n]) \in Seq(Seq(Nat)) /\ Len(FlattenSeq(EncodeQueryItem(q[n]))) <= 84
      BY <3>2 DEF Short
    <3> QED
      BY <3>3, FlatType
  <2>3. contents \in [1 .. Len(q) -> Seq(Nat)]
    BY <2>2
  <2>4. \A n \in 1 .. Len(q) : Len(contents[n]) <= 84
    BY <2>2
  <2>5. b = FlattenSeq([n \in 1 .. Len(q) |-> Delimited(2, contents[n])])
    BY Zenon DEF Message
  <2> HIDE DEF contents, b
  <2>6. contents \in Seq(Seq(Nat)) /\ Len(contents) = Len(q)
    BY <2>1, <2>3
  <2>7. 84 \in Nat /\ 208 \in Nat /\ 208 = (20 + 84) + (20 + 84)
    OBVIOUS
  <2>8. Len(contents) <= 2 /\ \A n \in 1 .. Len(contents) : Len(contents[n]) <= 84
    BY <2>1, <2>4, <2>6, SMTT(30)
  <2>9. b = FlattenSeq([n \in 1 .. Len(contents) |-> Delimited(2, contents[n])])
    BY <2>5, <2>6, Zenon
  <2> QED
    BY <1>2, <2>6, <2>7, <2>8, <2>9, ShortRepeated
<1> HIDE DEF a, b
<1> QED
  <2>1. Short(a \o b, 228)
    BY <1>4, <1>5, ShortOn
  <2> QED
    BY <1>3, <2>1

ShortConditions ==
  [failIfEventsMatch : ShortQueries, after : U64, failIfExists : AtMostOne(ShortQueries)]

LEMMA ShortConditionType == ShortConditions \subseteq ConditionType
  BY ShortQueryType DEF ShortConditions, ConditionType, AtMostOne

LEMMA ShortCondition ==
  ASSUME NEW message \in ShortConditions
  PROVE  Short(EncodeCondition(message), 516)
<1> DEFINE p == message.failIfEventsMatch
           q == message.after
           r == message.failIfExists
           a == Message(1, EncodeQuery(p))
           b == UInt64(2, q)
           c == Present(LAMBDA x : Message(3, EncodeQuery(x)), r)
<1>1. p \in ShortQueries /\ q \in U64 /\ r \in AtMostOne(ShortQueries)
  BY DEF ShortConditions
<1>2. 1 \in FieldNumbers /\ 2 \in FieldNumbers /\ 3 \in FieldNumbers
  BY DEF FieldNumbers
<1>3. EncodeCondition(message) = (a \o b) \o c
  <2> QED
    BY Zenon DEF EncodeCondition
<1> HIDE DEF p, q, r
<1>4. Short(a, 248)
  <2>1. Short(EncodeQuery(p), 228)
    BY <1>1, ShortQuery
  <2>2. Short(Message(1, EncodeQuery(p)), 20 + 228)
    BY <1>2, <2>1, ShortMessage
  <2> QED
    BY <2>2
<1>5. Short(b, 20)
  BY <1>1, <1>2, ShortField
<1>6. Short(c, 248)
  <2>1. CASE r = {}
    BY <2>1, ShortNone DEF Present
  <2>2. ASSUME NEW x \in ShortQueries, r = {x} PROVE Short(c, 248)
    <3>1. c = Message(3, EncodeQuery(x))
      BY <2>2, OnlyOne DEF Present
    <3>2. Short(EncodeQuery(x), 228)
      BY ShortQuery
    <3>3. Short(Message(3, EncodeQuery(x)), 20 + 228)
      BY <1>2, <3>2, ShortMessage
    <3> QED
      BY <3>1, <3>3
  <2> HIDE DEF c
  <2> QED
    BY <1>1, <2>1, <2>2 DEF AtMostOne
<1> HIDE DEF a, b, c
<1>7. Short(a \o b, 268)
  BY <1>4, <1>5, ShortOn
<1> QED
  <2>1. Short((a \o b) \o c, 516)
    BY <1>7, <1>6, ShortOn
  <2> QED
    BY <1>3, <2>1

ShortAppendRequests ==
  [events : {s \in Seq(ShortEvents) : Len(s) <= 2}, condition : AtMostOne(ShortConditions)]

LEMMA ShortAppendRequestType == ShortAppendRequests \subseteq AppendRequestType
<1>1. ASSUME NEW message \in ShortAppendRequests PROVE message \in AppendRequestType
  <2>1. message.events \in Seq(EventType)
    <3>1. message.events \in Seq(ShortEvents)
      BY DEF ShortAppendRequests
    <3> QED
      BY <3>1, ShortEventType, SeqWider
  <2>2. message.condition \in AtMostOne(ConditionType)
    BY ShortConditionType DEF ShortAppendRequests, AtMostOne
  <2>3. message = [events |-> message.events, condition |-> message.condition]
    BY DEF ShortAppendRequests
  <2> QED
    BY <2>1, <2>2, <2>3 DEF AppendRequestType
<1> QED
  BY <1>1

LEMMA ShortAppendRequest ==
  ASSUME NEW message \in ShortAppendRequests
  PROVE  Short(EncodeAppendRequest(message), 744)
<1> DEFINE p == message.events
           q == message.condition
           a == FlattenSeq([n \in 1 .. Len(p) |-> Message(1, EncodeEvent(p[n]))])
           b == Present(LAMBDA x : Message(2, EncodeCondition(x)), q)
<1>1. p \in {s \in Seq(ShortEvents) : Len(s) <= 2} /\ q \in AtMostOne(ShortConditions)
  BY DEF ShortAppendRequests
<1>2. 1 \in FieldNumbers /\ 2 \in FieldNumbers
  BY DEF FieldNumbers
<1>3. EncodeAppendRequest(message) = a \o b
  <2>1. DOMAIN p = 1 .. Len(p)
    <3>1. p \in Seq(ShortEvents)
      BY <1>1 DEF WordLists
    <3> QED
      BY <3>1, LenProperties
  <2> QED
    BY <2>1, Zenon DEF EncodeAppendRequest, Each
<1> HIDE DEF p, q
<1>4. Short(a, 208)
  <2> DEFINE contents == [n \in 1 .. Len(p) |-> FlattenSeq(EncodeEvent(p[n]))]
  <2>1. p \in Seq(ShortEvents) /\ Len(p) <= 2 /\ Len(p) \in Nat
    BY <1>1, LenProperties
  <2>2. ASSUME NEW n \in 1 .. Len(p)
        PROVE  /\ FlattenSeq(EncodeEvent(p[n])) \in Seq(Nat)
               /\ Len(FlattenSeq(EncodeEvent(p[n]))) <= 84
    <3>1. p[n] \in ShortEvents
      BY <2>1, ElementOfSeq
    <3>2. Short(EncodeEvent(p[n]), 84)
      BY <3>1, ShortEvent
    <3>3. EncodeEvent(p[n]) \in Seq(Seq(Nat)) /\ Len(FlattenSeq(EncodeEvent(p[n]))) <= 84
      BY <3>2 DEF Short
    <3> QED
      BY <3>3, FlatType
  <2>3. contents \in [1 .. Len(p) -> Seq(Nat)]
    BY <2>2
  <2>4. \A n \in 1 .. Len(p) : Len(contents[n]) <= 84
    BY <2>2
  <2>5. a = FlattenSeq([n \in 1 .. Len(p) |-> Delimited(1, contents[n])])
    BY Zenon DEF Message
  <2> HIDE DEF contents, a
  <2>6. contents \in Seq(Seq(Nat)) /\ Len(contents) = Len(p)
    BY <2>1, <2>3
  <2>7. 84 \in Nat /\ 208 \in Nat /\ 208 = (20 + 84) + (20 + 84)
    OBVIOUS
  <2>8. Len(contents) <= 2 /\ \A n \in 1 .. Len(contents) : Len(contents[n]) <= 84
    BY <2>1, <2>4, <2>6, SMTT(30)
  <2>9. a = FlattenSeq([n \in 1 .. Len(contents) |-> Delimited(1, contents[n])])
    BY <2>5, <2>6, Zenon
  <2> QED
    BY <1>2, <2>6, <2>7, <2>8, <2>9, ShortRepeated
<1>5. Short(b, 536)
  <2>1. CASE q = {}
    BY <2>1, ShortNone DEF Present
  <2>2. ASSUME NEW x \in ShortConditions, q = {x} PROVE Short(b, 536)
    <3>1. b = Message(2, EncodeCondition(x))
      BY <2>2, OnlyOne DEF Present
    <3>2. Short(EncodeCondition(x), 516)
      BY ShortCondition
    <3>3. Short(Message(2, EncodeCondition(x)), 20 + 516)
      BY <1>2, <3>2, ShortMessage
    <3> QED
      BY <3>1, <3>3
  <2> HIDE DEF b
  <2> QED
    BY <1>1, <2>1, <2>2 DEF AtMostOne
<1> HIDE DEF a, b
<1> QED
  <2>1. Short(a \o b, 744)
    BY <1>4, <1>5, ShortOn
  <2> QED
    BY <1>3, <2>1

ShortReadRequests == [query : ShortQueries, after : U64, limit : AtMostOne(U64), reverse : BOOLEAN]

LEMMA ShortReadRequestType == ShortReadRequests \subseteq ReadRequestType
  BY ShortQueryType DEF ShortReadRequests, ReadRequestType, AtMostOne

LEMMA ShortReadRequest ==
  ASSUME NEW message \in ShortReadRequests
  PROVE  Short(EncodeReadRequest(message), 308)
<1> DEFINE p == message.query
           q == message.after
           r == message.limit
           s == message.reverse
           a == Message(1, EncodeQuery(p))
           b == UInt64(2, q)
           c == Present(LAMBDA x : UInt64Present(3, x), r)
           d == Bool(4, s)
<1>1. p \in ShortQueries /\ q \in U64 /\ r \in AtMostOne(U64) /\ s \in BOOLEAN
  BY DEF ShortReadRequests
<1>2. 1 \in FieldNumbers /\ 2 \in FieldNumbers /\ 3 \in FieldNumbers /\ 4 \in FieldNumbers
  BY DEF FieldNumbers
<1>3. EncodeReadRequest(message) = ((a \o b) \o c) \o d
  <2> QED
    BY Zenon DEF EncodeReadRequest
<1> HIDE DEF p, q, r, s
<1>4. Short(a, 248)
  <2>1. Short(EncodeQuery(p), 228)
    BY <1>1, ShortQuery
  <2>2. Short(Message(1, EncodeQuery(p)), 20 + 228)
    BY <1>2, <2>1, ShortMessage
  <2> QED
    BY <2>2
<1>5. Short(b, 20)
  BY <1>1, <1>2, ShortField
<1>6. Short(c, 20)
  <2>1. CASE r = {}
    BY <2>1, ShortNone DEF Present
  <2>2. ASSUME NEW x \in U64, r = {x} PROVE Short(c, 20)
    <3>1. c = UInt64Present(3, x)
      BY <2>2, OnlyOne DEF Present
    <3> QED
      BY <1>2, <3>1, ShortField
  <2> HIDE DEF c
  <2> QED
    BY <1>1, <2>1, <2>2 DEF AtMostOne
<1>7. Short(d, 20)
  BY <1>1, <1>2, ShortField
<1> HIDE DEF a, b, c, d
<1>8. Short(a \o b, 268)
  BY <1>4, <1>5, ShortOn
<1>9. Short((a \o b) \o c, 288)
  BY <1>8, <1>6, ShortOn
<1> QED
  <2>1. Short(((a \o b) \o c) \o d, 308)
    BY <1>9, <1>7, ShortOn
  <2> QED
    BY <1>3, <2>1

ShortSubscribeRequests == [query : ShortQueries, after : U64]

LEMMA ShortSubscribeRequestType == ShortSubscribeRequests \subseteq SubscribeRequestType
  BY ShortQueryType DEF ShortSubscribeRequests, SubscribeRequestType

LEMMA ShortSubscribeRequest ==
  ASSUME NEW message \in ShortSubscribeRequests
  PROVE  Short(EncodeSubscribeRequest(message), 268)
<1> DEFINE p == message.query
           q == message.after
           a == Message(1, EncodeQuery(p))
           b == UInt64(2, q)
<1>1. p \in ShortQueries /\ q \in U64
  BY DEF ShortSubscribeRequests
<1>2. 1 \in FieldNumbers /\ 2 \in FieldNumbers
  BY DEF FieldNumbers
<1>3. EncodeSubscribeRequest(message) = a \o b
  <2> QED
    BY Zenon DEF EncodeSubscribeRequest
<1> HIDE DEF p, q
<1>4. Short(a, 248)
  <2>1. Short(EncodeQuery(p), 228)
    BY <1>1, ShortQuery
  <2>2. Short(Message(1, EncodeQuery(p)), 20 + 228)
    BY <1>2, <2>1, ShortMessage
  <2> QED
    BY <2>2
<1>5. Short(b, 20)
  BY <1>1, <1>2, ShortField
<1> HIDE DEF a, b
<1> QED
  <2>1. Short(a \o b, 268)
    BY <1>4, <1>5, ShortOn
  <2> QED
    BY <1>3, <2>1

ShortCancelRequests == [target : U64]

LEMMA ShortCancelRequestType == ShortCancelRequests \subseteq CancelRequestType
  BY DEF ShortCancelRequests, CancelRequestType

LEMMA ShortCancelRequest ==
  ASSUME NEW message \in ShortCancelRequests
  PROVE  Short(EncodeCancelRequest(message), 20)
<1> DEFINE p == message.target
           a == UInt64(1, p)
<1>1. p \in U64
  BY DEF ShortCancelRequests
<1>2. 1 \in FieldNumbers
  BY DEF FieldNumbers
<1>3. EncodeCancelRequest(message) = a
  <2> QED
    BY Zenon DEF EncodeCancelRequest
<1> HIDE DEF p
<1>4. Short(a, 20)
  BY <1>1, <1>2, ShortField
<1> QED
  BY <1>3, <1>4

ShortSequencedEvents == [position : U64, event : AtMostOne(ShortEvents)]

LEMMA ShortSequencedEventType == ShortSequencedEvents \subseteq SequencedEventType
  BY ShortEventType DEF ShortSequencedEvents, SequencedEventType, AtMostOne

LEMMA ShortSequencedEvent ==
  ASSUME NEW message \in ShortSequencedEvents
  PROVE  Short(EncodeSequencedEvent(message), 124)
<1> DEFINE p == message.position
           q == message.event
           a == UInt64(1, p)
           b == Present(LAMBDA x : Message(2, EncodeEvent(x)), q)
<1>1. p \in U64 /\ q \in AtMostOne(ShortEvents)
  BY DEF ShortSequencedEvents
<1>2. 1 \in FieldNumbers /\ 2 \in FieldNumbers
  BY DEF FieldNumbers
<1>3. EncodeSequencedEvent(message) = a \o b
  <2> QED
    BY Zenon DEF EncodeSequencedEvent
<1> HIDE DEF p, q
<1>4. Short(a, 20)
  BY <1>1, <1>2, ShortField
<1>5. Short(b, 104)
  <2>1. CASE q = {}
    BY <2>1, ShortNone DEF Present
  <2>2. ASSUME NEW x \in ShortEvents, q = {x} PROVE Short(b, 104)
    <3>1. b = Message(2, EncodeEvent(x))
      BY <2>2, OnlyOne DEF Present
    <3>2. Short(EncodeEvent(x), 84)
      BY ShortEvent
    <3>3. Short(Message(2, EncodeEvent(x)), 20 + 84)
      BY <1>2, <3>2, ShortMessage
    <3> QED
      BY <3>1, <3>3
  <2> HIDE DEF b
  <2> QED
    BY <1>1, <2>1, <2>2 DEF AtMostOne
<1> HIDE DEF a, b
<1> QED
  <2>1. Short(a \o b, 124)
    BY <1>4, <1>5, ShortOn
  <2> QED
    BY <1>3, <2>1

ShortAppendResponses == [first : U64, last : U64]

LEMMA ShortAppendResponseType == ShortAppendResponses \subseteq AppendResponseType
  BY DEF ShortAppendResponses, AppendResponseType

LEMMA ShortAppendResponse ==
  ASSUME NEW message \in ShortAppendResponses
  PROVE  Short(EncodeAppendResponse(message), 40)
<1> DEFINE p == message.first
           q == message.last
           a == UInt64(1, p)
           b == UInt64(2, q)
<1>1. p \in U64 /\ q \in U64
  BY DEF ShortAppendResponses
<1>2. 1 \in FieldNumbers /\ 2 \in FieldNumbers
  BY DEF FieldNumbers
<1>3. EncodeAppendResponse(message) = a \o b
  <2> QED
    BY Zenon DEF EncodeAppendResponse
<1> HIDE DEF p, q
<1>4. Short(a, 20)
  BY <1>1, <1>2, ShortField
<1>5. Short(b, 20)
  BY <1>1, <1>2, ShortField
<1> HIDE DEF a, b
<1> QED
  <2>1. Short(a \o b, 40)
    BY <1>4, <1>5, ShortOn
  <2> QED
    BY <1>3, <2>1

ShortReadEventLists == [events : {s \in Seq(ShortSequencedEvents) : Len(s) <= 2}]

LEMMA ShortReadEventsType == ShortReadEventLists \subseteq ReadEventsType
<1>1. ASSUME NEW message \in ShortReadEventLists PROVE message \in ReadEventsType
  <2>1. message.events \in Seq(SequencedEventType)
    <3>1. message.events \in Seq(ShortSequencedEvents)
      BY DEF ShortReadEventLists
    <3> QED
      BY <3>1, ShortSequencedEventType, SeqWider
  <2>2. message = [events |-> message.events]
    BY DEF ShortReadEventLists
  <2> QED
    BY <2>1, <2>2 DEF ReadEventsType
<1> QED
  BY <1>1

LEMMA ShortReadEvents ==
  ASSUME NEW message \in ShortReadEventLists
  PROVE  Short(EncodeReadEvents(message), 288)
<1> DEFINE p == message.events
           a == FlattenSeq([n \in 1 .. Len(p) |-> Message(1, EncodeSequencedEvent(p[n]))])
<1>1. p \in {s \in Seq(ShortSequencedEvents) : Len(s) <= 2}
  BY DEF ShortReadEventLists
<1>2. 1 \in FieldNumbers
  BY DEF FieldNumbers
<1>3. EncodeReadEvents(message) = a
  <2>1. DOMAIN p = 1 .. Len(p)
    <3>1. p \in Seq(ShortSequencedEvents)
      BY <1>1 DEF WordLists
    <3> QED
      BY <3>1, LenProperties
  <2> QED
    BY <2>1, Zenon DEF EncodeReadEvents, Each
<1> HIDE DEF p
<1>4. Short(a, 288)
  <2> DEFINE contents == [n \in 1 .. Len(p) |-> FlattenSeq(EncodeSequencedEvent(p[n]))]
  <2>1. p \in Seq(ShortSequencedEvents) /\ Len(p) <= 2 /\ Len(p) \in Nat
    BY <1>1, LenProperties
  <2>2. ASSUME NEW n \in 1 .. Len(p)
        PROVE  /\ FlattenSeq(EncodeSequencedEvent(p[n])) \in Seq(Nat)
               /\ Len(FlattenSeq(EncodeSequencedEvent(p[n]))) <= 124
    <3>1. p[n] \in ShortSequencedEvents
      BY <2>1, ElementOfSeq
    <3>2. Short(EncodeSequencedEvent(p[n]), 124)
      BY <3>1, ShortSequencedEvent
    <3>3. EncodeSequencedEvent(p[n]) \in Seq(Seq(Nat))
          /\ Len(FlattenSeq(EncodeSequencedEvent(p[n]))) <= 124
      BY <3>2 DEF Short
    <3> QED
      BY <3>3, FlatType
  <2>3. contents \in [1 .. Len(p) -> Seq(Nat)]
    BY <2>2
  <2>4. \A n \in 1 .. Len(p) : Len(contents[n]) <= 124
    BY <2>2
  <2>5. a = FlattenSeq([n \in 1 .. Len(p) |-> Delimited(1, contents[n])])
    BY Zenon DEF Message
  <2> HIDE DEF contents, a
  <2>6. contents \in Seq(Seq(Nat)) /\ Len(contents) = Len(p)
    BY <2>1, <2>3
  <2>7. 124 \in Nat /\ 288 \in Nat /\ 288 = (20 + 124) + (20 + 124)
    OBVIOUS
  <2>8. Len(contents) <= 2 /\ \A n \in 1 .. Len(contents) : Len(contents[n]) <= 124
    BY <2>1, <2>4, <2>6
  <2>9. a = FlattenSeq([n \in 1 .. Len(contents) |-> Delimited(1, contents[n])])
    BY <2>5, <2>6, Zenon
  <2> QED
    BY <1>2, <2>6, <2>7, <2>8, <2>9, ShortRepeated
<1> QED
  BY <1>3, <1>4

ShortErrorResponses ==
  [code : Small32, message : Words, conflictPosition : AtMostOne(U64), retryable : BOOLEAN]

LEMMA ShortErrorResponseType == ShortErrorResponses \subseteq ErrorResponseType
  BY WordsType DEF ShortErrorResponses, ErrorResponseType, AtMostOne

LEMMA ShortErrorResponse ==
  ASSUME NEW message \in ShortErrorResponses
  PROVE  Short(EncodeErrorResponse(message), 81)
<1> DEFINE p == message.code
           q == message.message
           r == message.conflictPosition
           s == message.retryable
           a == UInt32(1, p)
           b == Bytes(2, q)
           c == Present(LAMBDA x : UInt64Present(3, x), r)
           d == Bool(4, s)
<1>1. p \in Small32 /\ q \in Words /\ r \in AtMostOne(U64) /\ s \in BOOLEAN
  BY DEF ShortErrorResponses
<1>2. 1 \in FieldNumbers /\ 2 \in FieldNumbers /\ 3 \in FieldNumbers /\ 4 \in FieldNumbers
  BY DEF FieldNumbers
<1>3. EncodeErrorResponse(message) = ((a \o b) \o c) \o d
  <2> QED
    BY Zenon DEF EncodeErrorResponse
<1> HIDE DEF p, q, r, s
<1>4. Short(a, 20)
  BY <1>1, <1>2, ShortField
<1>5. Short(b, 21)
  <2>1. q \in Seq(Nat) /\ Len(q) <= 1
    BY <1>1 DEF Words
  <2>2. Short(Bytes(2, q), 20 + 1)
    BY <1>2, <2>1, ShortBytes
  <2> QED
    BY <2>2
<1>6. Short(c, 20)
  <2>1. CASE r = {}
    BY <2>1, ShortNone DEF Present
  <2>2. ASSUME NEW x \in U64, r = {x} PROVE Short(c, 20)
    <3>1. c = UInt64Present(3, x)
      BY <2>2, OnlyOne DEF Present
    <3> QED
      BY <1>2, <3>1, ShortField
  <2> HIDE DEF c
  <2> QED
    BY <1>1, <2>1, <2>2 DEF AtMostOne
<1>7. Short(d, 20)
  BY <1>1, <1>2, ShortField
<1> HIDE DEF a, b, c, d
<1>8. Short(a \o b, 41)
  BY <1>4, <1>5, ShortOn
<1>9. Short((a \o b) \o c, 61)
  BY <1>8, <1>6, ShortOn
<1> QED
  <2>1. Short(((a \o b) \o c) \o d, 81)
    BY <1>9, <1>7, ShortOn
  <2> QED
    BY <1>3, <2>1

ShortHelloAcks == [protocolVersion : Small32, serverVersion : {s \in Seq(Nat) : Len(s) <= 130}]

LEMMA ShortHelloAckType == ShortHelloAcks \subseteq HelloAckType
  BY DEF ShortHelloAcks, HelloAckType

LEMMA ShortHelloAck ==
  ASSUME NEW message \in ShortHelloAcks
  PROVE  Short(EncodeHelloAck(message), 170)
<1> DEFINE p == message.protocolVersion
           q == message.serverVersion
           a == UInt32(1, p)
           b == Bytes(2, q)
<1>1. p \in Small32 /\ q \in {s \in Seq(Nat) : Len(s) <= 130}
  BY DEF ShortHelloAcks
<1>2. 1 \in FieldNumbers /\ 2 \in FieldNumbers
  BY DEF FieldNumbers
<1>3. EncodeHelloAck(message) = a \o b
  <2> QED
    BY Zenon DEF EncodeHelloAck
<1> HIDE DEF p, q
<1>4. Short(a, 20)
  BY <1>1, <1>2, ShortField
<1>5. Short(b, 150)
  <2>1. q \in Seq(Nat) /\ Len(q) <= 130
    BY <1>1 DEF Words
  <2>2. Short(Bytes(2, q), 20 + 130)
    BY <1>2, <2>1, ShortBytes
  <2> QED
    BY <2>2
<1> HIDE DEF a, b
<1> QED
  <2>1. Short(a \o b, 170)
    BY <1>4, <1>5, ShortOn
  <2> QED
    BY <1>3, <2>1

ShortHellos == [protocolVersion : Small32, authToken : AtMostOne(Words \ {<<>>})]

LEMMA ShortHelloType == ShortHellos \subseteq HelloType
  BY WordsType DEF ShortHellos, HelloType, AtMostOne

LEMMA ShortHello ==
  ASSUME NEW message \in ShortHellos
  PROVE  Short(EncodeHello(message), 41)
<1> DEFINE p == message.protocolVersion
           q == message.authToken
           a == UInt32(1, p)
           b == Present(LAMBDA x : Bytes(2, x), q)
<1>1. p \in Small32 /\ q \in AtMostOne(Words \ {<<>>})
  BY DEF ShortHellos
<1>2. 1 \in FieldNumbers /\ 2 \in FieldNumbers
  BY DEF FieldNumbers
<1>3. EncodeHello(message) = a \o b
  BY Zenon DEF EncodeHello
<1> HIDE DEF p, q
<1>4. Short(a, 20)
  BY <1>1, <1>2, ShortField
<1>5. Short(b, 21)
  <2>1. CASE q = {}
    BY <2>1, ShortNone DEF Present
  <2>2. ASSUME NEW x \in Words, q = {x} PROVE Short(b, 21)
    <3>1. b = Bytes(2, x)
      BY <2>2, OnlyOne DEF Present
    <3>2. x \in Seq(Nat) /\ Len(x) <= 1
      BY DEF Words
    <3>3. Short(Bytes(2, x), 20 + 1)
      BY <1>2, <3>2, ShortBytes
    <3> QED
      BY <3>1, <3>3
  <2> HIDE DEF b
  <2> QED
    <3>1. q = {} \/ \E x \in Words : q = {x}
      BY <1>1, Zenon DEF AtMostOne
    <3> QED
      BY <2>1, <2>2, <3>1, Zenon
<1> HIDE DEF a, b
<1>6. Short(a \o b, 41)
  BY <1>4, <1>5, ShortOn, SMTT(30)
<1> QED
  BY <1>3, <1>6

LEMMA ShortWatermark ==
  ASSUME NEW w \in U64
  PROVE  Short(EncodeWatermark(w), 20)
<1>1. 1 \in FieldNumbers
  BY DEF FieldNumbers
<1> QED
  BY <1>1, ShortField, Zenon DEF EncodeWatermark

ShortStatsResponses == {res \in StatsResponseType : Len(res.version) <= 1}

LEMMA ShortStatsResponse ==
  ASSUME NEW message \in ShortStatsResponses
  PROVE  Short(EncodeStatsResponse(message), 210)
<1>1. message \in StatsResponseType /\ Len(message.version) <= 1
  BY DEF ShortStatsResponses
<1>2. EncodeStatsResponse(message) = StatPieces(message, 10)
  BY Zenon DEF EncodeStatsResponse, StatPieces, StatPiece
<1>3. ASSUME NEW n \in 1 .. 10 PROVE Short(StatPiece(message, n), 21)
  <2>1. n \in FieldNumbers
    BY StatsFields
  <2>2. CASE n = 7
    <3>1. message.version \in Seq(Nat)
      BY <1>1, StatsFields DEF StatsResponseType
    <3>2. Short(Bytes(n, message.version), 20 + 1)
      BY <1>1, <2>1, <3>1, ShortBytes
    <3> QED
      BY <2>2, <3>2 DEF StatPiece
  <2>3. CASE n # 7
    <3>1. n \in (1 .. 10) \ {7}
      BY <2>3
    <3>2. message[StatsField[n]] \in U64
      BY <1>1, <3>1 DEF StatsResponseType
    <3>3. Short(UInt64(n, message[StatsField[n]]), 20)
      BY <2>1, <3>2, ShortField
    <3>4. Short(UInt64(n, message[StatsField[n]]), 21)
      BY <3>3, ShortWider
    <3> QED
      BY <2>3, <3>4 DEF StatPiece
  <2> QED
    BY <2>2, <2>3
<1>4. ASSUME NEW n \in 1 .. 10, NEW a \in Nat, NEW b \in Nat, b = a + 21,
             Short(StatPieces(message, n - 1), a)
      PROVE  Short(StatPieces(message, n), b)
  <2>1. StatPieces(message, n) = StatPieces(message, n - 1) \o StatPiece(message, n)
    BY <1>1, StatPiecesOn
  <2>2. Short(StatPiece(message, n), 21) /\ a + 21 <= b
    BY <1>3, <1>4
  <2>3. Short(StatPieces(message, n - 1) \o StatPiece(message, n), b)
    BY <1>4, <2>2, ShortOn
  <2> QED
    BY <2>1, <2>3
<1>5. Short(StatPieces(message, 0), 0)
  BY <1>1, StatPiecesOn, ShortNone
<1>6. Short(StatPieces(message, 1), 21)
  <2>1. Short(StatPieces(message, 1 - 1), 0) /\ 1 \in 1 .. 10
    BY <1>5
  <2> QED
    BY <1>4, <2>1
<1>7. Short(StatPieces(message, 2), 42)
  <2>1. Short(StatPieces(message, 2 - 1), 21) /\ 2 \in 1 .. 10
    BY <1>6
  <2> QED
    BY <1>4, <2>1
<1>8. Short(StatPieces(message, 3), 63)
  <2>1. Short(StatPieces(message, 3 - 1), 42) /\ 3 \in 1 .. 10
    BY <1>7
  <2> QED
    BY <1>4, <2>1
<1>9. Short(StatPieces(message, 4), 84)
  <2>1. Short(StatPieces(message, 4 - 1), 63) /\ 4 \in 1 .. 10
    BY <1>8
  <2> QED
    BY <1>4, <2>1
<1>10. Short(StatPieces(message, 5), 105)
  <2>1. Short(StatPieces(message, 5 - 1), 84) /\ 5 \in 1 .. 10
    BY <1>9
  <2> QED
    BY <1>4, <2>1
<1>11. Short(StatPieces(message, 6), 126)
  <2>1. Short(StatPieces(message, 6 - 1), 105) /\ 6 \in 1 .. 10
    BY <1>10
  <2> QED
    BY <1>4, <2>1
<1>12. Short(StatPieces(message, 7), 147)
  <2>1. Short(StatPieces(message, 7 - 1), 126) /\ 7 \in 1 .. 10
    BY <1>11
  <2> QED
    BY <1>4, <2>1
<1>13. Short(StatPieces(message, 8), 168)
  <2>1. Short(StatPieces(message, 8 - 1), 147) /\ 8 \in 1 .. 10
    BY <1>12
  <2> QED
    BY <1>4, <2>1
<1>14. Short(StatPieces(message, 9), 189)
  <2>1. Short(StatPieces(message, 9 - 1), 168) /\ 9 \in 1 .. 10
    BY <1>13
  <2> QED
    BY <1>4, <2>1
<1>15. Short(StatPieces(message, 10), 210)
  <2>1. Short(StatPieces(message, 10 - 1), 189) /\ 10 \in 1 .. 10
    BY <1>14
  <2> QED
    BY <1>4, <2>1
<1> QED
  BY <1>2, <1>15

ShortRequestKinds ==
  {Kind("append", c) : c \in ShortAppendRequests}
    \cup {Kind("read", c) : c \in ShortReadRequests}
    \cup {Kind("subscribe", c) : c \in ShortSubscribeRequests}
    \cup {Kind("cancel", c) : c \in ShortCancelRequests}
    \cup {Kind("stats", Empty)}
    \cup {Kind("hello", c) : c \in ShortHellos}
    \cup {NoKind}
ShortRequests == [requestId : U64, kind : ShortRequestKinds]

LEMMA ShortRequestType == ShortRequests \subseteq RequestType
<1>1. ASSUME NEW kind \in ShortRequestKinds PROVE kind \in RequestKinds
  <2>1. ShortAppendRequests \subseteq AppendRequestType
    BY ShortAppendRequestType
  <2>2. ShortReadRequests \subseteq ReadRequestType
    BY ShortReadRequestType
  <2>3. ShortSubscribeRequests \subseteq SubscribeRequestType
    BY ShortSubscribeRequestType
  <2>4. ShortCancelRequests \subseteq CancelRequestType
    BY ShortCancelRequestType
  <2>6. ShortHellos \subseteq HelloType
    BY ShortHelloType
  <2> QED
    BY <2>1, <2>2, <2>3, <2>4, <2>6, Zenon DEF ShortRequestKinds, RequestKinds
<1> QED
  BY <1>1 DEF ShortRequests, RequestType

LEMMA ShortRequestContent2 ==
  ASSUME NEW c \in ShortAppendRequests
  PROVE  Short(RequestContent(Kind("append", c)), 764)
<1> DEFINE kind == Kind("append", c)
<1>1. 2 \in FieldNumbers
  BY DEF FieldNumbers
<1>2. kind.kind = "append" /\ kind.content = c
  BY DEF Kind
<1> HIDE DEF kind
<1>3. RequestContent(kind) = Message(2, EncodeAppendRequest(kind.content))
  BY <1>2 DEF RequestContent
<1>4. Short(EncodeAppendRequest(c), 744)
  BY ShortAppendRequest
<1>5. Short(Message(2, EncodeAppendRequest(c)), 20 + 744)
  BY <1>1, <1>4, ShortMessage
<1> QED
  BY <1>2, <1>3, <1>5, ShortWider DEF kind

LEMMA ShortRequestContent3 ==
  ASSUME NEW c \in ShortReadRequests
  PROVE  Short(RequestContent(Kind("read", c)), 764)
<1> DEFINE kind == Kind("read", c)
<1>1. 3 \in FieldNumbers
  BY DEF FieldNumbers
<1>2. kind.kind = "read" /\ kind.content = c
  BY DEF Kind
<1> HIDE DEF kind
<1>3. RequestContent(kind) = Message(3, EncodeReadRequest(kind.content))
  BY <1>2 DEF RequestContent
<1>4. Short(EncodeReadRequest(c), 308)
  BY ShortReadRequest
<1>5. Short(Message(3, EncodeReadRequest(c)), 20 + 308)
  BY <1>1, <1>4, ShortMessage
<1> QED
  BY <1>2, <1>3, <1>5, ShortWider DEF kind

LEMMA ShortRequestContent4 ==
  ASSUME NEW c \in ShortSubscribeRequests
  PROVE  Short(RequestContent(Kind("subscribe", c)), 764)
<1> DEFINE kind == Kind("subscribe", c)
<1>1. 4 \in FieldNumbers
  BY DEF FieldNumbers
<1>2. kind.kind = "subscribe" /\ kind.content = c
  BY DEF Kind
<1> HIDE DEF kind
<1>3. RequestContent(kind) = Message(4, EncodeSubscribeRequest(kind.content))
  BY <1>2 DEF RequestContent
<1>4. Short(EncodeSubscribeRequest(c), 268)
  BY ShortSubscribeRequest
<1>5. Short(Message(4, EncodeSubscribeRequest(c)), 20 + 268)
  BY <1>1, <1>4, ShortMessage
<1> QED
  BY <1>2, <1>3, <1>5, ShortWider DEF kind

LEMMA ShortRequestContent5 ==
  ASSUME NEW c \in ShortCancelRequests
  PROVE  Short(RequestContent(Kind("cancel", c)), 764)
<1> DEFINE kind == Kind("cancel", c)
<1>1. 5 \in FieldNumbers
  BY DEF FieldNumbers
<1>2. kind.kind = "cancel" /\ kind.content = c
  BY DEF Kind
<1> HIDE DEF kind
<1>3. RequestContent(kind) = Message(5, EncodeCancelRequest(kind.content))
  BY <1>2 DEF RequestContent
<1>4. Short(EncodeCancelRequest(c), 20)
  BY ShortCancelRequest
<1>5. Short(Message(5, EncodeCancelRequest(c)), 20 + 20)
  BY <1>1, <1>4, ShortMessage
<1> QED
  BY <1>2, <1>3, <1>5, ShortWider DEF kind

LEMMA ShortRequestContent6 ==
  Short(RequestContent(Kind("stats", Empty)), 764)
<1> DEFINE kind == Kind("stats", Empty)
<1>1. 6 \in FieldNumbers
  BY DEF FieldNumbers
<1>2. kind.kind = "stats" /\ kind.content = Empty
  BY DEF Kind
<1> HIDE DEF kind
<1>3. RequestContent(kind) = Message(6, <<>>)
  BY <1>2 DEF RequestContent
<1>4. Short(<<>>, 0)
  BY ShortNone
<1>5. Short(Message(6, <<>>), 20 + 0)
  BY <1>1, <1>4, ShortMessage
<1> QED
  BY <1>2, <1>3, <1>5, ShortWider DEF kind

LEMMA ShortRequestContent7 ==
  ASSUME NEW c \in ShortHellos
  PROVE  Short(RequestContent(Kind("hello", c)), 764)
<1> DEFINE kind == Kind("hello", c)
<1>1. 7 \in FieldNumbers
  BY DEF FieldNumbers
<1>2. kind.kind = "hello" /\ kind.content = c
  BY DEF Kind
<1> HIDE DEF kind
<1>3. RequestContent(kind) = Message(7, EncodeHello(kind.content))
  BY <1>2 DEF RequestContent
<1>4. Short(EncodeHello(c), 41)
  BY ShortHello
<1>5. Short(Message(7, EncodeHello(c)), 20 + 41)
  BY <1>1, <1>4, ShortMessage
<1> QED
  BY <1>2, <1>3, <1>5, ShortWider DEF kind

LEMMA ShortRequest ==
  ASSUME NEW message \in ShortRequests
  PROVE  message \in RequestType /\ Small(EncodeRequest(message))
<1> DEFINE id == message.requestId
           kind == message.kind
<1>1. message \in RequestType
  BY ShortRequestType
<1>2. id \in U64 /\ kind \in ShortRequestKinds
  BY DEF ShortRequests
<1>3. EncodeRequest(message) = UInt64(1, id) \o RequestContent(kind)
  BY Zenon DEF EncodeRequest, RequestContent
<1> HIDE DEF id, kind
<1>4. Short(RequestContent(kind), 764)
  <2>1. CASE kind \in {Kind("append", c) : c \in ShortAppendRequests}
    <3>1. PICK c \in ShortAppendRequests : kind = Kind("append", c)
      BY <2>1
    <3> QED
      BY <3>1, ShortRequestContent2
  <2>2. CASE kind \in {Kind("read", c) : c \in ShortReadRequests}
    <3>1. PICK c \in ShortReadRequests : kind = Kind("read", c)
      BY <2>2
    <3> QED
      BY <3>1, ShortRequestContent3
  <2>3. CASE kind \in {Kind("subscribe", c) : c \in ShortSubscribeRequests}
    <3>1. PICK c \in ShortSubscribeRequests : kind = Kind("subscribe", c)
      BY <2>3
    <3> QED
      BY <3>1, ShortRequestContent4
  <2>4. CASE kind \in {Kind("cancel", c) : c \in ShortCancelRequests}
    <3>1. PICK c \in ShortCancelRequests : kind = Kind("cancel", c)
      BY <2>4
    <3> QED
      BY <3>1, ShortRequestContent5
  <2>5. CASE kind = Kind("stats", Empty)
    BY <2>5, ShortRequestContent6
  <2>6. CASE kind \in {Kind("hello", c) : c \in ShortHellos}
    <3>1. PICK c \in ShortHellos : kind = Kind("hello", c)
      BY <2>6
    <3> QED
      BY <3>1, ShortRequestContent7
  <2>7. CASE kind = NoKind
    <3>1. kind.kind = "none"
      BY <2>7 DEF NoKind, Kind
    <3>2. RequestContent(kind) = <<>>
      BY <3>1 DEF RequestContent
    <3> QED
      BY <3>2, ShortNone
  <2> QED
    BY <1>2, <2>1, <2>2, <2>3, <2>4, <2>5, <2>6, <2>7, Zenon DEF ShortRequestKinds
<1>5. 1 \in FieldNumbers
  BY DEF FieldNumbers
<1>6. Short(UInt64(1, id), 20)
  BY <1>2, <1>5, ShortField
<1>7. Short(EncodeRequest(message), 784)
  BY <1>3, <1>4, <1>6, ShortOn
<1>8. 784 <= Few
  BY DEF Few
<1> QED
  BY <1>1, <1>7, <1>8, ShortSmall

ShortResponseKinds ==
  {Kind("append", c) : c \in ShortAppendResponses}
    \cup {Kind("readEvents", c) : c \in ShortReadEventLists}
    \cup {Kind("readEnd", [watermark |-> w]) : w \in U64}
    \cup {Kind("error", c) : c \in ShortErrorResponses}
    \cup {Kind("caughtUp", [watermark |-> w]) : w \in U64}
    \cup {Kind("stats", c) : c \in ShortStatsResponses}
    \cup {Kind("helloAck", c) : c \in ShortHelloAcks}
    \cup {NoKind}
ShortResponses == [requestId : U64, kind : ShortResponseKinds]

LEMMA ShortResponseType == ShortResponses \subseteq ResponseType
<1>1. ASSUME NEW kind \in ShortResponseKinds PROVE kind \in ResponseKinds
  <2>1. ShortAppendResponses \subseteq AppendResponseType
    BY ShortAppendResponseType
  <2>2. ShortReadEventLists \subseteq ReadEventsType
    BY ShortReadEventsType
  <2>4. ShortErrorResponses \subseteq ErrorResponseType
    BY ShortErrorResponseType
  <2>6. ShortStatsResponses \subseteq StatsResponseType
    BY DEF ShortStatsResponses
  <2>7. ShortHelloAcks \subseteq HelloAckType
    BY ShortHelloAckType
  <2> QED
    BY <2>1, <2>2, <2>4, <2>6, <2>7, Zenon DEF ShortResponseKinds, ResponseKinds
<1> QED
  BY <1>1 DEF ShortResponses, ResponseType

LEMMA ShortResponseContent2 ==
  ASSUME NEW c \in ShortAppendResponses
  PROVE  Short(ResponseContent(Kind("append", c)), 308)
<1> DEFINE kind == Kind("append", c)
<1>1. 2 \in FieldNumbers
  BY DEF FieldNumbers
<1>2. kind.kind = "append" /\ kind.content = c
  BY DEF Kind
<1> HIDE DEF kind
<1>3. ResponseContent(kind) = Message(2, EncodeAppendResponse(kind.content))
  BY <1>2 DEF ResponseContent
<1>4. Short(EncodeAppendResponse(c), 40)
  BY ShortAppendResponse
<1>5. Short(Message(2, EncodeAppendResponse(c)), 20 + 40)
  BY <1>1, <1>4, ShortMessage
<1> QED
  BY <1>2, <1>3, <1>5, ShortWider DEF kind

LEMMA ShortResponseContent3 ==
  ASSUME NEW c \in ShortReadEventLists
  PROVE  Short(ResponseContent(Kind("readEvents", c)), 308)
<1> DEFINE kind == Kind("readEvents", c)
<1>1. 3 \in FieldNumbers
  BY DEF FieldNumbers
<1>2. kind.kind = "readEvents" /\ kind.content = c
  BY DEF Kind
<1> HIDE DEF kind
<1>3. ResponseContent(kind) = Message(3, EncodeReadEvents(kind.content))
  BY <1>2 DEF ResponseContent
<1>4. Short(EncodeReadEvents(c), 288)
  BY ShortReadEvents
<1>5. Short(Message(3, EncodeReadEvents(c)), 20 + 288)
  BY <1>1, <1>4, ShortMessage
<1> QED
  BY <1>2, <1>3, <1>5, ShortWider DEF kind

LEMMA ShortResponseContent4 ==
  ASSUME NEW w \in U64
  PROVE  Short(ResponseContent(Kind("readEnd", [watermark |-> w])), 308)
<1> DEFINE kind == Kind("readEnd", [watermark |-> w])
<1>1. 4 \in FieldNumbers
  BY DEF FieldNumbers
<1>2. kind.kind = "readEnd" /\ kind.content = [watermark |-> w]
  BY DEF Kind
<1>6. kind.content.watermark = w
  BY <1>2
<1> HIDE DEF kind
<1>3. ResponseContent(kind) = Message(4, EncodeWatermark(kind.content.watermark))
  BY <1>2 DEF ResponseContent
<1>4. Short(EncodeWatermark(w), 20)
  BY ShortWatermark
<1>5. Short(Message(4, EncodeWatermark(w)), 20 + 20)
  BY <1>1, <1>4, ShortMessage
<1> QED
  BY <1>2, <1>3, <1>5, <1>6, ShortWider DEF kind

LEMMA ShortResponseContent5 ==
  ASSUME NEW c \in ShortErrorResponses
  PROVE  Short(ResponseContent(Kind("error", c)), 308)
<1> DEFINE kind == Kind("error", c)
<1>1. 5 \in FieldNumbers
  BY DEF FieldNumbers
<1>2. kind.kind = "error" /\ kind.content = c
  BY DEF Kind
<1> HIDE DEF kind
<1>3. ResponseContent(kind) = Message(5, EncodeErrorResponse(kind.content))
  BY <1>2 DEF ResponseContent
<1>4. Short(EncodeErrorResponse(c), 81)
  BY ShortErrorResponse
<1>5. Short(Message(5, EncodeErrorResponse(c)), 20 + 81)
  BY <1>1, <1>4, ShortMessage
<1> QED
  BY <1>2, <1>3, <1>5, ShortWider DEF kind

LEMMA ShortResponseContent6 ==
  ASSUME NEW w \in U64
  PROVE  Short(ResponseContent(Kind("caughtUp", [watermark |-> w])), 308)
<1> DEFINE kind == Kind("caughtUp", [watermark |-> w])
<1>1. 6 \in FieldNumbers
  BY DEF FieldNumbers
<1>2. kind.kind = "caughtUp" /\ kind.content = [watermark |-> w]
  BY DEF Kind
<1>6. kind.content.watermark = w
  BY <1>2
<1> HIDE DEF kind
<1>3. ResponseContent(kind) = Message(6, EncodeWatermark(kind.content.watermark))
  BY <1>2 DEF ResponseContent
<1>4. Short(EncodeWatermark(w), 20)
  BY ShortWatermark
<1>5. Short(Message(6, EncodeWatermark(w)), 20 + 20)
  BY <1>1, <1>4, ShortMessage
<1> QED
  BY <1>2, <1>3, <1>5, <1>6, ShortWider DEF kind

LEMMA ShortResponseContent7 ==
  ASSUME NEW c \in ShortStatsResponses
  PROVE  Short(ResponseContent(Kind("stats", c)), 308)
<1> DEFINE kind == Kind("stats", c)
<1>1. 7 \in FieldNumbers
  BY DEF FieldNumbers
<1>2. kind.kind = "stats" /\ kind.content = c
  BY DEF Kind
<1> HIDE DEF kind
<1>3. ResponseContent(kind) = Message(7, EncodeStatsResponse(kind.content))
  BY <1>2 DEF ResponseContent
<1>4. Short(EncodeStatsResponse(c), 210)
  BY ShortStatsResponse
<1>5. Short(Message(7, EncodeStatsResponse(c)), 20 + 210)
  BY <1>1, <1>4, ShortMessage
<1> QED
  BY <1>2, <1>3, <1>5, ShortWider DEF kind

LEMMA ShortResponseContent8 ==
  ASSUME NEW c \in ShortHelloAcks
  PROVE  Short(ResponseContent(Kind("helloAck", c)), 308)
<1> DEFINE kind == Kind("helloAck", c)
<1>1. 8 \in FieldNumbers
  BY DEF FieldNumbers
<1>2. kind.kind = "helloAck" /\ kind.content = c
  BY DEF Kind
<1> HIDE DEF kind
<1>3. ResponseContent(kind) = Message(8, EncodeHelloAck(kind.content))
  BY <1>2 DEF ResponseContent
<1>4. Short(EncodeHelloAck(c), 170)
  BY ShortHelloAck
<1>5. Short(Message(8, EncodeHelloAck(c)), 20 + 170)
  BY <1>1, <1>4, ShortMessage
<1> QED
  BY <1>2, <1>3, <1>5, ShortWider DEF kind

LEMMA ShortResponse ==
  ASSUME NEW message \in ShortResponses
  PROVE  message \in ResponseType /\ Small(EncodeResponse(message))
<1> DEFINE id == message.requestId
           kind == message.kind
<1>1. message \in ResponseType
  BY ShortResponseType
<1>2. id \in U64 /\ kind \in ShortResponseKinds
  BY DEF ShortResponses
<1>3. EncodeResponse(message) = UInt64(1, id) \o ResponseContent(kind)
  BY Zenon DEF EncodeResponse, ResponseContent
<1> HIDE DEF id, kind
<1>4. Short(ResponseContent(kind), 308)
  <2>1. CASE kind \in {Kind("append", c) : c \in ShortAppendResponses}
    <3>1. PICK c \in ShortAppendResponses : kind = Kind("append", c)
      BY <2>1
    <3> QED
      BY <3>1, ShortResponseContent2
  <2>2. CASE kind \in {Kind("readEvents", c) : c \in ShortReadEventLists}
    <3>1. PICK c \in ShortReadEventLists : kind = Kind("readEvents", c)
      BY <2>2
    <3> QED
      BY <3>1, ShortResponseContent3
  <2>3. CASE kind \in {Kind("readEnd", [watermark |-> w]) : w \in U64}
    <3>1. PICK w \in U64 : kind = Kind("readEnd", [watermark |-> w])
      BY <2>3
    <3> QED
      BY <3>1, ShortResponseContent4
  <2>4. CASE kind \in {Kind("error", c) : c \in ShortErrorResponses}
    <3>1. PICK c \in ShortErrorResponses : kind = Kind("error", c)
      BY <2>4
    <3> QED
      BY <3>1, ShortResponseContent5
  <2>5. CASE kind \in {Kind("caughtUp", [watermark |-> w]) : w \in U64}
    <3>1. PICK w \in U64 : kind = Kind("caughtUp", [watermark |-> w])
      BY <2>5
    <3> QED
      BY <3>1, ShortResponseContent6
  <2>6. CASE kind \in {Kind("stats", c) : c \in ShortStatsResponses}
    <3>1. PICK c \in ShortStatsResponses : kind = Kind("stats", c)
      BY <2>6
    <3> QED
      BY <3>1, ShortResponseContent7
  <2>7. CASE kind \in {Kind("helloAck", c) : c \in ShortHelloAcks}
    <3>1. PICK c \in ShortHelloAcks : kind = Kind("helloAck", c)
      BY <2>7
    <3> QED
      BY <3>1, ShortResponseContent8
  <2>8. CASE kind = NoKind
    <3>1. kind.kind = "none"
      BY <2>8 DEF NoKind, Kind
    <3>2. ResponseContent(kind) = <<>>
      BY <3>1 DEF ResponseContent
    <3> QED
      BY <3>2, ShortNone
  <2> QED
    BY <1>2, <2>1, <2>2, <2>3, <2>4, <2>5, <2>6, <2>7, <2>8, Zenon DEF ShortResponseKinds
<1>5. 1 \in FieldNumbers
  BY DEF FieldNumbers
<1>6. Short(UInt64(1, id), 20)
  BY <1>2, <1>5, ShortField
<1>7. Short(EncodeResponse(message), 328)
  BY <1>3, <1>4, <1>6, ShortOn
<1>8. 328 <= Few
  BY DEF Few
<1> QED
  BY <1>1, <1>7, <1>8, ShortSmall

-----------------------------------------------------------------------------
(* The messages of the model are such messages.                            *)

LEMMA ListIsSeq ==
  ASSUME NEW S, NEW n \in Nat, NEW f \in [1 .. n -> S]
  PROVE  f \in Seq(S) /\ Len(f) = n
  OBVIOUS

LEMMA SomeNumbers ==
  /\ <<>> \in U64 /\ <<1>> \in U64 /\ <<0, 1>> \in U64 /\ U64Max \in U64
  /\ U64s \subseteq U64
<1>1. <<>> \in U64
  BY DEF U64
<1>2. <<1>> \in U64
  <2>1. <<1>> \in Seq(Group)
    BY DEF Group
  <2> QED
    BY <2>1 DEF U64
<1>3. <<0, 1>> \in U64
  <2>1. <<0, 1>> \in Seq(Group)
    BY DEF Group
  <2> QED
    BY <2>1 DEF U64
<1>4. U64Max \in U64
  <2>1. U64Max \in [1 .. 10 -> Group]
    BY DEF U64Max, Group
  <2>2. U64Max[10] = 1
    BY DEF U64Max
  <2>3. U64Max \in Seq(Group) /\ Len(U64Max) = 10
    <3>1. 10 \in Nat
      OBVIOUS
    <3> QED
      BY <2>1, <3>1, ListIsSeq, Zenon
  <2>4. Len(U64Max) \in 0 .. 10 /\ (U64Max # <<>> => U64Max[Len(U64Max)] # 0)
    BY <2>2, <2>3
  <2> QED
    BY <2>2, <2>3, <2>4, Zenon DEF U64
<1> QED
  BY <1>1, <1>2, <1>3, <1>4 DEF U64s

LEMMA SomeWords ==
  /\ Strings \subseteq Words
  /\ \A n \in Nat : <<n>> \in Words
  /\ <<>> \in WordLists /\ \A w \in Words : <<w>> \in WordLists
  /\ \A v, w \in Words : <<v, w>> \in WordLists
<1>1. <<>> \in Words /\ \A n \in Nat : <<n>> \in Words
  BY DEF Words
<1>2. Strings \subseteq Words
  BY <1>1 DEF Strings
<1>3. <<>> \in WordLists /\ \A w \in Words : <<w>> \in WordLists
  BY DEF WordLists
<1>4. \A v, w \in Words : <<v, w>> \in WordLists
  BY DEF WordLists
<1> QED
  BY <1>1, <1>2, <1>3, <1>4

SomeEvent(type, tags) == [type |-> type, tags |-> tags, payload |-> <<200>>]

LEMMA SomeEvents == Events \subseteq ShortEvents
<1>1. \A type \in Strings, tags \in {<<>>, <<<<>>, <<98>>>>} :
        SomeEvent(type, tags) \in ShortEvents
  <2> TAKE type \in Strings, tags \in {<<>>, <<<<>>, <<98>>>>}
  <2>1. type \in Words /\ <<200>> \in Words
    BY SomeWords
  <2>2. <<>> \in Words /\ <<98>> \in Words
    BY SomeWords DEF Strings
  <2>3. <<<<>>, <<98>>>> \in WordLists
    BY <2>2, SomeWords
  <2>4. tags \in WordLists
    BY <2>3, SomeWords
  <2> QED
    BY <2>1, <2>4 DEF ShortEvents, SomeEvent
<1>2. {SomeEvent(type, tags) : type \in Strings,
      tags \in {<<>>, <<<<>>, <<98>>>>}} \subseteq ShortEvents
  BY <1>1
<1> QED
  BY <1>2 DEF Events, SomeEvent

LEMMA SomeQueries == Queries \subseteq ShortQueries /\ NoQuery \in ShortQueries
<1>1. <<>> \in {s \in Seq(ShortQueryItems) : Len(s) <= 2}
  OBVIOUS
<1>2. [all |-> TRUE, items |-> <<>>] \in ShortQueries /\ NoQuery \in ShortQueries
  BY <1>1 DEF ShortQueries, NoQuery
<1> DEFINE x == [types |-> <<<<97>>>>, tags |-> <<>>]
           y == [types |-> <<>>, tags |-> <<<<98>>, <<>>>>]
<1>3. x \in ShortQueryItems
  <2>1. <<97>> \in Words
    BY SomeWords
  <2>2. <<<<97>>>> \in WordLists /\ <<>> \in WordLists
    BY <2>1, SomeWords
  <2> QED
    BY <2>2 DEF ShortQueryItems
<1>4. y \in ShortQueryItems
  <2>1. <<98>> \in Words /\ <<>> \in Words
    BY SomeWords DEF Strings
  <2>2. <<<<98>>, <<>>>> \in WordLists /\ <<>> \in WordLists
    BY <2>1, SomeWords
  <2> QED
    BY <2>2 DEF ShortQueryItems
<1> HIDE DEF x, y
<1>5. <<x, y>> \in {s \in Seq(ShortQueryItems) : Len(s) <= 2}
  BY <1>3, <1>4
<1>6. [all |-> FALSE, items |-> <<x, y>>] \in ShortQueries
  BY <1>5 DEF ShortQueries
<1> QED
  BY <1>2, <1>6 DEF Queries, x, y

LEMMA SomeConditions ==
  ASSUME NEW q \in Queries, NEW x \in AtMostOne(Queries)
  PROVE  [failIfEventsMatch |-> q, after |-> <<>>, failIfExists |-> x] \in ShortConditions
<1>1. q \in ShortQueries
  BY SomeQueries
<1>2. x \in AtMostOne(ShortQueries)
  BY SomeQueries DEF AtMostOne
<1> QED
  BY <1>1, <1>2, SomeNumbers DEF ShortConditions

ConditionalAppend(q, x) ==
  Kind("append", [events |-> <<>>,
    condition |-> {[failIfEventsMatch |-> q, after |-> <<>>, failIfExists |-> x]}])
ReadOf(q, a, l, r) == Kind("read", [query |-> q, after |-> a, limit |-> l, reverse |-> r])

EmptyHello == Kind("hello", [protocolVersion |-> 1, authToken |-> {<<>>}])

\* A request of the model is one of those, but for a hello with an empty token.
LEMMA SomeKinds ==
  ASSUME NEW m \in Requests
  PROVE  m \in ShortRequests
           \/ (m.requestId \in U64 /\ m = [requestId |-> m.requestId, kind |-> EmptyHello])
<1>1. ASSUME NEW kind, kind = Kind("stats", Empty) \/ kind = Kind("cancel", [target |-> <<0, 1>>])
      PROVE  kind \in ShortRequestKinds
  <2>1. [target |-> <<0, 1>>] \in ShortCancelRequests
    BY SomeNumbers DEF ShortCancelRequests
  <2> QED
    BY <1>1, <2>1, Zenon DEF ShortRequestKinds
<1>2. ASSUME NEW t \in AtMostOne(Strings), t # {<<>>}
      PROVE  Kind("hello", [protocolVersion |-> 1, authToken |-> t]) \in ShortRequestKinds
  <2>1. t \in AtMostOne(Words \ {<<>>})
    BY <1>2, SomeWords DEF AtMostOne
  <2>2. 1 \in Small32
    BY SMT DEF Small32, AboveAnyLength
  <2>3. [protocolVersion |-> 1, authToken |-> t] \in ShortHellos
    BY <2>1, <2>2 DEF ShortHellos
  <2> QED
    BY <2>3, Zenon DEF ShortRequestKinds
<1>3. ASSUME NEW e \in Events
      PROVE  Kind("append", [events |-> <<e, e>>, condition |-> {}]) \in ShortRequestKinds
  <2>1. e \in ShortEvents
    BY SomeEvents
  <2>2. <<e, e>> \in {s \in Seq(ShortEvents) : Len(s) <= 2}
    BY <2>1
  <2>3. [events |-> <<e, e>>, condition |-> {}] \in ShortAppendRequests
    BY <2>2 DEF ShortAppendRequests, AtMostOne
  <2> QED
    BY <2>3, Zenon DEF ShortRequestKinds
<1>4. ASSUME NEW q \in Queries, NEW x \in AtMostOne(Queries)
      PROVE  ConditionalAppend(q, x) \in ShortRequestKinds
  <2> DEFINE c == [failIfEventsMatch |-> q, after |-> <<>>, failIfExists |-> x]
  <2>1. c \in ShortConditions
    BY SomeConditions
  <2>2. <<>> \in {s \in Seq(ShortEvents) : Len(s) <= 2}
    OBVIOUS
  <2> HIDE DEF c
  <2>3. [events |-> <<>>, condition |-> {c}] \in ShortAppendRequests
    BY <2>1, <2>2 DEF ShortAppendRequests, AtMostOne
  <2>4. Kind("append", [events |-> <<>>, condition |-> {c}]) \in ShortRequestKinds
    BY <2>3, Zenon DEF ShortRequestKinds
  <2> QED
    BY <2>4 DEF c, ConditionalAppend
<1>5. \A q \in {NoQuery}, a \in {<<>>, U64Max}, l \in AtMostOne({<<>>, <<1>>}), r \in BOOLEAN :
        ReadOf(q, a, l, r) \in ShortRequestKinds
  <2> TAKE q \in {NoQuery}, a \in {<<>>, U64Max}, l \in AtMostOne({<<>>, <<1>>}), r \in BOOLEAN
  <2>1. q \in ShortQueries /\ a \in U64
    BY SomeQueries, SomeNumbers
  <2>2. l \in AtMostOne(U64)
    BY SomeNumbers DEF AtMostOne
  <2>3. [query |-> q, after |-> a, limit |-> l, reverse |-> r] \in ShortReadRequests
    BY <2>1, <2>2 DEF ShortReadRequests
  <2> QED
    BY <2>3, Zenon DEF ShortRequestKinds, ReadOf
<1>6. ASSUME NEW q \in Queries
      PROVE  Kind("subscribe", [query |-> q, after |-> <<1>>]) \in ShortRequestKinds
  <2>1. [query |-> q, after |-> <<1>>] \in ShortSubscribeRequests
    BY SomeQueries, SomeNumbers DEF ShortSubscribeRequests
  <2> QED
    BY <2>1, Zenon DEF ShortRequestKinds
<1>7. m.requestId \in U64 /\ m = [requestId |-> m.requestId, kind |-> m.kind]
  <2>1. {<<1>>, U64Max} \subseteq U64 /\ {<<1>>} \subseteq U64
    BY SomeNumbers
  <2> QED
    BY <2>1 DEF Requests
<1>8. CASE m.kind \in ShortRequestKinds
  BY <1>7, <1>8 DEF ShortRequests
<1>9. \/ m.kind \in ShortRequestKinds
      \/ \E t \in AtMostOne(Strings) :
           m.kind = Kind("hello", [protocolVersion |-> 1, authToken |-> t])
  <2> DEFINE A == {Kind("stats", Empty), Kind("cancel", [target |-> <<0, 1>>])}
             H == {Kind("hello", [protocolVersion |-> 1, authToken |-> t]) :
                 t \in AtMostOne(Strings)}
             E1 == {Kind("append", [events |-> <<e, e>>, condition |-> {}]) : e \in Events}
             E2 == {ConditionalAppend(q, x) : q \in Queries, x \in AtMostOne(Queries)}
             R == {ReadOf(q, a, l, r) :
                     q \in {NoQuery}, a \in {<<>>, U64Max}, l \in AtMostOne({<<>>, <<1>>}),
                         r \in BOOLEAN}
             S == {Kind("subscribe", [query |-> q, after |-> <<1>>]) : q \in Queries}
  <2>1. A \subseteq ShortRequestKinds
    BY <1>1
  <2>2. E1 \subseteq ShortRequestKinds
    BY <1>3, Zenon
  <2>3. E2 \subseteq ShortRequestKinds
    BY <1>4
  <2>4. R \subseteq ShortRequestKinds
    BY <1>5
  <2>5. S \subseteq ShortRequestKinds
    BY <1>6, Zenon
  <2>6. Requests = [requestId : {<<1>>, U64Max}, kind : A \cup H]
          \cup [requestId : {<<1>>}, kind : E1 \cup E2 \cup R \cup S]
    BY DEF Requests, ConditionalAppend, ReadOf
  <2>7. \A k \in H : \E t \in AtMostOne(Strings) :
          k = Kind("hello", [protocolVersion |-> 1, authToken |-> t])
    BY Zenon
  <2> HIDE DEF A, H, E1, E2, R, S
  <2>8. m.kind \in A \cup H \/ m.kind \in E1 \cup E2 \cup R \cup S
    BY <2>6
  <2> QED
    BY <2>1, <2>2, <2>3, <2>4, <2>5, <2>7, <2>8, Zenon
<1>10. ASSUME NEW t \in AtMostOne(Strings),
              m.kind = Kind("hello", [protocolVersion |-> 1, authToken |-> t])
       PROVE  m \in ShortRequests
                \/ (m.requestId \in U64 /\ m = [requestId |-> m.requestId, kind |-> EmptyHello])
  <2>1. CASE t = {<<>>}
    BY <1>7, <1>10, <2>1, Zenon DEF EmptyHello
  <2>2. CASE t # {<<>>}
    BY <1>2, <1>8, <1>10, <2>2
  <2> QED
    BY <2>1, <2>2
<1> QED
  BY <1>8, <1>9, <1>10

LEMMA ShortToken ==
  ASSUME NEW m \in ShortRequests
  PROVE  ~(m.kind.kind = "hello" /\ m.kind.content.authToken = {<<>>})
<1>1. \A k, c : Kind(k, c).kind = k /\ Kind(k, c).content = c
  BY DEF Kind
<1>2. m.kind \in ShortRequestKinds
  BY DEF ShortRequests
<1>3. \A c \in ShortHellos : c.authToken # {<<>>}
  BY DEF ShortHellos, AtMostOne
<1>4. SUFFICES ASSUME m.kind.kind = "hello" /\ m.kind.content.authToken = {<<>>} PROVE FALSE
  OBVIOUS
<1>5. \A k, c : m.kind = Kind(k, c) => k = "hello"
  BY <1>1, <1>4
<1>6. PICK c \in ShortHellos : m.kind = Kind("hello", c)
  BY <1>2, <1>5, Zenon DEF ShortRequestKinds, NoKind
<1>7. m.kind.content = c
  BY <1>1, <1>6
<1> QED
  BY <1>3, <1>4, <1>7

\* Such a hello is written as one without a token.
LEMMA SomeRequests ==
  ASSUME NEW m \in Requests
  PROVE  /\ AsWritten(m) \in ShortRequests
         /\ EncodeRequest(m) = EncodeRequest(AsWritten(m))
<1>1. CASE m \in ShortRequests
  <2>1. AsWritten(m) = m
    BY <1>1, ShortToken DEF AsWritten
  <2> QED
    BY <1>1, <2>1
<1>2. CASE m.requestId \in U64 /\ m = [requestId |-> m.requestId, kind |-> EmptyHello]
  <2> DEFINE with == [protocolVersion |-> 1, authToken |-> {<<>>}]
             without == [protocolVersion |-> 1, authToken |-> {}]
             id == m.requestId
             w == [requestId |-> id, kind |-> Kind("hello", without)]
  <2>1. id \in U64 /\ m = [requestId |-> id, kind |-> Kind("hello", with)]
    BY <1>2 DEF EmptyHello
  <2>2. AsWritten(m) = w
    <3>1. m.kind.kind = "hello" /\ m.kind.content.authToken = {<<>>}
      BY <2>1 DEF Kind
    <3>2. AsWritten(m) = [m EXCEPT !.kind.content.authToken = {}]
      BY <3>1 DEF AsWritten
    <3> DEFINE k == Kind("hello", with)
    <3>3. [with EXCEPT !.authToken = {}] = without
      <4>1. \A x, y : [[protocolVersion |-> 1, authToken |-> x] EXCEPT !.authToken = y]
                        = [protocolVersion |-> 1, authToken |-> y]
        OBVIOUS
      <4> QED
        BY <4>1, Zenon
    <3>4. k.content = with /\ \A x : [k EXCEPT !.content = x] = Kind("hello", x)
      BY DEF Kind
    <3>5. m.kind = k /\ \A x : [m EXCEPT !.kind = x] = [requestId |-> id, kind |-> x]
      <4>1. m = [requestId |-> id, kind |-> k]
        BY <2>1
      <4> HIDE DEF k, id
      <4> QED
        BY <4>1
    <3> HIDE DEF k, with, without, id
    <3>6. AsWritten(m)
          = [m EXCEPT !.kind = [k EXCEPT !.content = [k.content EXCEPT !.authToken = {}]]]
      BY <3>2, <3>5
    <3> QED
      BY <3>3, <3>4, <3>5, <3>6
  <2>3. w \in ShortRequests
    <3>1. 1 \in Small32
      BY SMT DEF Small32, AboveAnyLength
    <3>2. without \in ShortHellos
      BY <3>1 DEF ShortHellos, AtMostOne
    <3>3. Kind("hello", without) \in ShortRequestKinds
      BY <3>2, Zenon DEF ShortRequestKinds
    <3> QED
      BY <2>1, <3>3 DEF ShortRequests
  <2>4. EncodeHello(with) = EncodeHello(without)
    BY HelloEmpty
  <2>5. EncodeRequest(m) = UInt64(1, id) \o Message(7, EncodeHello(with))
    <3> DEFINE k == Kind("hello", with)
    <3>1. k.kind = "hello" /\ k.content = with
      BY DEF Kind
    <3>2. m.requestId = id /\ m.kind = k
      BY <2>1
    <3> HIDE DEF with, k, id
    <3>3. EncodeRequest(m) = UInt64(1, id) \o Message(7, EncodeHello(k.content))
      BY <3>1, <3>2 DEF EncodeRequest
    <3> QED
      BY <3>1, <3>3
  <2>6. EncodeRequest(w) = UInt64(1, id) \o Message(7, EncodeHello(without))
    <3> DEFINE k == Kind("hello", without)
    <3>1. k.kind = "hello" /\ k.content = without
      BY DEF Kind
    <3>2. w.requestId = id /\ w.kind = k
      OBVIOUS
    <3> HIDE DEF without, k, id, w
    <3>3. EncodeRequest(w) = UInt64(1, id) \o Message(7, EncodeHello(k.content))
      BY <3>1, <3>2 DEF EncodeRequest
    <3> QED
      BY <3>1, <3>3
  <2> HIDE DEF with, without, w
  <2> QED
    BY <2>2, <2>3, <2>4, <2>5, <2>6
<1> QED
  BY <1>1, <1>2, SomeKinds

ErrorOf(code, text, p, r) ==
  Kind("error", [code |-> code, message |-> text, conflictPosition |-> p, retryable |-> r])

LEMMA SomeErrors ==
  ASSUME NEW code \in 0 .. 300, NEW text \in Words, NEW r \in BOOLEAN
  PROVE  \A p \in AtMostOne({<<>>, <<1>>}) : ErrorOf(code, text, p, r) \in ShortResponseKinds
<1> TAKE p \in AtMostOne({<<>>, <<1>>})
<1>1. code \in Small32
  BY SMT DEF Small32, AboveAnyLength
<1>2. p \in AtMostOne(U64)
  BY SomeNumbers DEF AtMostOne
<1>3. [code |-> code, message |-> text, conflictPosition |-> p, retryable |-> r]
        \in ShortErrorResponses
  BY <1>1, <1>2 DEF ShortErrorResponses
<1> QED
  BY <1>3, Zenon DEF ShortResponseKinds, ErrorOf

LEMMA SomeStatsShort == SomeStats \in ShortStatsResponses
<1>1. \A name \in Range(StatsField) : SomeStats[name] \in {<<1>>, <<0, 1>>, <<>>}
  BY DEF SomeStats
<1>2. {<<1>>, <<0, 1>>, <<>>} \subseteq U64
  BY SomeNumbers
<1>3. U64 \subseteq Seq(Nat)
  <2>1. Group \subseteq Nat
    BY DEF Group
  <2> QED
    BY <2>1, SeqWider DEF U64
<1>4. SomeStats = [name \in Range(StatsField) |-> SomeStats[name]]
  BY DEF SomeStats
<1>5. SomeStats \in [Range(StatsField) -> Seq(Nat)]
  BY <1>1, <1>2, <1>3, <1>4
<1>6. \A i \in (1 .. 10) \ {7} : SomeStats[StatsField[i]] \in U64
  BY <1>1, <1>2, StatsFields
<1>7. "version" \in Range(StatsField)
  BY StatsFields
<1>8. SomeStats.version = <<1>>
  BY <1>7 DEF SomeStats
<1>9. Len(SomeStats.version) <= 1
  BY <1>8
<1> HIDE DEF SomeStats
<1> QED
  BY <1>5, <1>6, <1>9 DEF ShortStatsResponses, StatsResponseType

\* A response of the model is one of those.
LEMMA SomeResponses == Responses \subseteq ShortResponses
<1>1. ASSUME NEW n \in U64s
      PROVE  /\ Kind("append", [first |-> <<1>>, last |-> n]) \in ShortResponseKinds
             /\ Kind("readEnd", [watermark |-> n]) \in ShortResponseKinds
             /\ Kind("caughtUp", [watermark |-> n]) \in ShortResponseKinds
  <2>1. n \in U64 /\ <<1>> \in U64
    BY SomeNumbers
  <2>2. [first |-> <<1>>, last |-> n] \in ShortAppendResponses
    BY <2>1 DEF ShortAppendResponses
  <2> QED
    BY <2>1, <2>2, Zenon DEF ShortResponseKinds
<1>2. ASSUME NEW e \in AtMostOne(Events)
      PROVE  Kind("readEvents", [events |-> <<[position |-> U64Max, event |-> e]>>])
               \in ShortResponseKinds
  <2> DEFINE s == [position |-> U64Max, event |-> e]
  <2>1. e \in AtMostOne(ShortEvents)
    BY SomeEvents DEF AtMostOne
  <2>2. s \in ShortSequencedEvents
    BY <2>1, SomeNumbers DEF ShortSequencedEvents
  <2> HIDE DEF s
  <2>3. <<s>> \in {t \in Seq(ShortSequencedEvents) : Len(t) <= 2}
    BY <2>2
  <2>4. [events |-> <<s>>] \in ShortReadEventLists
    BY <2>3 DEF ShortReadEventLists
  <2>5. Kind("readEvents", [events |-> <<s>>]) \in ShortResponseKinds
    BY <2>4, Zenon DEF ShortResponseKinds
  <2> QED
    BY <2>5 DEF s
<1>3. \A code \in {0, 9, 300}, p \in AtMostOne({<<>>, <<1>>}), r \in BOOLEAN :
        ErrorOf(code, <<97>>, p, r) \in ShortResponseKinds
  <2> TAKE code \in {0, 9, 300}, p \in AtMostOne({<<>>, <<1>>}), r \in BOOLEAN
  <2>1. code \in 0 .. 300
    OBVIOUS
  <2>2. <<97>> \in Words
    BY SomeWords
  <2> QED
    BY <2>1, <2>2, SomeErrors
<1>4. ASSUME NEW code \in 1 .. 8
      PROVE  ErrorOf(code, <<>>, {}, FALSE) \in ShortResponseKinds
  <2>1. code \in 0 .. 300
    OBVIOUS
  <2>2. <<>> \in Words
    BY SomeWords DEF Strings
  <2>3. {} \in AtMostOne({<<>>, <<1>>})
    BY DEF AtMostOne
  <2> QED
    BY <2>1, <2>2, <2>3, SomeErrors
<1> DEFINE long == [i \in 1 .. 130 |-> 97]
<1>5. ASSUME NEW kind \in {Kind("stats", SomeStats), NoKind,
             Kind("helloAck", [protocolVersion |-> 1, serverVersion |-> long])}
      PROVE  kind \in ShortResponseKinds
  <2>1. long \in {s \in Seq(Nat) : Len(s) <= 130}
    <3>1. \A n, m \in Nat : [i \in 1 .. n |-> m] \in Seq(Nat) /\ Len([i \in 1 .. n |-> m]) = n
      OBVIOUS
    <3>2. long \in Seq(Nat) /\ Len(long) = 130
      BY <3>1
    <3> HIDE DEF long
    <3>3. Len(long) <= 130
      BY <3>2
    <3> QED
      BY <3>2, <3>3, Zenon
  <2>2. 1 \in Small32
    BY SMT DEF Small32, AboveAnyLength
  <2> HIDE DEF long
  <2>3. [protocolVersion |-> 1, serverVersion |-> long] \in ShortHelloAcks
    BY <2>1, <2>2 DEF ShortHelloAcks
  <2> QED
    BY <2>3, SomeStatsShort, Zenon DEF ShortResponseKinds
<1>6. {<<>>, <<0, 1>>} \subseteq U64
  BY SomeNumbers
<1> DEFINE A == {Kind("append", [first |-> <<1>>, last |-> n]) : n \in U64s}
           B == {Kind("readEvents", [events |-> <<[position |-> U64Max, event |-> e]>>]) :
                   e \in AtMostOne(Events)}
           C == {Kind("readEnd", [watermark |-> n]) : n \in U64s}
           D == {Kind("caughtUp", [watermark |-> n]) : n \in U64s}
           E == {ErrorOf(code, <<97>>, p, r) :
                   code \in {0, 9, 300}, p \in AtMostOne({<<>>, <<1>>}), r \in BOOLEAN}
           F == {ErrorOf(code, <<>>, {}, FALSE) : code \in 1 .. 8}
           G == {Kind("stats", SomeStats), NoKind,
                 Kind("helloAck", [protocolVersion |-> 1, serverVersion |-> long])}
<1>7. Responses = [requestId : {<<>>, <<0, 1>>}, kind : A \cup B \cup C \cup D \cup E \cup F \cup G]
  BY DEF Responses, ErrorOf
<1>8. /\ A \subseteq ShortResponseKinds /\ C \subseteq ShortResponseKinds
      /\ D \subseteq ShortResponseKinds
  BY <1>1, Zenon
<1>9. B \subseteq ShortResponseKinds
  BY <1>2, Zenon
<1>10. E \subseteq ShortResponseKinds
  BY <1>3
<1>11. F \subseteq ShortResponseKinds
  BY <1>4, Zenon
<1>12. G \subseteq ShortResponseKinds
  BY <1>5, Zenon
<1> HIDE DEF A, B, C, D, E, F, G
<1> QED
  BY <1>6, <1>7, <1>8, <1>9, <1>10, <1>11, <1>12 DEF ShortResponses

-----------------------------------------------------------------------------
(* The fields of a newer protocol are of numbers that no decoder knows.    *)

LEMMA ThreeLong ==
  ASSUME NEW a \in Nat, NEW b \in Nat, NEW c \in Nat
  PROVE  <<a>> \o <<b, c>> = <<a, b, c>>
<1> DEFINE s == <<a>> \o <<b, c>>
           t == <<a, b, c>>
<1>1. s \in Seq(Nat) /\ t \in Seq(Nat) /\ Len(s) = 3 /\ Len(t) = 3
  OBVIOUS
<1>2. s[1] = a /\ s[2] = b /\ s[3] = c /\ t[1] = a /\ t[2] = b /\ t[3] = c
  OBVIOUS
<1> HIDE DEF s, t
<1>3. \A i \in 1 .. 3 : s[i] = t[i]
  BY <1>2
<1>4. s \in [1 .. 3 -> Nat] /\ t \in [1 .. 3 -> Nat]
  BY <1>1, LenProperties
<1>5. s = t
  BY <1>3, <1>4
<1> QED
  BY <1>5 DEF s, t

LEMMA VarintTwo == Varint(2) = <<2>>
<1> DEFINE d == Digits(2)
<1>1. /\ d \in U64 /\ Len(d) \in 0 .. 5
      /\ Digit(d, 1) = 2 /\ Digit(d, 2) = 0 /\ Digit(d, 3) = 0 /\ Digit(d, 4) = 0
      /\ Digit(d, 5) = 0
  <2>1. Fits32(2)
    BY SMT DEF Fits32
  <2>2. /\ d \in U64 /\ Len(d) \in 0 .. 5
        /\ Digit(d, 1) = 2 % 128
        /\ Digit(d, 2) = (2 \div 128) % 128
        /\ Digit(d, 3) = (2 \div 16384) % 128
        /\ Digit(d, 4) = (2 \div 2097152) % 128
        /\ Digit(d, 5) = 2 \div 268435456
    BY <2>1, DigitsOf, SMT
  <2> HIDE DEF d
  <2> QED
    BY <2>2, SMT
<1> HIDE DEF d
<1>2. d \in Seq(Group) /\ (d # <<>> => d[Len(d)] # 0) /\ DOMAIN d = 1 .. Len(d)
  BY <1>1, LenProperties DEF U64
<1>3. \A i \in 1 .. 5 : Digit(d, i) = IF i <= Len(d) THEN d[i] ELSE 0
  BY <1>1, <1>2 DEF Digit
<1>4. Len(d) # 0
  BY <1>1, <1>3
<1>5. Len(d) = 1
  BY <1>1, <1>2, <1>3, <1>4
<1>6. d[1] = 2
  BY <1>1, <1>3, <1>5
<1>7. d = <<2>>
  BY <1>2, <1>5, <1>6
<1>8. VarintBig(<<2>>) = <<2>>
  BY DEF VarintBig
<1> QED
  BY <1>7, <1>8 DEF d, Varint

\* A field that a decoder of the given numbers skips, wherever it stands.
Unknown(varints, lens, new) ==
  \E f : Piece(varints, lens, new, f) /\ f.no \notin varints \cup lens

LEMMA UnknownIf ==
  ASSUME NEW no \in FieldNumbers, NEW wireType \in 0 .. 7, NEW varints, NEW lens,
         no \notin varints \cup lens, NEW content \in Seq(Nat), NEW value,
         ContentIs(varints, lens, no, wireType, content, value)
  PROVE  Unknown(varints, lens, Tag(no, wireType) \o content)
<1>1. Piece(varints, lens, Tag(no, wireType) \o content, [no |-> no, value |-> value])
  BY PieceOf
<1> DEFINE f == [no |-> no, value |-> value]
<1>2. f.no = no
  OBVIOUS
<1> HIDE DEF f
<1>3. Piece(varints, lens, Tag(no, wireType) \o content, f)
  BY <1>1 DEF f
<1> QED
  BY <1>2, <1>3, Zenon DEF Unknown

FarNo == 33554432

\* Each of the model's new fields is such a field of at most 20 bytes.
LEMMA SomeNewFields ==
  ASSUME NEW varints, NEW lens, varints \cup lens \subseteq 1 .. 10, NEW new \in NewFields
  PROVE  new \in Seq(Nat) /\ Len(new) <= 20 /\ Unknown(varints, lens, new)
<1>1. /\ 15 \in FieldNumbers /\ 16 \in FieldNumbers /\ FarNo \in FieldNumbers
      /\ 15 \notin varints \cup lens /\ 16 \notin varints \cup lens
             /\ FarNo \notin varints \cup lens
  <2>1. 15 \in FieldNumbers /\ 16 \in FieldNumbers /\ FarNo \in FieldNumbers
    BY SMT DEF FieldNumbers, FarNo
  <2>2. 15 \notin 1 .. 10 /\ 16 \notin 1 .. 10 /\ FarNo \notin 1 .. 10
    BY SMT DEF FarNo
  <2> QED
    BY <2>1, <2>2, Zenon
<1>2. /\ VARINT \in 0 .. 7 /\ FIXED64 \in 0 .. 7 /\ LEN \in 0 .. 7 /\ FIXED32 \in 0 .. 7
  BY DEF VARINT, FIXED64, LEN, FIXED32
<1> DEFINE Ending(wireType, content) ==
             /\ content \in Seq(Nat) /\ Len(content) <= 10
             /\ \A no : no \notin varints \cup lens =>
                  \E value : ContentIs(varints, lens, no, wireType, content, value)
<1>3. Ending(VARINT, VarintBig(U64Max))
  <2>1. VarintBig(U64Max) \in Seq(Nat) /\ Len(VarintBig(U64Max)) \in 1 .. 10
    BY SomeNumbers, VarintBytes
  <2>2. \A no : no \notin varints \cup lens =>
          ContentIs(varints, lens, no, VARINT, VarintBig(U64Max), U64Max)
    BY SomeNumbers, VarintContent
  <2>3. Len(VarintBig(U64Max)) <= 10
    <3>1. \A x \in 1 .. 10 : x <= 10
      OBVIOUS
    <3> QED
      BY <2>1, <3>1, Zenon
  <2> QED
    BY <2>1, <2>2, <2>3, Zenon
<1>4. Ending(LEN, <<2, 8, 1>>)
  <2> DEFINE v == <<8, 1>>
  <2>1. v \in Seq(Nat) /\ Len(v) = 2
    OBVIOUS
  <2>2. Varint(Len(v)) \o v = <<2, 8, 1>>
    <3>1. <<2>> \o v = <<2, 8, 1>>
      BY ThreeLong
    <3> HIDE DEF v
    <3> QED
      BY <2>1, <3>1, VarintTwo
  <2> HIDE DEF v
  <2>3. Len(v) < AboveAnyLength
    BY <2>1, SMT DEF AboveAnyLength
  <2>4. \A no : no \notin varints \cup lens =>
          ContentIs(varints, lens, no, LEN, <<2, 8, 1>>, <<>>)
    <3>1. \E x \in Seq(Nat) : Len(x) < AboveAnyLength /\ <<2, 8, 1>> = Varint(Len(x)) \o x
      BY <2>1, <2>2, <2>3, Zenon
    <3> QED
      BY <3>1, SkippedContent
  <2>5. <<2, 8, 1>> \in Seq(Nat) /\ Len(<<2, 8, 1>>) <= 10
    OBVIOUS
  <2> QED
    BY <2>4, <2>5
<1>5. Ending(FIXED64, [i \in 1 .. 8 |-> 255])
  <2> DEFINE x == [i \in 1 .. 8 |-> 255]
  <2>1. 8 \in Nat /\ x \in [1 .. 8 -> Nat]
    OBVIOUS
  <2> HIDE DEF x
  <2>2. x \in Seq(Nat) /\ Len(x) = 8
    BY <2>1, ListIsSeq, Zenon
  <2>3. \A no : no \notin varints \cup lens => ContentIs(varints, lens, no, FIXED64, x, <<>>)
    BY <2>2, SkippedContent
  <2>4. Len(x) <= 10
    BY <2>2
  <2> QED
    BY <2>2, <2>3, <2>4, Zenon DEF x
<1>6. Ending(FIXED32, <<8, 1, 8, 1>>)
  <2>1. <<8, 1, 8, 1>> \in Seq(Nat) /\ Len(<<8, 1, 8, 1>>) = 4
    OBVIOUS
  <2>2. \A no : no \notin varints \cup lens =>
          ContentIs(varints, lens, no, FIXED32, <<8, 1, 8, 1>>, <<>>)
    BY <2>1, SkippedContent
  <2>3. Len(<<8, 1, 8, 1>>) <= 10
    OBVIOUS
  <2> QED
    BY <2>1, <2>2, <2>3, Zenon
<1>7. ASSUME NEW no \in FieldNumbers, no \notin varints \cup lens, NEW wireType \in 0 .. 7,
             NEW content, Ending(wireType, content)
      PROVE  LET x == Tag(no, wireType) \o content
             IN  x \in Seq(Nat) /\ Len(x) <= 20 /\ Unknown(varints, lens, x)
  <2>1. PICK value : ContentIs(varints, lens, no, wireType, content, value)
    BY <1>7
  <2>2. Unknown(varints, lens, Tag(no, wireType) \o content)
    BY <1>7, <2>1, UnknownIf
  <2>3. Tag(no, wireType) \in Seq(Nat) /\ Len(Tag(no, wireType)) \in 1 .. 10
    BY TagBytes
  <2>4. content \in Seq(Nat) /\ Len(content) <= 10
    BY <1>7
  <2> HIDE DEF Ending
  <2>5. Tag(no, wireType) \o content \in Seq(Nat) /\ Len(Tag(no, wireType) \o content) <= 20
    <3> DEFINE a == Tag(no, wireType)
    <3>1. a \in Seq(Nat) /\ Len(a) \in 1 .. 10
      BY <2>3
    <3> HIDE DEF a
    <3>2. /\ a \o content \in Seq(Nat) /\ Len(a \o content) = Len(a) + Len(content)
          /\ Len(content) \in Nat
      BY <2>4, <3>1
    <3>3. \A x, y : x \in 1 .. 10 /\ y \in Nat /\ y <= 10 => x + y <= 20
      OBVIOUS
    <3> QED
      BY <2>4, <3>1, <3>2, <3>3 DEF a
  <2> QED
    BY <2>2, <2>5
<1> HIDE DEF Ending
<1> DEFINE Fine(x) == x \in Seq(Nat) /\ Len(x) <= 20 /\ Unknown(varints, lens, x)
<1>8. /\ Fine(Tag(15, VARINT) \o VarintBig(U64Max)) /\ Fine(Tag(16, LEN) \o <<2, 8, 1>>)
      /\ Fine(Tag(15, FIXED64) \o [i \in 1 .. 8 |-> 255])
      /\ Fine(Tag(FarNo, FIXED32) \o <<8, 1, 8, 1>>)
  BY <1>1, <1>2, <1>3, <1>4, <1>5, <1>6, <1>7, Zenon
<1> HIDE DEF Fine
<1>9. NewFields = {Tag(15, VARINT) \o VarintBig(U64Max), Tag(16, LEN) \o <<2, 8, 1>>,
                   Tag(15, FIXED64) \o [i \in 1 .. 8 |-> 255],
                       Tag(FarNo, FIXED32) \o <<8, 1, 8, 1>>}
  BY SMT DEF NewFields, FarNo
<1>10. Fine(new)
  BY <1>8, <1>9, Zenon
<1> QED
  BY <1>10 DEF Fine

-----------------------------------------------------------------------------
(* Events and queries arrive as they were sent.                            *)

\* The induction that the lemmas on a decoder's loop are given.
LEMMA LeastNumber ==
  \A T \in SUBSET Nat : T # {} => \E n \in T : \A k \in T : n <= k
  BY Least

EventReads(p, f) == Piece({}, {1, 2, 3}, p, f)
EventIs == INSTANCE DecoderProofs WITH Fresh <- FreshEvent, Case <- EventCase, Reads <- EventReads

LEMMA EventField ==
  ASSUME NEW m, NEW to, NEW pieces, NEW no, NEW v,
         (pieces = <<>> /\ to = m) \/ IsField({}, {1, 2, 3}, pieces, no, v),
         EventCase(m, [no |-> no, value |-> v]) = {to}
  PROVE  EventIs!Takes(m, pieces, to)
<1>1. ASSUME IsField({}, {1, 2, 3}, pieces, no, v)
      PROVE  \E piece : pieces = <<piece>> /\ EventIs!Step(m, piece, to)
  BY <1>1, Zenon DEF EventIs!Step, EventReads, IsField
<1> QED
  BY <1>1, EventIs!TakesIf, Zenon

LEMMA EventWhole ==
  ASSUME NEW pieces \in Seq(Seq(Nat)), NEW m, EventIs!Takes(FreshEvent, pieces, m)
  PROVE  DecodeEvent(FlattenSeq(pieces)) = {m}
<1>1. PICK via : EventIs!Leads(FreshEvent, pieces, m, via)
  BY Zenon DEF EventIs!Takes
<1>2. PICK S : \E fields \in Seq(S) : EventIs!AreRead(pieces, fields, m, via)
  BY <1>1, LeastNumber, EventIs!LoopTakes, Zenon
<1>3. PICK fields \in Seq(S) : EventIs!AreRead(pieces, fields, m, via)
  BY <1>2
<1>4. ReadFields(FlattenSeq(pieces), {}, {1, 2, 3}) = {fields}
  <2>1. /\ Len(fields) = Len(pieces)
        /\ \A n \in 1 .. Len(pieces) : Piece({}, {1, 2, 3}, pieces[n], fields[n])
    BY <1>3, Zenon DEF EventIs!AreRead, EventReads
  <2> QED
    BY <2>1, ReadWhole
<1>5. EventLoop!Merged(fields) = {m}
  BY <1>3, Zenon DEF EventIs!AreRead, EventIs!Merged, EventLoop!Merged
<1>6. UNION {EventLoop!Merged(f) : f \in {fields}} = EventLoop!Merged(fields)
  OBVIOUS
<1> QED
  BY <1>4, <1>5, <1>6, Zenon DEF DecodeEvent


EventOf(t, s, p) == [type |-> t, tags |-> s, payload |-> p]

LEMMA EventCases ==
  /\ FreshEvent = EventOf(<<>>, <<>>, <<>>)
  /\ \A t, s, p, v :
       /\ EventCase(EventOf(t, s, p), [no |-> 1, value |-> v]) = {EventOf(v, s, p)}
       /\ EventCase(EventOf(t, s, p), [no |-> 3, value |-> v]) = {EventOf(t, s, v)}
  BY DEF EventCase, EventOf, FreshEvent

LEMMA EventTag ==
  \A t, s, p, v :
      EventCase(EventOf(t, s, p), [no |-> 2, value |-> v]) = {EventOf(t, Append(s, v), p)}
  BY DEF EventCase, EventOf

\* An event arrives as it was sent.
LEMMA EventBack ==
  ASSUME NEW event \in EventType
  PROVE  /\ EncodeEvent(event) \in Seq(Seq(Nat))
         /\ Small(EncodeEvent(event)) => DecodeEvent(FlattenSeq(EncodeEvent(event))) = {event}
<1> DEFINE type == event.type
           tags == event.tags
           payload == event.payload
           a == Bytes(1, type)
           b == FlattenSeq([n \in 1 .. Len(tags) |-> Delimited(2, tags[n])])
           c == Bytes(3, payload)
           M == [s \in Seq(Seq(Nat)) |-> EventOf(type, s, <<>>)]
<1>1. /\ type \in Seq(Nat) /\ tags \in Seq(Seq(Nat)) /\ payload \in Seq(Nat)
      /\ event = EventOf(type, tags, payload)
      /\ 1 \in FieldNumbers /\ 2 \in FieldNumbers /\ 3 \in FieldNumbers
  BY DEF EventType, EventOf, FieldNumbers
<1>2. EncodeEvent(event) = (a \o b) \o c
  <2>1. DOMAIN tags = 1 .. Len(tags)
    BY <1>1
  <2> QED
    BY <2>1 DEF EncodeEvent, Each
<1>3. \A s \in Seq(Seq(Nat)) : M[s] = EventOf(type, s, <<>>)
  BY Zenon
<1> HIDE DEF type, tags, payload, M
<1>4. a \in Seq(Seq(Nat)) /\ b \in Seq(Seq(Nat)) /\ c \in Seq(Seq(Nat)) /\ a \o b \in Seq(Seq(Nat))
  BY <1>1, BytesField, EachField, LenOn
<1>5. EncodeEvent(event) \in Seq(Seq(Nat))
  BY <1>2, <1>4, LenOn
<1>6. ASSUME Small(EncodeEvent(event)) PROVE EventIs!Takes(FreshEvent, EncodeEvent(event), event)
  <2>1. Small(a) /\ Small(b) /\ Small(c)
    <3> HIDE DEF a, b, c
    <3> QED
      BY <1>2, <1>4, <1>6, LenOn
  <2>2. EventIs!Takes(FreshEvent, a, EventOf(type, <<>>, <<>>))
    <3>1. (a = <<>> /\ type = <<>>) \/ IsField({}, {1, 2, 3}, a, 1, type)
      BY <1>1, <2>1, Written1
    <3> HIDE DEF a
    <3>2. (a = <<>> /\ EventOf(type, <<>>, <<>>) = FreshEvent) \/ IsField({}, {1, 2, 3}, a, 1, type)
      BY <3>1, EventCases
    <3>3. EventCase(FreshEvent, [no |-> 1, value |-> type]) = {EventOf(type, <<>>, <<>>)}
      BY EventCases
    <3> QED
      BY <3>2, <3>3, EventField
  <2>3. EventIs!Takes(EventOf(type, <<>>, <<>>), b, EventOf(type, tags, <<>>))
    <3>1. /\ Len(b) = Len(tags)
          /\ \A n \in 1 .. Len(tags) : EventReads(b[n], [no |-> 2, value |-> tags[n]])
      BY <1>1, <2>1, EachField DEF EventReads
    <3> HIDE DEF b
    <3>2. ASSUME NEW n \in 1 .. Len(tags), NEW s \in Seq(Seq(Nat))
          PROVE  EventIs!Step(M[s], b[n], M[Append(s, tags[n])])
      <4>1. Append(s, tags[n]) \in Seq(Seq(Nat))
        BY <1>1, ElementOfSeq, AppendProperties
      <4>2. EventCase(M[s], [no |-> 2, value |-> tags[n]]) = {M[Append(s, tags[n])]}
        <5>1. EventCase(EventOf(type, s, <<>>), [no |-> 2, value |-> tags[n]])
                = {EventOf(type, Append(s, tags[n]), <<>>)}
          BY EventTag, SMT
        <5> QED
          BY <1>3, <4>1, <5>1
      <4> QED
        BY <3>1, <4>2, Zenon DEF EventIs!Step
    <3>3. EventIs!Takes(M[<<>>], b, M[tags])
      BY <1>1, <3>1, <3>2, EventIs!TakesRepeated, Zenon
    <3>4. M[<<>>] = EventOf(type, <<>>, <<>>) /\ M[tags] = EventOf(type, tags, <<>>)
      BY <1>1, <1>3, EmptySeq
    <3> QED
      BY <3>3, <3>4
  <2>4. EventIs!Takes(EventOf(type, tags, <<>>), c, event)
    <3>1. (c = <<>> /\ payload = <<>>) \/ IsField({}, {1, 2, 3}, c, 3, payload)
      BY <1>1, <2>1, Written1
    <3> HIDE DEF c
    <3>2. (c = <<>> /\ event = EventOf(type, tags, <<>>)) \/ IsField({}, {1, 2, 3}, c, 3, payload)
      BY <1>1, <3>1
    <3>3. EventCase(EventOf(type, tags, <<>>), [no |-> 3, value |-> payload]) = {event}
      BY <1>1, EventCases
    <3> QED
      BY <3>2, <3>3, EventField
  <2> HIDE DEF a, b, c
  <2>5. EventIs!Takes(FreshEvent, a \o b, EventOf(type, tags, <<>>))
    BY <1>4, <2>2, <2>3, EventIs!TakesOn
  <2> QED
    BY <1>2, <1>4, <2>4, <2>5, EventIs!TakesOn
<1> QED
  BY <1>5, <1>6, EventWhole

LEMMA UInt32Type ==
  ASSUME NEW no \in FieldNumbers, NEW n \in Small32
  PROVE  /\ UInt32(no, n) \in Seq(Seq(Nat))
         /\ Number(Digits(n)) = n
         /\ \A varints, lens : no \in varints =>
              \/ UInt32(no, n) = <<>> /\ n = 0
              \/ IsField(varints, lens, UInt32(no, n), no, Digits(n))
<1>1. n \in Nat /\ n < AboveAnyLength
  BY DEF Small32
<1> HIDE DEF AboveAnyLength
<1> QED
  BY <1>1, UInt32Field, NumberBack, Written1, Zenon

QueryItemReads(p, f) == Piece({}, {1, 2}, p, f)
QueryItemIs == INSTANCE DecoderProofs
    WITH Fresh <- FreshQueryItem, Case <- QueryItemCase, Reads <- QueryItemReads

LEMMA QueryItemField ==
  ASSUME NEW m, NEW to, NEW pieces, NEW no, NEW v,
         (pieces = <<>> /\ to = m) \/ IsField({}, {1, 2}, pieces, no, v),
         QueryItemCase(m, [no |-> no, value |-> v]) = {to}
  PROVE  QueryItemIs!Takes(m, pieces, to)
<1>1. ASSUME IsField({}, {1, 2}, pieces, no, v)
      PROVE  \E piece : pieces = <<piece>> /\ QueryItemIs!Step(m, piece, to)
  BY <1>1, Zenon DEF QueryItemIs!Step, QueryItemReads, IsField
<1> QED
  BY <1>1, QueryItemIs!TakesIf, Zenon

LEMMA QueryItemWhole ==
  ASSUME NEW pieces \in Seq(Seq(Nat)), NEW m, QueryItemIs!Takes(FreshQueryItem, pieces, m)
  PROVE  DecodeQueryItem(FlattenSeq(pieces)) = {m}
<1>1. PICK via : QueryItemIs!Leads(FreshQueryItem, pieces, m, via)
  BY Zenon DEF QueryItemIs!Takes
<1>2. PICK S : \E fields \in Seq(S) : QueryItemIs!AreRead(pieces, fields, m, via)
  BY <1>1, LeastNumber, QueryItemIs!LoopTakes, Zenon
<1>3. PICK fields \in Seq(S) : QueryItemIs!AreRead(pieces, fields, m, via)
  BY <1>2
<1>4. ReadFields(FlattenSeq(pieces), {}, {1, 2}) = {fields}
  <2>1. /\ Len(fields) = Len(pieces)
        /\ \A n \in 1 .. Len(pieces) : Piece({}, {1, 2}, pieces[n], fields[n])
    BY <1>3, Zenon DEF QueryItemIs!AreRead, QueryItemReads
  <2> QED
    BY <2>1, ReadWhole
<1>5. QueryItemLoop!Merged(fields) = {m}
  BY <1>3, Zenon DEF QueryItemIs!AreRead, QueryItemIs!Merged, QueryItemLoop!Merged
<1>6. UNION {QueryItemLoop!Merged(f) : f \in {fields}} = QueryItemLoop!Merged(fields)
  OBVIOUS
<1> QED
  BY <1>4, <1>5, <1>6, Zenon DEF DecodeQueryItem

QueryItemIn(p, q) == [types |-> p, tags |-> q]

LEMMA QueryItemCases ==
  FreshQueryItem = QueryItemIn(<<>>, <<>>)
  BY DEF QueryItemCase, QueryItemIn, FreshQueryItem

LEMMA QueryItemMore1 ==
  \A p, q, v :
    QueryItemCase(QueryItemIn(p, q), [no |-> 1, value |-> v]) = {QueryItemIn(Append(p, v), q)}
  BY DEF QueryItemCase, QueryItemIn

LEMMA QueryItemMore2 ==
  \A p, q, v :
    QueryItemCase(QueryItemIn(p, q), [no |-> 2, value |-> v]) = {QueryItemIn(p, Append(q, v))}
  BY DEF QueryItemCase, QueryItemIn

\* A query item arrives as it was sent.
LEMMA QueryItemBack ==
  ASSUME NEW message \in QueryItemType
  PROVE  /\ EncodeQueryItem(message) \in Seq(Seq(Nat))
         /\ Small(EncodeQueryItem(message))
                => DecodeQueryItem(FlattenSeq(EncodeQueryItem(message))) = {message}
<1>1. PICK p, q : /\ p \in Seq(Seq(Nat)) /\ q \in Seq(Seq(Nat))
                  /\ message = QueryItemIn(p, q)
  <2>1. message.types \in Seq(Seq(Nat)) /\ message.tags \in Seq(Seq(Nat))
    BY DEF QueryItemType
  <2>2. message = QueryItemIn(message.types, message.tags)
    BY DEF QueryItemType, QueryItemIn
  <2> QED
    BY <2>1, <2>2, Zenon
<1>2. 1 \in FieldNumbers /\ 2 \in FieldNumbers
  BY DEF FieldNumbers
<1> DEFINE a == FlattenSeq([n \in 1 .. Len(p) |-> Delimited(1, p[n])])
           b == FlattenSeq([n \in 1 .. Len(q) |-> Delimited(2, q[n])])
<1>3. EncodeQueryItem(message) = a \o b
  <2>1. QueryItemIn(p, q).types = p /\ QueryItemIn(p, q).tags = q
    BY DEF QueryItemIn
  <2>2. DOMAIN p = 1 .. Len(p) /\ DOMAIN q = 1 .. Len(q)
    BY <1>1
  <2> QED
    BY <1>1, <2>1, <2>2, Zenon DEF EncodeQueryItem, Each
<1>4. a \in Seq(Seq(Nat)) /\ b \in Seq(Seq(Nat))
  <2>1. a \in Seq(Seq(Nat))
    BY <1>1, <1>2, EachField
  <2>2. b \in Seq(Seq(Nat))
    BY <1>1, <1>2, EachField
  <2> QED
    BY <2>1, <2>2
<1>5. EncodeQueryItem(message) \in Seq(Seq(Nat))
  <2> HIDE DEF a, b
  <2> QED
    BY <1>3, <1>4, LenOn
<1>6. ASSUME Small(EncodeQueryItem(message))
      PROVE QueryItemIs!Takes(FreshQueryItem, EncodeQueryItem(message), message)
  <2>1. Small(a) /\ Small(b)
    <3> HIDE DEF a, b
    <3> QED
      BY <1>3, <1>4, <1>5, <1>6, LenOn
  <2>2. QueryItemIs!Takes(QueryItemIn(<<>>, <<>>), a, QueryItemIn(p, <<>>))
    <3> DEFINE M == [z \in Seq(Seq(Nat)) |-> QueryItemIn(z, <<>>)]
    <3>1. /\ Len(a) = Len(p)
          /\ \A n \in 1 .. Len(p) : QueryItemReads(a[n], [no |-> 1, value |-> p[n]])
      BY <1>1, <1>2, <2>1, EachField DEF QueryItemReads
    <3>2. \A z \in Seq(Seq(Nat)) : M[z] = QueryItemIn(z, <<>>)
      BY Zenon
    <3> HIDE DEF a, M
    <3>3. ASSUME NEW n \in 1 .. Len(p), NEW z \in Seq(Seq(Nat))
          PROVE  QueryItemIs!Step(M[z], a[n], M[Append(z, p[n])])
      <4>1. Append(z, p[n]) \in Seq(Seq(Nat))
        BY <1>1, ElementOfSeq, AppendProperties
      <4>2. QueryItemCase(M[z], [no |-> 1, value |-> p[n]]) = {M[Append(z, p[n])]}
        <5>1. QueryItemCase(QueryItemIn(z, <<>>), [no |-> 1, value |-> p[n]])
                = {QueryItemIn(Append(z, p[n]), <<>>)}
          BY QueryItemMore1, SMT
        <5> QED
          BY <3>2, <4>1, <5>1
      <4> QED
        BY <3>1, <4>2, Zenon DEF QueryItemIs!Step
    <3>4. QueryItemIs!Takes(M[<<>>], a, M[p])
      BY <1>1, <3>1, <3>3, QueryItemIs!TakesRepeated, Zenon
    <3>5. M[<<>>] = QueryItemIn(<<>>, <<>>) /\ M[p] = QueryItemIn(p, <<>>)
      BY <1>1, <3>2, EmptySeq
    <3> QED
      BY <3>4, <3>5
  <2>3. QueryItemIs!Takes(QueryItemIn(p, <<>>), b, QueryItemIn(p, q))
    <3> DEFINE M == [z \in Seq(Seq(Nat)) |-> QueryItemIn(p, z)]
    <3>1. /\ Len(b) = Len(q)
          /\ \A n \in 1 .. Len(q) : QueryItemReads(b[n], [no |-> 2, value |-> q[n]])
      BY <1>1, <1>2, <2>1, EachField DEF QueryItemReads
    <3>2. \A z \in Seq(Seq(Nat)) : M[z] = QueryItemIn(p, z)
      BY Zenon
    <3> HIDE DEF b, M
    <3>3. ASSUME NEW n \in 1 .. Len(q), NEW z \in Seq(Seq(Nat))
          PROVE  QueryItemIs!Step(M[z], b[n], M[Append(z, q[n])])
      <4>1. Append(z, q[n]) \in Seq(Seq(Nat))
        BY <1>1, ElementOfSeq, AppendProperties
      <4>2. QueryItemCase(M[z], [no |-> 2, value |-> q[n]]) = {M[Append(z, q[n])]}
        <5>1. QueryItemCase(QueryItemIn(p, z), [no |-> 2, value |-> q[n]])
                = {QueryItemIn(p, Append(z, q[n]))}
          BY QueryItemMore2, SMT
        <5> QED
          BY <3>2, <4>1, <5>1
      <4> QED
        BY <3>1, <4>2, Zenon DEF QueryItemIs!Step
    <3>4. QueryItemIs!Takes(M[<<>>], b, M[q])
      BY <1>1, <3>1, <3>3, QueryItemIs!TakesRepeated, Zenon
    <3>5. M[<<>>] = QueryItemIn(p, <<>>) /\ M[q] = QueryItemIn(p, q)
      BY <1>1, <3>2, EmptySeq
    <3> QED
      BY <3>4, <3>5
  <2> HIDE DEF a, b
  <2>4. QueryItemIs!Takes(QueryItemIn(<<>>, <<>>), a \o b, QueryItemIn(p, q))
    BY <1>4, <1>5, <2>2, <2>3, QueryItemIs!TakesOn
  <2> QED
    BY <1>1, <1>3, <2>4, QueryItemCases
<1> QED
  BY <1>5, <1>6, QueryItemWhole

LEMMA QueryItemContents ==
  ASSUME NEW messages \in Seq(QueryItemType)
  PROVE  LET contents == [n \in 1 .. Len(messages) |-> FlattenSeq(EncodeQueryItem(messages[n]))]
         IN  contents \in Seq(Seq(Nat)) /\ Len(contents) = Len(messages)
<1>1. \A n \in 1 .. Len(messages) : FlattenSeq(EncodeQueryItem(messages[n])) \in Seq(Nat)
  <2>1. \A n \in 1 .. Len(messages) : messages[n] \in QueryItemType
    BY ElementOfSeq
  <2> QED
    BY <2>1, QueryItemBack, FlatType
<1>2. Len(messages) \in Nat
  BY LenProperties
<1> DEFINE contents == [n \in 1 .. Len(messages) |-> FlattenSeq(EncodeQueryItem(messages[n]))]
<1>3. contents \in [1 .. Len(messages) -> Seq(Nat)]
  BY <1>1
<1> HIDE DEF contents
<1>4. contents \in Seq(Seq(Nat)) /\ Len(contents) = Len(messages)
  BY <1>2, <1>3
<1> QED
  BY <1>4 DEF contents

QueryReads(p, f) == Piece({1}, {2}, p, f)
QueryIs == INSTANCE DecoderProofs WITH Fresh <- NoQuery, Case <- QueryCase, Reads <- QueryReads

LEMMA QueryField ==
  ASSUME NEW m, NEW to, NEW pieces, NEW no, NEW v,
         (pieces = <<>> /\ to = m) \/ IsField({1}, {2}, pieces, no, v),
         QueryCase(m, [no |-> no, value |-> v]) = {to}
  PROVE  QueryIs!Takes(m, pieces, to)
<1>1. ASSUME IsField({1}, {2}, pieces, no, v)
      PROVE  \E piece : pieces = <<piece>> /\ QueryIs!Step(m, piece, to)
  BY <1>1, Zenon DEF QueryIs!Step, QueryReads, IsField
<1> QED
  BY <1>1, QueryIs!TakesIf, Zenon

LEMMA QueryNone ==
  \A m : QueryIs!Takes(m, <<>>, m)
  BY QueryIs!TakesIf, Zenon

LEMMA QueryWhole ==
  ASSUME NEW pieces \in Seq(Seq(Nat)), NEW m, QueryIs!Takes(NoQuery, pieces, m)
  PROVE  DecodeQuery(FlattenSeq(pieces)) = {m}
<1>1. PICK via : QueryIs!Leads(NoQuery, pieces, m, via)
  BY Zenon DEF QueryIs!Takes
<1>2. PICK S : \E fields \in Seq(S) : QueryIs!AreRead(pieces, fields, m, via)
  BY <1>1, LeastNumber, QueryIs!LoopTakes, Zenon
<1>3. PICK fields \in Seq(S) : QueryIs!AreRead(pieces, fields, m, via)
  BY <1>2
<1>4. ReadFields(FlattenSeq(pieces), {1}, {2}) = {fields}
  <2>1. /\ Len(fields) = Len(pieces)
        /\ \A n \in 1 .. Len(pieces) : Piece({1}, {2}, pieces[n], fields[n])
    BY <1>3, Zenon DEF QueryIs!AreRead, QueryReads
  <2> QED
    BY <2>1, ReadWhole
<1>5. QueryLoop!Merged(fields) = {m}
  BY <1>3, Zenon DEF QueryIs!AreRead, QueryIs!Merged, QueryLoop!Merged
<1>6. UNION {QueryLoop!Merged(f) : f \in {fields}} = QueryLoop!Merged(fields)
  OBVIOUS
<1> QED
  BY <1>4, <1>5, <1>6, Zenon DEF DecodeQuery

QueryOf(p, q) == [all |-> p, items |-> q]

LEMMA QueryCases ==
  NoQuery = QueryOf(FALSE, <<>>)
  BY DEF QueryCase, QueryOf, NoQuery

LEMMA QueryFlag1 ==
  ASSUME NEW p, NEW q
  PROVE  QueryCase(QueryOf(p, q), [no |-> 1, value |-> <<1>>]) = {QueryOf(TRUE, q)}
<1> DEFINE f == [no |-> 1, value |-> <<1>>]
           m == QueryOf(p, q)
<1>1. f.no = 1 /\ (f.value # <<>>) = TRUE
  <2>1. f.value = <<1>> /\ <<1>> # <<>> /\ f.no = 1
    OBVIOUS
  <2> HIDE DEF f
  <2> QED
    BY <2>1, Zenon
<1> HIDE DEF f, m
<1>2. QueryCase(m, f) = {[m EXCEPT !.all = (f.value # <<>>)]}
  BY <1>1, SMT DEF QueryCase
<1>3. QueryCase(m, f) = {[m EXCEPT !.all = TRUE]}
  BY <1>1, <1>2, Zenon
<1>4. \A t : [m EXCEPT !.all = t] = QueryOf(t, q)
  BY DEF QueryOf, m
<1>5. [m EXCEPT !.all = TRUE] = QueryOf(TRUE, q)
  BY <1>4, Zenon
<1> QED
  BY <1>3, <1>5, Zenon DEF f, m

LEMMA QueryMore2 ==
  \A p, q, v, y :
    DecodeQueryItem(v) = {y}
        => QueryCase(QueryOf(p, q), [no |-> 2, value |-> v]) = {QueryOf(p, Append(q, y))}
  BY DEF QueryCase, QueryOf

\* A query arrives as it was sent.
LEMMA QueryBack ==
  ASSUME NEW message \in QueryType
  PROVE  /\ EncodeQuery(message) \in Seq(Seq(Nat))
         /\ Small(EncodeQuery(message)) => DecodeQuery(FlattenSeq(EncodeQuery(message))) = {message}
<1>1. PICK p, q : /\ p \in BOOLEAN /\ q \in Seq(QueryItemType)
                  /\ message = QueryOf(p, q)
  <2>1. message.all \in BOOLEAN /\ message.items \in Seq(QueryItemType)
    BY DEF QueryType
  <2>2. message = QueryOf(message.all, message.items)
    BY DEF QueryType, QueryOf
  <2> QED
    BY <2>1, <2>2, Zenon
<1>2. 1 \in FieldNumbers /\ 2 \in FieldNumbers
  BY DEF FieldNumbers
<1> DEFINE a == Bool(1, p)
           b == FlattenSeq([n \in 1 .. Len(q) |-> Message(2, EncodeQueryItem(q[n]))])
<1>3. EncodeQuery(message) = a \o b
  <2>1. QueryOf(p, q).all = p /\ QueryOf(p, q).items = q
    BY DEF QueryOf
  <2>2. DOMAIN q = 1 .. Len(q)
    BY <1>1
  <2> QED
    BY <1>1, <2>1, <2>2, Zenon DEF EncodeQuery, Each
<1>4. a \in Seq(Seq(Nat)) /\ b \in Seq(Seq(Nat))
  <2>1. a \in Seq(Seq(Nat))
    BY <1>1, <1>2, BoolField
  <2>2. b \in Seq(Seq(Nat))
    <3> DEFINE contents == [n \in 1 .. Len(q) |-> FlattenSeq(EncodeQueryItem(q[n]))]
    <3>1. contents \in Seq(Seq(Nat)) /\ Len(contents) = Len(q)
      BY <1>1, QueryItemContents
    <3>2. b = FlattenSeq([n \in 1 .. Len(q) |-> Delimited(2, contents[n])])
      BY Zenon DEF Message
    <3> HIDE DEF contents, b
    <3> QED
      BY <1>2, <3>1, <3>2, EachField
  <2> QED
    BY <2>1, <2>2
<1>5. EncodeQuery(message) \in Seq(Seq(Nat))
  <2> HIDE DEF a, b
  <2> QED
    BY <1>3, <1>4, LenOn
<1>6. ASSUME Small(EncodeQuery(message)) PROVE QueryIs!Takes(NoQuery, EncodeQuery(message), message)
  <2>1. Small(a) /\ Small(b)
    <3> HIDE DEF a, b
    <3> QED
      BY <1>3, <1>4, <1>5, <1>6, LenOn
  <2>2. QueryIs!Takes(QueryOf(FALSE, <<>>), a, QueryOf(p, <<>>))
    <3>1. (a = <<>> /\ p = FALSE) \/ (p = TRUE /\ IsField({1}, {2}, a, 1, <<1>>))
      BY <1>1, <1>2, <2>1, Written1
    <3> HIDE DEF a
    <3>2. (a = <<>> /\ QueryOf(p, <<>>) = QueryOf(FALSE, <<>>))
          \/ (p = TRUE /\ IsField({1}, {2}, a, 1, <<1>>))
      BY <3>1
    <3>3. p = TRUE => QueryCase(QueryOf(FALSE, <<>>), [no |-> 1, value |-> <<1>>])
          = {QueryOf(p, <<>>)}
      BY QueryFlag1, Zenon
    <3> QED
      BY <3>2, <3>3, QueryField, QueryNone
  <2>3. QueryIs!Takes(QueryOf(p, <<>>), b, QueryOf(p, q))
    <3> DEFINE M == [z \in Seq(QueryItemType) |-> QueryOf(p, z)]
    <3> DEFINE contents == [n \in 1 .. Len(q) |-> FlattenSeq(EncodeQueryItem(q[n]))]
    <3>8. contents \in Seq(Seq(Nat)) /\ Len(contents) = Len(q)
      BY <1>1, QueryItemContents
    <3>9. b = FlattenSeq([n \in 1 .. Len(contents) |-> Delimited(2, contents[n])])
      BY <3>8, Zenon DEF Message
    <3>10. \A n \in 1 .. Len(q) : contents[n] = FlattenSeq(EncodeQueryItem(q[n]))
      OBVIOUS
    <3> HIDE DEF contents
    <3>1. /\ Len(b) = Len(q)
          /\ \A n \in 1 .. Len(q) : QueryReads(b[n], [no |-> 2, value |-> contents[n]])
      <4> HIDE DEF b
      <4>1. \A n \in 1 .. Len(contents) : Len(contents[n]) < AboveAnyLength
        BY <1>2, <2>1, <3>8, <3>9, EachField, ZenonT(40)
      <4>2. 2 \in {2} \ {1}
        OBVIOUS
      <4>3. /\ Len(b) = Len(contents)
            /\ \A n \in 1 .. Len(contents) :
                 Piece({1}, {2}, b[n], [no |-> 2, value |-> contents[n]])
        BY <1>2, <3>8, <3>9, <4>1, <4>2, EachField, ZenonT(40)
      <4> QED
        BY <3>8, <4>3, Zenon DEF QueryReads
    <3>11. \A n \in 1 .. Len(q) : DecodeQueryItem(contents[n]) = {q[n]}
      <4>1. \A n \in 1 .. Len(q) : Len(contents[n]) < AboveAnyLength
        <5> HIDE DEF b
        <5> QED
          BY <1>2, <2>1, <3>8, <3>9, EachField, ZenonT(40)
      <4>2. \A n \in 1 .. Len(q) : q[n] \in QueryItemType
        BY <1>1, ElementOfSeq
      <4> QED
        BY <3>10, <4>1, <4>2, QueryItemBack, Zenon DEF Small
    <3>2. \A z \in Seq(QueryItemType) : M[z] = QueryOf(p, z)
      BY Zenon
    <3> HIDE DEF b, M
    <3>3. ASSUME NEW n \in 1 .. Len(q), NEW z \in Seq(QueryItemType)
          PROVE  QueryIs!Step(M[z], b[n], M[Append(z, q[n])])
      <4>1. Append(z, q[n]) \in Seq(QueryItemType)
        BY <1>1, ElementOfSeq, AppendProperties
      <4>2. QueryCase(M[z], [no |-> 2, value |-> contents[n]]) = {M[Append(z, q[n])]}
        <5>1. QueryCase(QueryOf(p, z), [no |-> 2, value |-> contents[n]])
                = {QueryOf(p, Append(z, q[n]))}
          <6>1. DecodeQueryItem(contents[n]) = {q[n]}
            BY <3>11
          <6> QED
            BY <6>1, QueryMore2, SMT
        <5> QED
          BY <3>2, <4>1, <5>1
      <4> QED
        BY <3>1, <4>2, Zenon DEF QueryIs!Step
    <3>4. QueryIs!Takes(M[<<>>], b, M[q])
      BY <1>1, <3>1, <3>3, QueryIs!TakesRepeated, Zenon
    <3>5. M[<<>>] = QueryOf(p, <<>>) /\ M[q] = QueryOf(p, q)
      BY <1>1, <3>2, EmptySeq
    <3> QED
      BY <3>4, <3>5
  <2> HIDE DEF a, b
  <2>4. QueryIs!Takes(QueryOf(FALSE, <<>>), a \o b, QueryOf(p, q))
    BY <1>4, <1>5, <2>2, <2>3, QueryIs!TakesOn
  <2> QED
    BY <1>1, <1>3, <2>4, QueryCases
<1> QED
  BY <1>5, <1>6, QueryWhole

LEMMA EventContents ==
  ASSUME NEW messages \in Seq(EventType)
  PROVE  LET contents == [n \in 1 .. Len(messages) |-> FlattenSeq(EncodeEvent(messages[n]))]
         IN  contents \in Seq(Seq(Nat)) /\ Len(contents) = Len(messages)
<1>1. \A n \in 1 .. Len(messages) : FlattenSeq(EncodeEvent(messages[n])) \in Seq(Nat)
  <2>1. \A n \in 1 .. Len(messages) : messages[n] \in EventType
    BY ElementOfSeq
  <2> QED
    BY <2>1, EventBack, FlatType
<1>2. Len(messages) \in Nat
  BY LenProperties
<1> DEFINE contents == [n \in 1 .. Len(messages) |-> FlattenSeq(EncodeEvent(messages[n]))]
<1>3. contents \in [1 .. Len(messages) -> Seq(Nat)]
  BY <1>1
<1> HIDE DEF contents
<1>4. contents \in Seq(Seq(Nat)) /\ Len(contents) = Len(messages)
  BY <1>2, <1>3
<1> QED
  BY <1>4 DEF contents

\* A flag before it is read.
Off == FALSE

ConditionReads(p, f) == Piece({2}, {1, 3}, p, f)
ConditionIs == INSTANCE DecoderProofs
    WITH Fresh <- FreshCondition, Case <- ConditionCase, Reads <- ConditionReads

LEMMA ConditionField ==
  ASSUME NEW m, NEW to, NEW pieces, NEW no, NEW v,
         (pieces = <<>> /\ to = m) \/ IsField({2}, {1, 3}, pieces, no, v),
         ConditionCase(m, [no |-> no, value |-> v]) = {to}
  PROVE  ConditionIs!Takes(m, pieces, to)
<1>1. ASSUME IsField({2}, {1, 3}, pieces, no, v)
      PROVE  \E piece : pieces = <<piece>> /\ ConditionIs!Step(m, piece, to)
  BY <1>1, Zenon DEF ConditionIs!Step, ConditionReads, IsField
<1> QED
  BY <1>1, ConditionIs!TakesIf, Zenon

LEMMA ConditionNone ==
  \A m : ConditionIs!Takes(m, <<>>, m)
  BY ConditionIs!TakesIf, Zenon

LEMMA ConditionWhole ==
  ASSUME NEW pieces \in Seq(Seq(Nat)), NEW m, ConditionIs!Takes(FreshCondition, pieces, m)
  PROVE  DecodeCondition(FlattenSeq(pieces)) = {m}
<1>1. PICK via : ConditionIs!Leads(FreshCondition, pieces, m, via)
  BY Zenon DEF ConditionIs!Takes
<1>2. PICK S : \E fields \in Seq(S) : ConditionIs!AreRead(pieces, fields, m, via)
  BY <1>1, LeastNumber, ConditionIs!LoopTakes, Zenon
<1>3. PICK fields \in Seq(S) : ConditionIs!AreRead(pieces, fields, m, via)
  BY <1>2
<1>4. ReadFields(FlattenSeq(pieces), {2}, {1, 3}) = {fields}
  <2>1. /\ Len(fields) = Len(pieces)
        /\ \A n \in 1 .. Len(pieces) : Piece({2}, {1, 3}, pieces[n], fields[n])
    BY <1>3, Zenon DEF ConditionIs!AreRead, ConditionReads
  <2> QED
    BY <2>1, ReadWhole
<1>5. ConditionLoop!Merged(fields) = {m}
  BY <1>3, Zenon DEF ConditionIs!AreRead, ConditionIs!Merged, ConditionLoop!Merged
<1>6. UNION {ConditionLoop!Merged(f) : f \in {fields}} = ConditionLoop!Merged(fields)
  OBVIOUS
<1> QED
  BY <1>4, <1>5, <1>6, Zenon DEF DecodeCondition

ConditionOf(p, q, r) == [failIfEventsMatch |-> p, after |-> q, failIfExists |-> r]

LEMMA ConditionCases ==
  FreshCondition = ConditionOf(NoQuery, <<>>, {})
  BY DEF ConditionOf, FreshCondition

LEMMA ConditionSet1 ==
  ASSUME NEW p, NEW q, NEW r, NEW v, NEW y, DecodeQuery(v) = {y}
  PROVE  ConditionCase(ConditionOf(p, q, r), [no |-> 1, value |-> v]) = {ConditionOf(y, q, r)}
  BY DEF ConditionCase, ConditionOf

LEMMA ConditionSet2 ==
  ASSUME NEW p, NEW q, NEW r, NEW v
  PROVE  ConditionCase(ConditionOf(p, q, r), [no |-> 2, value |-> v]) = {ConditionOf(p, v, r)}
  BY DEF ConditionCase, ConditionOf

LEMMA ConditionSet3 ==
  ASSUME NEW p, NEW q, NEW r, NEW v, NEW y, DecodeQuery(v) = {y}
  PROVE  ConditionCase(ConditionOf(p, q, r), [no |-> 3, value |-> v]) = {ConditionOf(p, q, {y})}
  BY DEF ConditionCase, ConditionOf

\* An append condition arrives as it was sent.
LEMMA ConditionBack ==
  ASSUME NEW message \in ConditionType
  PROVE  /\ EncodeCondition(message) \in Seq(Seq(Nat))
         /\ Small(EncodeCondition(message))
                => DecodeCondition(FlattenSeq(EncodeCondition(message))) = {message}
<1>1. PICK p, q, r : /\ p \in QueryType /\ q \in U64 /\ r \in AtMostOne(QueryType)
                     /\ message = ConditionOf(p, q, r)
  <2>1. message.failIfEventsMatch \in QueryType /\ message.after \in U64
        /\ message.failIfExists \in AtMostOne(QueryType)
    BY DEF ConditionType
  <2>2. message = ConditionOf(message.failIfEventsMatch, message.after, message.failIfExists)
    BY DEF ConditionType, ConditionOf
  <2> QED
    BY <2>1, <2>2, Zenon
<1>2. 1 \in FieldNumbers /\ 2 \in FieldNumbers /\ 3 \in FieldNumbers
  BY DEF FieldNumbers
<1> DEFINE a == Message(1, EncodeQuery(p))
           b == UInt64(2, q)
           c == Present(LAMBDA x : Message(3, EncodeQuery(x)), r)
<1>3. EncodeCondition(message) = (a \o b) \o c
  <2>1. ConditionOf(p, q, r).failIfEventsMatch = p /\ ConditionOf(p, q, r).after = q
        /\ ConditionOf(p, q, r).failIfExists = r
    BY DEF ConditionOf
  <2> QED
    BY <1>1, <2>1, Zenon DEF EncodeCondition
<1>4. a \in Seq(Seq(Nat)) /\ b \in Seq(Seq(Nat)) /\ c \in Seq(Seq(Nat))
  <2>1. a \in Seq(Seq(Nat))
    BY <1>1, <1>2, QueryBack, MessageField
  <2>2. b \in Seq(Seq(Nat))
    BY <1>1, <1>2, UInt64Field
  <2>3. c \in Seq(Seq(Nat))
    <3>1. CASE r = {}
      BY <3>1, EmptySeq DEF Present
    <3>2. ASSUME NEW x \in QueryType, r = {x} PROVE c \in Seq(Seq(Nat))
      <4>1. c = Message(3, EncodeQuery(x))
        BY <3>2, OnlyOne DEF Present
      <4> QED
        BY <1>2, <4>1, QueryBack, MessageField
    <3> QED
      BY <1>1, <3>1, <3>2 DEF AtMostOne
  <2> QED
    BY <2>1, <2>2, <2>3
<1>5. EncodeCondition(message) \in Seq(Seq(Nat)) /\ a \o b \in Seq(Seq(Nat))
  <2> HIDE DEF a, b, c
  <2>1. a \o b \in Seq(Seq(Nat))
    BY <1>4, LenOn
  <2> QED
    BY <1>3, <1>4, <2>1, LenOn
<1>6. ASSUME Small(EncodeCondition(message))
      PROVE ConditionIs!Takes(FreshCondition, EncodeCondition(message), message)
  <2>1. Small(a) /\ Small(b) /\ Small(c)
    <3> HIDE DEF a, b, c
    <3> QED
      BY <1>3, <1>4, <1>5, <1>6, LenOn
  <2>2. ConditionIs!Takes(ConditionOf(NoQuery, <<>>, {}), a, ConditionOf(p, <<>>, {}))
    <3> DEFINE sub == EncodeQuery(p)
    <3>1. sub \in Seq(Seq(Nat)) /\ (Small(sub) => DecodeQuery(FlattenSeq(sub)) = {p})
      BY <1>1, QueryBack
    <3> HIDE DEF sub
    <3>2. Small(sub) /\ IsField({2}, {1, 3}, a, 1, FlattenSeq(sub))
      BY <1>2, <2>1, <3>1, MessageField, SMTT(40) DEF sub
    <3>3. ConditionCase(ConditionOf(NoQuery, <<>>, {}), [no |-> 1, value |-> FlattenSeq(sub)])
          = {ConditionOf(p, <<>>, {})}
      <4>1. DecodeQuery(FlattenSeq(sub)) = {p}
        BY <3>1, <3>2
      <4> QED
        BY <4>1, ConditionSet1
    <3> HIDE DEF a
    <3> QED
      BY <3>2, <3>3, ConditionField
  <2>3. ConditionIs!Takes(ConditionOf(p, <<>>, {}), b, ConditionOf(p, q, {}))
    <3>1. (b = <<>> /\ q = <<>>) \/ IsField({2}, {1, 3}, b, 2, q)
      BY <1>1, <1>2, <2>1, Written1
    <3> HIDE DEF b
    <3>2. (b = <<>> /\ ConditionOf(p, q, {}) = ConditionOf(p, <<>>, {}))
          \/ IsField({2}, {1, 3}, b, 2, q)
      BY <3>1
    <3>3. ConditionCase(ConditionOf(p, <<>>, {}), [no |-> 2, value |-> q]) = {ConditionOf(p, q, {})}
      BY ConditionSet2
    <3> QED
      BY <3>2, <3>3, ConditionField
  <2>4. ConditionIs!Takes(ConditionOf(p, q, {}), c, ConditionOf(p, q, r))
    <3>1. CASE r = {}
      <4>1. c = <<>> /\ ConditionOf(p, q, r) = ConditionOf(p, q, {})
        BY <3>1 DEF Present
      <4> QED
        BY <4>1, ConditionNone
    <3>2. ASSUME NEW x \in QueryType, r = {x}
          PROVE ConditionIs!Takes(ConditionOf(p, q, {}), c, ConditionOf(p, q, r))
      <4> DEFINE sub == EncodeQuery(x)
      <4>1. c = Message(3, sub)
        BY <3>2, OnlyOne DEF Present
      <4>2. sub \in Seq(Seq(Nat)) /\ (Small(sub) => DecodeQuery(FlattenSeq(sub)) = {x})
        BY QueryBack
      <4> HIDE DEF sub, c
      <4>3. Small(sub) /\ IsField({2}, {1, 3}, c, 3, FlattenSeq(sub))
        BY <1>2, <2>1, <4>1, <4>2, MessageField, SMTT(30)
      <4>4. ConditionCase(ConditionOf(p, q, {}), [no |-> 3, value |-> FlattenSeq(sub)])
            = {ConditionOf(p, q, {x})}
        <5>1. DecodeQuery(FlattenSeq(sub)) = {x}
          BY <4>2, <4>3
        <5> QED
          BY <5>1, ConditionSet3
      <4> QED
        BY <3>2, <4>3, <4>4, ConditionField
    <3> HIDE DEF c
    <3> QED
      BY <1>1, <3>1, <3>2 DEF AtMostOne
  <2> HIDE DEF a, b, c
  <2>5. ConditionIs!Takes(ConditionOf(NoQuery, <<>>, {}), a \o b, ConditionOf(p, q, {}))
    BY <1>4, <1>5, <2>2, <2>3, ConditionIs!TakesOn
  <2>6. ConditionIs!Takes(ConditionOf(NoQuery, <<>>, {}), (a \o b) \o c, ConditionOf(p, q, r))
    BY <1>4, <1>5, <2>5, <2>4, ConditionIs!TakesOn
  <2> QED
    BY <1>1, <1>3, <2>6, ConditionCases
<1> QED
  BY <1>5, <1>6, ConditionWhole

-----------------------------------------------------------------------------
(* The contents of requests arrive as they were sent.                      *)

AppendRequestReads(p, f) == Piece({}, {1, 2}, p, f)
AppendRequestIs == INSTANCE DecoderProofs
    WITH Fresh <- FreshAppendRequest, Case <- AppendRequestCase, Reads <- AppendRequestReads

LEMMA AppendRequestField ==
  ASSUME NEW m, NEW to, NEW pieces, NEW no, NEW v,
         (pieces = <<>> /\ to = m) \/ IsField({}, {1, 2}, pieces, no, v),
         AppendRequestCase(m, [no |-> no, value |-> v]) = {to}
  PROVE  AppendRequestIs!Takes(m, pieces, to)
<1>1. ASSUME IsField({}, {1, 2}, pieces, no, v)
      PROVE  \E piece : pieces = <<piece>> /\ AppendRequestIs!Step(m, piece, to)
  BY <1>1, Zenon DEF AppendRequestIs!Step, AppendRequestReads, IsField
<1> QED
  BY <1>1, AppendRequestIs!TakesIf, Zenon

LEMMA AppendRequestNone ==
  \A m : AppendRequestIs!Takes(m, <<>>, m)
  BY AppendRequestIs!TakesIf, Zenon

LEMMA AppendRequestWhole ==
  ASSUME NEW pieces \in Seq(Seq(Nat)), NEW m, AppendRequestIs!Takes(FreshAppendRequest, pieces, m)
  PROVE  DecodeAppendRequest(FlattenSeq(pieces)) = {m}
<1>1. PICK via : AppendRequestIs!Leads(FreshAppendRequest, pieces, m, via)
  BY Zenon DEF AppendRequestIs!Takes
<1>2. PICK S : \E fields \in Seq(S) : AppendRequestIs!AreRead(pieces, fields, m, via)
  BY <1>1, LeastNumber, AppendRequestIs!LoopTakes, Zenon
<1>3. PICK fields \in Seq(S) : AppendRequestIs!AreRead(pieces, fields, m, via)
  BY <1>2
<1>4. ReadFields(FlattenSeq(pieces), {}, {1, 2}) = {fields}
  <2>1. /\ Len(fields) = Len(pieces)
        /\ \A n \in 1 .. Len(pieces) : Piece({}, {1, 2}, pieces[n], fields[n])
    BY <1>3, Zenon DEF AppendRequestIs!AreRead, AppendRequestReads
  <2> QED
    BY <2>1, ReadWhole
<1>5. AppendRequestLoop!Merged(fields) = {m}
  BY <1>3, Zenon DEF AppendRequestIs!AreRead, AppendRequestIs!Merged, AppendRequestLoop!Merged
<1>6. UNION {AppendRequestLoop!Merged(f) : f \in {fields}} = AppendRequestLoop!Merged(fields)
  OBVIOUS
<1> QED
  BY <1>4, <1>5, <1>6, Zenon DEF DecodeAppendRequest

AppendRequestOf(p, q) == [events |-> p, condition |-> q]

LEMMA AppendRequestCases ==
  FreshAppendRequest = AppendRequestOf(<<>>, {})
  BY DEF AppendRequestOf, FreshAppendRequest

LEMMA AppendRequestSet2 ==
  ASSUME NEW p, NEW q, NEW v, NEW y, DecodeCondition(v) = {y}
  PROVE  AppendRequestCase(AppendRequestOf(p, q), [no |-> 2, value |-> v])
      = {AppendRequestOf(p, {y})}
  BY DEF AppendRequestCase, AppendRequestOf

LEMMA AppendRequestMore1 ==
  \A p, q, v, y :
    DecodeEvent(v) = {y}
        => AppendRequestCase(AppendRequestOf(p, q), [no |-> 1, value |-> v])
            = {AppendRequestOf(Append(p, y), q)}
  BY DEF AppendRequestCase, AppendRequestOf

\* An append arrives as it was sent.
LEMMA AppendRequestBack ==
  ASSUME NEW message \in AppendRequestType
  PROVE  /\ EncodeAppendRequest(message) \in Seq(Seq(Nat))
         /\ Small(EncodeAppendRequest(message))
                => DecodeAppendRequest(FlattenSeq(EncodeAppendRequest(message))) = {message}
<1>1. PICK p, q : /\ p \in Seq(EventType) /\ q \in AtMostOne(ConditionType)
                  /\ message = AppendRequestOf(p, q)
  <2>1. message.events \in Seq(EventType) /\ message.condition \in AtMostOne(ConditionType)
    BY DEF AppendRequestType
  <2>2. message = AppendRequestOf(message.events, message.condition)
    BY DEF AppendRequestType, AppendRequestOf
  <2> QED
    BY <2>1, <2>2, Zenon
<1>2. 1 \in FieldNumbers /\ 2 \in FieldNumbers
  BY DEF FieldNumbers
<1> DEFINE a == FlattenSeq([n \in 1 .. Len(p) |-> Message(1, EncodeEvent(p[n]))])
           b == Present(LAMBDA x : Message(2, EncodeCondition(x)), q)
<1>3. EncodeAppendRequest(message) = a \o b
  <2>1. AppendRequestOf(p, q).events = p /\ AppendRequestOf(p, q).condition = q
    BY DEF AppendRequestOf
  <2>2. DOMAIN p = 1 .. Len(p)
    BY <1>1
  <2> QED
    BY <1>1, <2>1, <2>2, Zenon DEF EncodeAppendRequest, Each
<1>4. a \in Seq(Seq(Nat)) /\ b \in Seq(Seq(Nat))
  <2>1. a \in Seq(Seq(Nat))
    <3> DEFINE contents == [n \in 1 .. Len(p) |-> FlattenSeq(EncodeEvent(p[n]))]
    <3>1. contents \in Seq(Seq(Nat)) /\ Len(contents) = Len(p)
      BY <1>1, EventContents
    <3>2. a = FlattenSeq([n \in 1 .. Len(p) |-> Delimited(1, contents[n])])
      BY Zenon DEF Message
    <3> HIDE DEF contents, a
    <3> QED
      BY <1>2, <3>1, <3>2, EachField
  <2>2. b \in Seq(Seq(Nat))
    <3>1. CASE q = {}
      BY <3>1, EmptySeq DEF Present
    <3>2. ASSUME NEW x \in ConditionType, q = {x} PROVE b \in Seq(Seq(Nat))
      <4>1. b = Message(2, EncodeCondition(x))
        BY <3>2, OnlyOne DEF Present
      <4> QED
        BY <1>2, <4>1, ConditionBack, MessageField
    <3> QED
      BY <1>1, <3>1, <3>2 DEF AtMostOne
  <2> QED
    BY <2>1, <2>2
<1>5. EncodeAppendRequest(message) \in Seq(Seq(Nat))
  <2> HIDE DEF a, b
  <2> QED
    BY <1>3, <1>4, LenOn
<1>6. ASSUME Small(EncodeAppendRequest(message))
      PROVE AppendRequestIs!Takes(FreshAppendRequest, EncodeAppendRequest(message), message)
  <2>1. Small(a) /\ Small(b)
    <3> HIDE DEF a, b
    <3> QED
      BY <1>3, <1>4, <1>5, <1>6, LenOn
  <2>2. AppendRequestIs!Takes(AppendRequestOf(<<>>, {}), a, AppendRequestOf(p, {}))
    <3> DEFINE M == [z \in Seq(EventType) |-> AppendRequestOf(z, {})]
    <3> DEFINE contents == [n \in 1 .. Len(p) |-> FlattenSeq(EncodeEvent(p[n]))]
    <3>8. contents \in Seq(Seq(Nat)) /\ Len(contents) = Len(p)
      BY <1>1, EventContents
    <3>9. a = FlattenSeq([n \in 1 .. Len(contents) |-> Delimited(1, contents[n])])
      BY <3>8, Zenon DEF Message
    <3>10. \A n \in 1 .. Len(p) : contents[n] = FlattenSeq(EncodeEvent(p[n]))
      OBVIOUS
    <3> HIDE DEF contents
    <3>1. /\ Len(a) = Len(p)
          /\ \A n \in 1 .. Len(p) : AppendRequestReads(a[n], [no |-> 1, value |-> contents[n]])
      <4> HIDE DEF a
      <4>1. \A n \in 1 .. Len(contents) : Len(contents[n]) < AboveAnyLength
        BY <1>2, <2>1, <3>8, <3>9, EachField, ZenonT(40)
      <4>2. 1 \in {1, 2} \ {}
        OBVIOUS
      <4>3. /\ Len(a) = Len(contents)
            /\ \A n \in 1 .. Len(contents) :
                 Piece({}, {1, 2}, a[n], [no |-> 1, value |-> contents[n]])
        BY <1>2, <3>8, <3>9, <4>1, <4>2, EachField, ZenonT(40)
      <4> QED
        BY <3>8, <4>3, Zenon DEF AppendRequestReads
    <3>11. \A n \in 1 .. Len(p) : DecodeEvent(contents[n]) = {p[n]}
      <4>1. \A n \in 1 .. Len(p) : Len(contents[n]) < AboveAnyLength
        <5> HIDE DEF a
        <5> QED
          BY <1>2, <2>1, <3>8, <3>9, EachField, ZenonT(40)
      <4>2. \A n \in 1 .. Len(p) : p[n] \in EventType
        BY <1>1, ElementOfSeq
      <4> QED
        BY <3>10, <4>1, <4>2, EventBack, Zenon DEF Small
    <3>2. \A z \in Seq(EventType) : M[z] = AppendRequestOf(z, {})
      BY Zenon
    <3> HIDE DEF a, M
    <3>3. ASSUME NEW n \in 1 .. Len(p), NEW z \in Seq(EventType)
          PROVE  AppendRequestIs!Step(M[z], a[n], M[Append(z, p[n])])
      <4>1. Append(z, p[n]) \in Seq(EventType)
        BY <1>1, ElementOfSeq, AppendProperties
      <4>2. AppendRequestCase(M[z], [no |-> 1, value |-> contents[n]]) = {M[Append(z, p[n])]}
        <5>1. AppendRequestCase(AppendRequestOf(z, {}), [no |-> 1, value |-> contents[n]])
                = {AppendRequestOf(Append(z, p[n]), {})}
          <6>1. DecodeEvent(contents[n]) = {p[n]}
            BY <3>11
          <6> QED
            BY <6>1, AppendRequestMore1, SMT
        <5> QED
          BY <3>2, <4>1, <5>1
      <4> QED
        BY <3>1, <4>2, Zenon DEF AppendRequestIs!Step
    <3>4. AppendRequestIs!Takes(M[<<>>], a, M[p])
      BY <1>1, <3>1, <3>3, AppendRequestIs!TakesRepeated, Zenon
    <3>5. M[<<>>] = AppendRequestOf(<<>>, {}) /\ M[p] = AppendRequestOf(p, {})
      BY <1>1, <3>2, EmptySeq
    <3> QED
      BY <3>4, <3>5
  <2>3. AppendRequestIs!Takes(AppendRequestOf(p, {}), b, AppendRequestOf(p, q))
    <3>1. CASE q = {}
      <4>1. b = <<>> /\ AppendRequestOf(p, q) = AppendRequestOf(p, {})
        BY <3>1 DEF Present
      <4> QED
        BY <4>1, AppendRequestNone
    <3>2. ASSUME NEW x \in ConditionType, q = {x}
          PROVE AppendRequestIs!Takes(AppendRequestOf(p, {}), b, AppendRequestOf(p, q))
      <4> DEFINE sub == EncodeCondition(x)
      <4>1. b = Message(2, sub)
        BY <3>2, OnlyOne DEF Present
      <4>2. sub \in Seq(Seq(Nat)) /\ (Small(sub) => DecodeCondition(FlattenSeq(sub)) = {x})
        BY ConditionBack
      <4> HIDE DEF sub, b
      <4>3. Small(sub) /\ IsField({}, {1, 2}, b, 2, FlattenSeq(sub))
        <5>1. Small(sub)
          BY <1>2, <2>1, <4>1, <4>2, MessageField
        <5>2. \A varints, lens : 2 \in lens \ varints =>
                IsField(varints, lens, b, 2, FlattenSeq(sub))
          BY <1>2, <4>1, <4>2, <5>1, MessageField
        <5>3. 2 \in {1, 2} \ {}
          OBVIOUS
        <5> QED
          BY <5>1, <5>2, <5>3, Zenon
      <4>4. AppendRequestCase(AppendRequestOf(p, {}), [no |-> 2, value |-> FlattenSeq(sub)])
            = {AppendRequestOf(p, {x})}
        <5>1. DecodeCondition(FlattenSeq(sub)) = {x}
          BY <4>2, <4>3
        <5> QED
          BY <5>1, AppendRequestSet2
      <4> QED
        BY <3>2, <4>3, <4>4, AppendRequestField
    <3> HIDE DEF b
    <3> QED
      BY <1>1, <3>1, <3>2 DEF AtMostOne
  <2> HIDE DEF a, b
  <2>4. AppendRequestIs!Takes(AppendRequestOf(<<>>, {}), a \o b, AppendRequestOf(p, q))
    BY <1>4, <1>5, <2>2, <2>3, AppendRequestIs!TakesOn
  <2> QED
    BY <1>1, <1>3, <2>4, AppendRequestCases
<1> QED
  BY <1>5, <1>6, AppendRequestWhole

ReadRequestReads(p, f) == Piece({2, 3, 4}, {1}, p, f)
ReadRequestIs == INSTANCE DecoderProofs
    WITH Fresh <- FreshReadRequest, Case <- ReadRequestCase, Reads <- ReadRequestReads

LEMMA ReadRequestField ==
  ASSUME NEW m, NEW to, NEW pieces, NEW no, NEW v,
         (pieces = <<>> /\ to = m) \/ IsField({2, 3, 4}, {1}, pieces, no, v),
         ReadRequestCase(m, [no |-> no, value |-> v]) = {to}
  PROVE  ReadRequestIs!Takes(m, pieces, to)
<1>1. ASSUME IsField({2, 3, 4}, {1}, pieces, no, v)
      PROVE  \E piece : pieces = <<piece>> /\ ReadRequestIs!Step(m, piece, to)
  BY <1>1, Zenon DEF ReadRequestIs!Step, ReadRequestReads, IsField
<1> QED
  BY <1>1, ReadRequestIs!TakesIf, Zenon

LEMMA ReadRequestNone ==
  \A m : ReadRequestIs!Takes(m, <<>>, m)
  BY ReadRequestIs!TakesIf, Zenon

LEMMA ReadRequestWhole ==
  ASSUME NEW pieces \in Seq(Seq(Nat)), NEW m, ReadRequestIs!Takes(FreshReadRequest, pieces, m)
  PROVE  DecodeReadRequest(FlattenSeq(pieces)) = {m}
<1>1. PICK via : ReadRequestIs!Leads(FreshReadRequest, pieces, m, via)
  BY Zenon DEF ReadRequestIs!Takes
<1>2. PICK S : \E fields \in Seq(S) : ReadRequestIs!AreRead(pieces, fields, m, via)
  BY <1>1, LeastNumber, ReadRequestIs!LoopTakes, Zenon
<1>3. PICK fields \in Seq(S) : ReadRequestIs!AreRead(pieces, fields, m, via)
  BY <1>2
<1>4. ReadFields(FlattenSeq(pieces), {2, 3, 4}, {1}) = {fields}
  <2>1. /\ Len(fields) = Len(pieces)
        /\ \A n \in 1 .. Len(pieces) : Piece({2, 3, 4}, {1}, pieces[n], fields[n])
    BY <1>3, Zenon DEF ReadRequestIs!AreRead, ReadRequestReads
  <2> QED
    BY <2>1, ReadWhole
<1>5. ReadRequestLoop!Merged(fields) = {m}
  BY <1>3, Zenon DEF ReadRequestIs!AreRead, ReadRequestIs!Merged, ReadRequestLoop!Merged
<1>6. UNION {ReadRequestLoop!Merged(f) : f \in {fields}} = ReadRequestLoop!Merged(fields)
  OBVIOUS
<1> QED
  BY <1>4, <1>5, <1>6, Zenon DEF DecodeReadRequest

ReadRequestOf(p, q, r, s) == [query |-> p, after |-> q, limit |-> r, reverse |-> s]

LEMMA ReadRequestCases ==
  FreshReadRequest = ReadRequestOf(NoQuery, <<>>, {}, Off)
  BY DEF ReadRequestOf, FreshReadRequest, Off

LEMMA ReadRequestSet1 ==
  ASSUME NEW p, NEW q, NEW r, NEW s, NEW v, NEW y, DecodeQuery(v) = {y}
  PROVE  ReadRequestCase(ReadRequestOf(p, q, r, s), [no |-> 1, value |-> v])
      = {ReadRequestOf(y, q, r, s)}
  BY DEF ReadRequestCase, ReadRequestOf

LEMMA ReadRequestSet2 ==
  ASSUME NEW p, NEW q, NEW r, NEW s, NEW v
  PROVE  ReadRequestCase(ReadRequestOf(p, q, r, s), [no |-> 2, value |-> v])
      = {ReadRequestOf(p, v, r, s)}
  BY DEF ReadRequestCase, ReadRequestOf

LEMMA ReadRequestSet3 ==
  ASSUME NEW p, NEW q, NEW r, NEW s, NEW v
  PROVE  ReadRequestCase(ReadRequestOf(p, q, r, s), [no |-> 3, value |-> v])
      = {ReadRequestOf(p, q, {v}, s)}
  BY DEF ReadRequestCase, ReadRequestOf

LEMMA ReadRequestFlag4 ==
  ASSUME NEW p, NEW q, NEW r, NEW s
  PROVE  ReadRequestCase(ReadRequestOf(p, q, r, s), [no |-> 4, value |-> <<1>>])
      = {ReadRequestOf(p, q, r, TRUE)}
<1> DEFINE f == [no |-> 4, value |-> <<1>>]
           m == ReadRequestOf(p, q, r, s)
<1>1. f.no = 4 /\ (f.value # <<>>) = TRUE
  <2>1. f.value = <<1>> /\ <<1>> # <<>> /\ f.no = 4
    OBVIOUS
  <2> HIDE DEF f
  <2> QED
    BY <2>1, Zenon
<1> HIDE DEF f, m
<1>2. ReadRequestCase(m, f) = {[m EXCEPT !.reverse = (f.value # <<>>)]}
  BY <1>1, SMT DEF ReadRequestCase
<1>3. ReadRequestCase(m, f) = {[m EXCEPT !.reverse = TRUE]}
  BY <1>1, <1>2, Zenon
<1>4. \A t : [m EXCEPT !.reverse = t] = ReadRequestOf(p, q, r, t)
  BY DEF ReadRequestOf, m
<1>5. [m EXCEPT !.reverse = TRUE] = ReadRequestOf(p, q, r, TRUE)
  BY <1>4, Zenon
<1> QED
  BY <1>3, <1>5, Zenon DEF f, m

\* A read arrives as it was sent, a limit of zero and none apart.
LEMMA ReadRequestBack ==
  ASSUME NEW message \in ReadRequestType
  PROVE  /\ EncodeReadRequest(message) \in Seq(Seq(Nat))
         /\ Small(EncodeReadRequest(message))
                => DecodeReadRequest(FlattenSeq(EncodeReadRequest(message))) = {message}
<1>1. PICK p, q, r, s : /\ p \in QueryType /\ q \in U64 /\ r \in AtMostOne(U64) /\ s \in BOOLEAN
                        /\ message = ReadRequestOf(p, q, r, s)
  <2>1. message.query \in QueryType /\ message.after \in U64 /\ message.limit \in AtMostOne(U64)
        /\ message.reverse \in BOOLEAN
    BY DEF ReadRequestType
  <2>2. message = ReadRequestOf(message.query, message.after, message.limit, message.reverse)
    BY DEF ReadRequestType, ReadRequestOf
  <2> QED
    BY <2>1, <2>2, Zenon
<1>2. 1 \in FieldNumbers /\ 2 \in FieldNumbers /\ 3 \in FieldNumbers /\ 4 \in FieldNumbers
  BY DEF FieldNumbers
<1> DEFINE a == Message(1, EncodeQuery(p))
           b == UInt64(2, q)
           c == Present(LAMBDA x : UInt64Present(3, x), r)
           d == Bool(4, s)
<1>3. EncodeReadRequest(message) = ((a \o b) \o c) \o d
  <2>1. ReadRequestOf(p, q, r, s).query = p /\ ReadRequestOf(p, q, r, s).after = q
        /\ ReadRequestOf(p, q, r, s).limit = r /\ ReadRequestOf(p, q, r, s).reverse = s
    BY DEF ReadRequestOf
  <2> QED
    BY <1>1, <2>1, Zenon DEF EncodeReadRequest
<1>4. a \in Seq(Seq(Nat)) /\ b \in Seq(Seq(Nat)) /\ c \in Seq(Seq(Nat)) /\ d \in Seq(Seq(Nat))
  <2>1. a \in Seq(Seq(Nat))
    BY <1>1, <1>2, QueryBack, MessageField
  <2>2. b \in Seq(Seq(Nat))
    BY <1>1, <1>2, UInt64Field
  <2>3. c \in Seq(Seq(Nat))
    <3>1. CASE r = {}
      BY <3>1, EmptySeq DEF Present
    <3>2. ASSUME NEW x \in U64, r = {x} PROVE c \in Seq(Seq(Nat))
      <4>1. c = UInt64Present(3, x)
        BY <3>2, OnlyOne DEF Present
      <4> QED
        BY <1>2, <4>1, UInt64Field
    <3> QED
      BY <1>1, <3>1, <3>2 DEF AtMostOne
  <2>4. d \in Seq(Seq(Nat))
    BY <1>1, <1>2, BoolField
  <2> QED
    BY <2>1, <2>2, <2>3, <2>4
<1>5. EncodeReadRequest(message) \in Seq(Seq(Nat)) /\ a \o b \in Seq(Seq(Nat))
      /\ (a \o b) \o c \in Seq(Seq(Nat))
  <2> HIDE DEF a, b, c, d
  <2>1. a \o b \in Seq(Seq(Nat))
    BY <1>4, LenOn
  <2>2. (a \o b) \o c \in Seq(Seq(Nat))
    BY <1>4, <2>1, LenOn
  <2> QED
    BY <1>3, <1>4, <2>1, <2>2, LenOn
<1>6. ASSUME Small(EncodeReadRequest(message))
      PROVE ReadRequestIs!Takes(FreshReadRequest, EncodeReadRequest(message), message)
  <2>1. Small(a) /\ Small(b) /\ Small(c) /\ Small(d)
    <3> HIDE DEF a, b, c, d
    <3> QED
      BY <1>3, <1>4, <1>5, <1>6, LenOn
  <2>2. ReadRequestIs!Takes(ReadRequestOf(NoQuery, <<>>, {}, Off), a,
        ReadRequestOf(p, <<>>, {}, Off))
    <3> DEFINE sub == EncodeQuery(p)
    <3>1. sub \in Seq(Seq(Nat)) /\ (Small(sub) => DecodeQuery(FlattenSeq(sub)) = {p})
      BY <1>1, QueryBack
    <3> HIDE DEF sub
    <3>2. Small(sub) /\ IsField({2, 3, 4}, {1}, a, 1, FlattenSeq(sub))
      <4>1. a = Message(1, sub)
        BY DEF sub
      <4>2. 1 \in {1} \ {2, 3, 4}
        OBVIOUS
      <4> HIDE DEF a
      <4> QED
        BY <1>2, <2>1, <3>1, <4>1, <4>2, MessageField, Zenon
    <3>3. ReadRequestCase(ReadRequestOf(NoQuery, <<>>, {}, Off),
          [no |-> 1, value |-> FlattenSeq(sub)]) = {ReadRequestOf(p, <<>>, {}, Off)}
      <4>1. DecodeQuery(FlattenSeq(sub)) = {p}
        BY <3>1, <3>2
      <4> QED
        BY <4>1, ReadRequestSet1
    <3> HIDE DEF a
    <3> QED
      BY <3>2, <3>3, ReadRequestField
  <2>3. ReadRequestIs!Takes(ReadRequestOf(p, <<>>, {}, Off), b, ReadRequestOf(p, q, {}, Off))
    <3>1. (b = <<>> /\ q = <<>>) \/ IsField({2, 3, 4}, {1}, b, 2, q)
      BY <1>1, <1>2, <2>1, Written1
    <3> HIDE DEF b
    <3>2. (b = <<>> /\ ReadRequestOf(p, q, {}, Off) = ReadRequestOf(p, <<>>, {}, Off))
          \/ IsField({2, 3, 4}, {1}, b, 2, q)
      BY <3>1
    <3>3. ReadRequestCase(ReadRequestOf(p, <<>>, {}, Off), [no |-> 2, value |-> q])
          = {ReadRequestOf(p, q, {}, Off)}
      BY ReadRequestSet2
    <3> QED
      BY <3>2, <3>3, ReadRequestField
  <2>4. ReadRequestIs!Takes(ReadRequestOf(p, q, {}, Off), c, ReadRequestOf(p, q, r, Off))
    <3>1. CASE r = {}
      <4>1. c = <<>> /\ ReadRequestOf(p, q, r, Off) = ReadRequestOf(p, q, {}, Off)
        BY <3>1 DEF Present
      <4> QED
        BY <4>1, ReadRequestNone
    <3>2. ASSUME NEW x \in U64, r = {x}
          PROVE ReadRequestIs!Takes(ReadRequestOf(p, q, {}, Off), c, ReadRequestOf(p, q, r, Off))
      <4>1. c = UInt64Present(3, x)
        BY <3>2, OnlyOne DEF Present
      <4> HIDE DEF c
      <4>2. IsField({2, 3, 4}, {1}, c, 3, x)
        <5>1. \A varints, lens : 3 \in varints => IsField(varints, lens, c, 3, x)
          BY <1>2, <4>1, UInt64Field
        <5>2. PICK varints : varints = {2, 3, 4}
          OBVIOUS
        <5>3. 3 \in varints
          BY <5>2
        <5>4. IsField(varints, {1}, c, 3, x)
          BY <5>1, <5>3, Zenon
        <5> QED
          BY <5>2, <5>4, Zenon
      <4>3. ReadRequestCase(ReadRequestOf(p, q, {}, Off), [no |-> 3, value |-> x])
            = {ReadRequestOf(p, q, {x}, Off)}
        BY ReadRequestSet3
      <4> QED
        BY <3>2, <4>2, <4>3, ReadRequestField
    <3> HIDE DEF c
    <3> QED
      BY <1>1, <3>1, <3>2 DEF AtMostOne
  <2>5. ReadRequestIs!Takes(ReadRequestOf(p, q, r, Off), d, ReadRequestOf(p, q, r, s))
    <3>1. (d = <<>> /\ s = FALSE) \/ (s = TRUE /\ IsField({2, 3, 4}, {1}, d, 4, <<1>>))
      BY <1>1, <1>2, <2>1, Written1
    <3> HIDE DEF d
    <3>2. (d = <<>> /\ ReadRequestOf(p, q, r, s) = ReadRequestOf(p, q, r, Off))
          \/ (s = TRUE /\ IsField({2, 3, 4}, {1}, d, 4, <<1>>))
      BY <3>1 DEF Off
    <3>3. s = TRUE => ReadRequestCase(ReadRequestOf(p, q, r, Off), [no |-> 4, value |-> <<1>>])
          = {ReadRequestOf(p, q, r, s)}
      BY ReadRequestFlag4, Zenon
    <3> QED
      BY <3>2, <3>3, ReadRequestField, ReadRequestNone
  <2> HIDE DEF a, b, c, d
  <2>6. ReadRequestIs!Takes(ReadRequestOf(NoQuery, <<>>, {}, Off), a \o b,
        ReadRequestOf(p, q, {}, Off))
    BY <1>4, <1>5, <2>2, <2>3, ReadRequestIs!TakesOn
  <2>7. ReadRequestIs!Takes(ReadRequestOf(NoQuery, <<>>, {}, Off), (a \o b) \o c,
        ReadRequestOf(p, q, r, Off))
    BY <1>4, <1>5, <2>6, <2>4, ReadRequestIs!TakesOn
  <2>8. ReadRequestIs!Takes(ReadRequestOf(NoQuery, <<>>, {}, Off), ((a \o b) \o c) \o d,
        ReadRequestOf(p, q, r, s))
    BY <1>4, <1>5, <2>7, <2>5, ReadRequestIs!TakesOn
  <2> QED
    BY <1>1, <1>3, <2>8, ReadRequestCases
<1> QED
  BY <1>5, <1>6, ReadRequestWhole

SubscribeRequestReads(p, f) == Piece({2}, {1}, p, f)
SubscribeRequestIs == INSTANCE DecoderProofs
    WITH Fresh <- FreshSubscribeRequest, Case <- SubscribeRequestCase,
        Reads <- SubscribeRequestReads

LEMMA SubscribeRequestField ==
  ASSUME NEW m, NEW to, NEW pieces, NEW no, NEW v,
         (pieces = <<>> /\ to = m) \/ IsField({2}, {1}, pieces, no, v),
         SubscribeRequestCase(m, [no |-> no, value |-> v]) = {to}
  PROVE  SubscribeRequestIs!Takes(m, pieces, to)
<1>1. ASSUME IsField({2}, {1}, pieces, no, v)
      PROVE  \E piece : pieces = <<piece>> /\ SubscribeRequestIs!Step(m, piece, to)
  BY <1>1, Zenon DEF SubscribeRequestIs!Step, SubscribeRequestReads, IsField
<1> QED
  BY <1>1, SubscribeRequestIs!TakesIf, Zenon

LEMMA SubscribeRequestWhole ==
  ASSUME NEW pieces \in Seq(Seq(Nat)), NEW m,
      SubscribeRequestIs!Takes(FreshSubscribeRequest, pieces, m)
  PROVE  DecodeSubscribeRequest(FlattenSeq(pieces)) = {m}
<1>1. PICK via : SubscribeRequestIs!Leads(FreshSubscribeRequest, pieces, m, via)
  BY Zenon DEF SubscribeRequestIs!Takes
<1>2. PICK S : \E fields \in Seq(S) : SubscribeRequestIs!AreRead(pieces, fields, m, via)
  BY <1>1, LeastNumber, SubscribeRequestIs!LoopTakes, Zenon
<1>3. PICK fields \in Seq(S) : SubscribeRequestIs!AreRead(pieces, fields, m, via)
  BY <1>2
<1>4. ReadFields(FlattenSeq(pieces), {2}, {1}) = {fields}
  <2>1. /\ Len(fields) = Len(pieces)
        /\ \A n \in 1 .. Len(pieces) : Piece({2}, {1}, pieces[n], fields[n])
    BY <1>3, Zenon DEF SubscribeRequestIs!AreRead, SubscribeRequestReads
  <2> QED
    BY <2>1, ReadWhole
<1>5. SubscribeRequestLoop!Merged(fields) = {m}
  BY <1>3, Zenon DEF SubscribeRequestIs!AreRead, SubscribeRequestIs!Merged, SubscribeRequestLoop!Merged
<1>6. UNION {SubscribeRequestLoop!Merged(f) : f \in {fields}} = SubscribeRequestLoop!Merged(fields)
  OBVIOUS
<1> QED
  BY <1>4, <1>5, <1>6, Zenon DEF DecodeSubscribeRequest

SubscribeRequestOf(p, q) == [query |-> p, after |-> q]

LEMMA SubscribeRequestCases ==
  FreshSubscribeRequest = SubscribeRequestOf(NoQuery, <<>>)
  BY DEF SubscribeRequestOf, FreshSubscribeRequest

LEMMA SubscribeRequestSet1 ==
  ASSUME NEW p, NEW q, NEW v, NEW y, DecodeQuery(v) = {y}
  PROVE  SubscribeRequestCase(SubscribeRequestOf(p, q), [no |-> 1, value |-> v])
      = {SubscribeRequestOf(y, q)}
  BY DEF SubscribeRequestCase, SubscribeRequestOf

LEMMA SubscribeRequestSet2 ==
  ASSUME NEW p, NEW q, NEW v
  PROVE  SubscribeRequestCase(SubscribeRequestOf(p, q), [no |-> 2, value |-> v])
      = {SubscribeRequestOf(p, v)}
  BY DEF SubscribeRequestCase, SubscribeRequestOf

\* A subscription arrives as it was sent.
LEMMA SubscribeRequestBack ==
  ASSUME NEW message \in SubscribeRequestType
  PROVE  /\ EncodeSubscribeRequest(message) \in Seq(Seq(Nat))
         /\ Small(EncodeSubscribeRequest(message))
                => DecodeSubscribeRequest(FlattenSeq(EncodeSubscribeRequest(message))) = {message}
<1>1. PICK p, q : /\ p \in QueryType /\ q \in U64
                  /\ message = SubscribeRequestOf(p, q)
  <2>1. message.query \in QueryType /\ message.after \in U64
    BY DEF SubscribeRequestType
  <2>2. message = SubscribeRequestOf(message.query, message.after)
    BY DEF SubscribeRequestType, SubscribeRequestOf
  <2> QED
    BY <2>1, <2>2, Zenon
<1>2. 1 \in FieldNumbers /\ 2 \in FieldNumbers
  BY DEF FieldNumbers
<1> DEFINE a == Message(1, EncodeQuery(p))
           b == UInt64(2, q)
<1>3. EncodeSubscribeRequest(message) = a \o b
  <2>1. SubscribeRequestOf(p, q).query = p /\ SubscribeRequestOf(p, q).after = q
    BY DEF SubscribeRequestOf
  <2> QED
    BY <1>1, <2>1, Zenon DEF EncodeSubscribeRequest
<1>4. a \in Seq(Seq(Nat)) /\ b \in Seq(Seq(Nat))
  <2>1. a \in Seq(Seq(Nat))
    BY <1>1, <1>2, QueryBack, MessageField
  <2>2. b \in Seq(Seq(Nat))
    BY <1>1, <1>2, UInt64Field
  <2> QED
    BY <2>1, <2>2
<1>5. EncodeSubscribeRequest(message) \in Seq(Seq(Nat))
  <2> HIDE DEF a, b
  <2> QED
    BY <1>3, <1>4, LenOn
<1>6. ASSUME Small(EncodeSubscribeRequest(message))
      PROVE SubscribeRequestIs!Takes(FreshSubscribeRequest, EncodeSubscribeRequest(message),
          message)
  <2>1. Small(a) /\ Small(b)
    <3> HIDE DEF a, b
    <3> QED
      BY <1>3, <1>4, <1>5, <1>6, LenOn
  <2>2. SubscribeRequestIs!Takes(SubscribeRequestOf(NoQuery, <<>>), a, SubscribeRequestOf(p, <<>>))
    <3> DEFINE sub == EncodeQuery(p)
    <3>1. sub \in Seq(Seq(Nat)) /\ (Small(sub) => DecodeQuery(FlattenSeq(sub)) = {p})
      BY <1>1, QueryBack
    <3> HIDE DEF sub
    <3>2. Small(sub) /\ IsField({2}, {1}, a, 1, FlattenSeq(sub))
      BY <1>2, <2>1, <3>1, MessageField, SMTT(40) DEF sub
    <3>3. SubscribeRequestCase(SubscribeRequestOf(NoQuery, <<>>),
          [no |-> 1, value |-> FlattenSeq(sub)]) = {SubscribeRequestOf(p, <<>>)}
      <4>1. DecodeQuery(FlattenSeq(sub)) = {p}
        BY <3>1, <3>2
      <4> QED
        BY <4>1, SubscribeRequestSet1
    <3> HIDE DEF a
    <3> QED
      BY <3>2, <3>3, SubscribeRequestField
  <2>3. SubscribeRequestIs!Takes(SubscribeRequestOf(p, <<>>), b, SubscribeRequestOf(p, q))
    <3>1. (b = <<>> /\ q = <<>>) \/ IsField({2}, {1}, b, 2, q)
      BY <1>1, <1>2, <2>1, Written1
    <3> HIDE DEF b
    <3>2. (b = <<>> /\ SubscribeRequestOf(p, q) = SubscribeRequestOf(p, <<>>))
          \/ IsField({2}, {1}, b, 2, q)
      BY <3>1
    <3>3. SubscribeRequestCase(SubscribeRequestOf(p, <<>>), [no |-> 2, value |-> q])
          = {SubscribeRequestOf(p, q)}
      BY SubscribeRequestSet2
    <3> QED
      BY <3>2, <3>3, SubscribeRequestField
  <2> HIDE DEF a, b
  <2>4. SubscribeRequestIs!Takes(SubscribeRequestOf(NoQuery, <<>>), a \o b,
        SubscribeRequestOf(p, q))
    BY <1>4, <1>5, <2>2, <2>3, SubscribeRequestIs!TakesOn
  <2> QED
    BY <1>1, <1>3, <2>4, SubscribeRequestCases
<1> QED
  BY <1>5, <1>6, SubscribeRequestWhole

CancelRequestReads(p, f) == Piece({1}, {}, p, f)
CancelRequestIs == INSTANCE DecoderProofs
    WITH Fresh <- FreshCancelRequest, Case <- CancelRequestCase, Reads <- CancelRequestReads

LEMMA CancelRequestField ==
  ASSUME NEW m, NEW to, NEW pieces, NEW no, NEW v,
         (pieces = <<>> /\ to = m) \/ IsField({1}, {}, pieces, no, v),
         CancelRequestCase(m, [no |-> no, value |-> v]) = {to}
  PROVE  CancelRequestIs!Takes(m, pieces, to)
<1>1. ASSUME IsField({1}, {}, pieces, no, v)
      PROVE  \E piece : pieces = <<piece>> /\ CancelRequestIs!Step(m, piece, to)
  BY <1>1, Zenon DEF CancelRequestIs!Step, CancelRequestReads, IsField
<1> QED
  BY <1>1, CancelRequestIs!TakesIf, Zenon

LEMMA CancelRequestWhole ==
  ASSUME NEW pieces \in Seq(Seq(Nat)), NEW m, CancelRequestIs!Takes(FreshCancelRequest, pieces, m)
  PROVE  DecodeCancelRequest(FlattenSeq(pieces)) = {m}
<1>1. PICK via : CancelRequestIs!Leads(FreshCancelRequest, pieces, m, via)
  BY Zenon DEF CancelRequestIs!Takes
<1>2. PICK S : \E fields \in Seq(S) : CancelRequestIs!AreRead(pieces, fields, m, via)
  BY <1>1, LeastNumber, CancelRequestIs!LoopTakes, Zenon
<1>3. PICK fields \in Seq(S) : CancelRequestIs!AreRead(pieces, fields, m, via)
  BY <1>2
<1>4. ReadFields(FlattenSeq(pieces), {1}, {}) = {fields}
  <2>1. /\ Len(fields) = Len(pieces)
        /\ \A n \in 1 .. Len(pieces) : Piece({1}, {}, pieces[n], fields[n])
    BY <1>3, Zenon DEF CancelRequestIs!AreRead, CancelRequestReads
  <2> QED
    BY <2>1, ReadWhole
<1>5. CancelRequestLoop!Merged(fields) = {m}
  BY <1>3, Zenon DEF CancelRequestIs!AreRead, CancelRequestIs!Merged, CancelRequestLoop!Merged
<1>6. UNION {CancelRequestLoop!Merged(f) : f \in {fields}} = CancelRequestLoop!Merged(fields)
  OBVIOUS
<1> QED
  BY <1>4, <1>5, <1>6, Zenon DEF DecodeCancelRequest

CancelRequestOf(p) == [target |-> p]

LEMMA CancelRequestCases ==
  FreshCancelRequest = CancelRequestOf(<<>>)
  BY DEF CancelRequestOf, FreshCancelRequest

LEMMA CancelRequestSet1 ==
  ASSUME NEW p, NEW v
  PROVE  CancelRequestCase(CancelRequestOf(p), [no |-> 1, value |-> v]) = {CancelRequestOf(v)}
  BY DEF CancelRequestCase, CancelRequestOf

\* A cancel arrives as it was sent.
LEMMA CancelRequestBack ==
  ASSUME NEW message \in CancelRequestType
  PROVE  /\ EncodeCancelRequest(message) \in Seq(Seq(Nat))
         /\ Small(EncodeCancelRequest(message))
                => DecodeCancelRequest(FlattenSeq(EncodeCancelRequest(message))) = {message}
<1>1. PICK p : /\ p \in U64
               /\ message = CancelRequestOf(p)
  <2>1. message.target \in U64
    BY DEF CancelRequestType
  <2>2. message = CancelRequestOf(message.target)
    BY DEF CancelRequestType, CancelRequestOf
  <2> QED
    BY <2>1, <2>2, Zenon
<1>2. 1 \in FieldNumbers
  BY DEF FieldNumbers
<1> DEFINE a == UInt64(1, p)
<1>3. EncodeCancelRequest(message) = a
  <2>1. CancelRequestOf(p).target = p
    BY DEF CancelRequestOf
  <2> QED
    BY <1>1, <2>1, Zenon DEF EncodeCancelRequest
<1>4. a \in Seq(Seq(Nat))
  <2>1. a \in Seq(Seq(Nat))
    BY <1>1, <1>2, UInt64Field
  <2> QED
    BY <2>1
<1>5. EncodeCancelRequest(message) \in Seq(Seq(Nat))
  BY <1>3, <1>4
<1>6. ASSUME Small(EncodeCancelRequest(message))
      PROVE CancelRequestIs!Takes(FreshCancelRequest, EncodeCancelRequest(message), message)
  <2>1. Small(a)
    <3> HIDE DEF a
    <3> QED
      BY <1>3, <1>4, <1>5, <1>6, LenOn
  <2>2. CancelRequestIs!Takes(CancelRequestOf(<<>>), a, CancelRequestOf(p))
    <3>1. (a = <<>> /\ p = <<>>) \/ IsField({1}, {}, a, 1, p)
      BY <1>1, <1>2, <2>1, Written1
    <3> HIDE DEF a
    <3>2. (a = <<>> /\ CancelRequestOf(p) = CancelRequestOf(<<>>)) \/ IsField({1}, {}, a, 1, p)
      BY <3>1
    <3>3. CancelRequestCase(CancelRequestOf(<<>>), [no |-> 1, value |-> p]) = {CancelRequestOf(p)}
      BY CancelRequestSet1
    <3> QED
      BY <3>2, <3>3, CancelRequestField
  <2> HIDE DEF a
  <2> QED
    BY <1>1, <1>3, <2>2, CancelRequestCases
<1> QED
  BY <1>5, <1>6, CancelRequestWhole

-----------------------------------------------------------------------------
(* The contents of responses arrive as they were sent.                     *)

SequencedEventReads(p, f) == Piece({1}, {2}, p, f)
SequencedEventIs == INSTANCE DecoderProofs
    WITH Fresh <- FreshSequencedEvent, Case <- SequencedEventCase, Reads <- SequencedEventReads

LEMMA SequencedEventField ==
  ASSUME NEW m, NEW to, NEW pieces, NEW no, NEW v,
         (pieces = <<>> /\ to = m) \/ IsField({1}, {2}, pieces, no, v),
         SequencedEventCase(m, [no |-> no, value |-> v]) = {to}
  PROVE  SequencedEventIs!Takes(m, pieces, to)
<1>1. ASSUME IsField({1}, {2}, pieces, no, v)
      PROVE  \E piece : pieces = <<piece>> /\ SequencedEventIs!Step(m, piece, to)
  BY <1>1, Zenon DEF SequencedEventIs!Step, SequencedEventReads, IsField
<1> QED
  BY <1>1, SequencedEventIs!TakesIf, Zenon

LEMMA SequencedEventNone ==
  \A m : SequencedEventIs!Takes(m, <<>>, m)
  BY SequencedEventIs!TakesIf, Zenon

LEMMA SequencedEventWhole ==
  ASSUME NEW pieces \in Seq(Seq(Nat)), NEW m, SequencedEventIs!Takes(FreshSequencedEvent, pieces, m)
  PROVE  DecodeSequencedEvent(FlattenSeq(pieces)) = {m}
<1>1. PICK via : SequencedEventIs!Leads(FreshSequencedEvent, pieces, m, via)
  BY Zenon DEF SequencedEventIs!Takes
<1>2. PICK S : \E fields \in Seq(S) : SequencedEventIs!AreRead(pieces, fields, m, via)
  BY <1>1, LeastNumber, SequencedEventIs!LoopTakes, Zenon
<1>3. PICK fields \in Seq(S) : SequencedEventIs!AreRead(pieces, fields, m, via)
  BY <1>2
<1>4. ReadFields(FlattenSeq(pieces), {1}, {2}) = {fields}
  <2>1. /\ Len(fields) = Len(pieces)
        /\ \A n \in 1 .. Len(pieces) : Piece({1}, {2}, pieces[n], fields[n])
    BY <1>3, Zenon DEF SequencedEventIs!AreRead, SequencedEventReads
  <2> QED
    BY <2>1, ReadWhole
<1>5. SequencedEventLoop!Merged(fields) = {m}
  BY <1>3, Zenon DEF SequencedEventIs!AreRead, SequencedEventIs!Merged, SequencedEventLoop!Merged
<1>6. UNION {SequencedEventLoop!Merged(f) : f \in {fields}} = SequencedEventLoop!Merged(fields)
  OBVIOUS
<1> QED
  BY <1>4, <1>5, <1>6, Zenon DEF DecodeSequencedEvent

SequencedEventOf(p, q) == [position |-> p, event |-> q]

LEMMA SequencedEventCases ==
  FreshSequencedEvent = SequencedEventOf(<<>>, {})
  BY DEF SequencedEventOf, FreshSequencedEvent

LEMMA SequencedEventSet1 ==
  ASSUME NEW p, NEW q, NEW v
  PROVE  SequencedEventCase(SequencedEventOf(p, q), [no |-> 1, value |-> v])
      = {SequencedEventOf(v, q)}
  BY DEF SequencedEventCase, SequencedEventOf

LEMMA SequencedEventSet2 ==
  ASSUME NEW p, NEW q, NEW v, NEW y, DecodeEvent(v) = {y}
  PROVE  SequencedEventCase(SequencedEventOf(p, q), [no |-> 2, value |-> v])
      = {SequencedEventOf(p, {y})}
  BY DEF SequencedEventCase, SequencedEventOf

\* An event and its position arrive as they were sent, an event that lacks too.
LEMMA SequencedEventBack ==
  ASSUME NEW message \in SequencedEventType
  PROVE  /\ EncodeSequencedEvent(message) \in Seq(Seq(Nat))
         /\ Small(EncodeSequencedEvent(message))
                => DecodeSequencedEvent(FlattenSeq(EncodeSequencedEvent(message))) = {message}
<1>1. PICK p, q : /\ p \in U64 /\ q \in AtMostOne(EventType)
                  /\ message = SequencedEventOf(p, q)
  <2>1. message.position \in U64 /\ message.event \in AtMostOne(EventType)
    BY DEF SequencedEventType
  <2>2. message = SequencedEventOf(message.position, message.event)
    BY DEF SequencedEventType, SequencedEventOf
  <2> QED
    BY <2>1, <2>2, Zenon
<1>2. 1 \in FieldNumbers /\ 2 \in FieldNumbers
  BY DEF FieldNumbers
<1> DEFINE a == UInt64(1, p)
           b == Present(LAMBDA x : Message(2, EncodeEvent(x)), q)
<1>3. EncodeSequencedEvent(message) = a \o b
  <2>1. SequencedEventOf(p, q).position = p /\ SequencedEventOf(p, q).event = q
    BY DEF SequencedEventOf
  <2> QED
    BY <1>1, <2>1, Zenon DEF EncodeSequencedEvent
<1>4. a \in Seq(Seq(Nat)) /\ b \in Seq(Seq(Nat))
  <2>1. a \in Seq(Seq(Nat))
    BY <1>1, <1>2, UInt64Field
  <2>2. b \in Seq(Seq(Nat))
    <3>1. CASE q = {}
      BY <3>1, EmptySeq DEF Present
    <3>2. ASSUME NEW x \in EventType, q = {x} PROVE b \in Seq(Seq(Nat))
      <4>1. b = Message(2, EncodeEvent(x))
        BY <3>2, OnlyOne DEF Present
      <4> QED
        BY <1>2, <4>1, EventBack, MessageField
    <3> QED
      BY <1>1, <3>1, <3>2 DEF AtMostOne
  <2> QED
    BY <2>1, <2>2
<1>5. EncodeSequencedEvent(message) \in Seq(Seq(Nat))
  <2> HIDE DEF a, b
  <2> QED
    BY <1>3, <1>4, LenOn
<1>6. ASSUME Small(EncodeSequencedEvent(message))
      PROVE SequencedEventIs!Takes(FreshSequencedEvent, EncodeSequencedEvent(message), message)
  <2>1. Small(a) /\ Small(b)
    <3> HIDE DEF a, b
    <3> QED
      BY <1>3, <1>4, <1>5, <1>6, LenOn
  <2>2. SequencedEventIs!Takes(SequencedEventOf(<<>>, {}), a, SequencedEventOf(p, {}))
    <3>1. (a = <<>> /\ p = <<>>) \/ IsField({1}, {2}, a, 1, p)
      BY <1>1, <1>2, <2>1, Written1
    <3> HIDE DEF a
    <3>2. (a = <<>> /\ SequencedEventOf(p, {}) = SequencedEventOf(<<>>, {}))
          \/ IsField({1}, {2}, a, 1, p)
      BY <3>1
    <3>3. SequencedEventCase(SequencedEventOf(<<>>, {}), [no |-> 1, value |-> p])
          = {SequencedEventOf(p, {})}
      BY SequencedEventSet1
    <3> QED
      BY <3>2, <3>3, SequencedEventField
  <2>3. SequencedEventIs!Takes(SequencedEventOf(p, {}), b, SequencedEventOf(p, q))
    <3>1. CASE q = {}
      <4>1. b = <<>> /\ SequencedEventOf(p, q) = SequencedEventOf(p, {})
        BY <3>1 DEF Present
      <4> QED
        BY <4>1, SequencedEventNone
    <3>2. ASSUME NEW x \in EventType, q = {x}
          PROVE SequencedEventIs!Takes(SequencedEventOf(p, {}), b, SequencedEventOf(p, q))
      <4> DEFINE sub == EncodeEvent(x)
      <4>1. b = Message(2, sub)
        BY <3>2, OnlyOne DEF Present
      <4>2. sub \in Seq(Seq(Nat)) /\ (Small(sub) => DecodeEvent(FlattenSeq(sub)) = {x})
        BY EventBack
      <4> HIDE DEF sub, b
      <4>3. Small(sub) /\ IsField({1}, {2}, b, 2, FlattenSeq(sub))
        <5>1. Small(sub)
          BY <1>2, <2>1, <4>1, <4>2, MessageField
        <5>2. \A varints, lens : 2 \in lens \ varints =>
                IsField(varints, lens, b, 2, FlattenSeq(sub))
          BY <1>2, <4>1, <4>2, <5>1, MessageField
        <5>3. 2 \in {2} \ {1}
          OBVIOUS
        <5> QED
          BY <5>1, <5>2, <5>3, Zenon
      <4>4. SequencedEventCase(SequencedEventOf(p, {}), [no |-> 2, value |-> FlattenSeq(sub)])
            = {SequencedEventOf(p, {x})}
        <5>1. DecodeEvent(FlattenSeq(sub)) = {x}
          BY <4>2, <4>3
        <5> QED
          BY <5>1, SequencedEventSet2
      <4> QED
        BY <3>2, <4>3, <4>4, SequencedEventField
    <3> HIDE DEF b
    <3> QED
      BY <1>1, <3>1, <3>2 DEF AtMostOne
  <2> HIDE DEF a, b
  <2>4. SequencedEventIs!Takes(SequencedEventOf(<<>>, {}), a \o b, SequencedEventOf(p, q))
    BY <1>4, <1>5, <2>2, <2>3, SequencedEventIs!TakesOn
  <2> QED
    BY <1>1, <1>3, <2>4, SequencedEventCases
<1> QED
  BY <1>5, <1>6, SequencedEventWhole

LEMMA SequencedEventContents ==
  ASSUME NEW messages \in Seq(SequencedEventType)
  PROVE  LET contents ==
      [n \in 1 .. Len(messages) |-> FlattenSeq(EncodeSequencedEvent(messages[n]))]
         IN  contents \in Seq(Seq(Nat)) /\ Len(contents) = Len(messages)
<1>1. \A n \in 1 .. Len(messages) : FlattenSeq(EncodeSequencedEvent(messages[n])) \in Seq(Nat)
  <2>1. \A n \in 1 .. Len(messages) : messages[n] \in SequencedEventType
    BY ElementOfSeq
  <2> QED
    BY <2>1, SequencedEventBack, FlatType
<1>2. Len(messages) \in Nat
  BY LenProperties
<1> DEFINE contents == [n \in 1 .. Len(messages) |-> FlattenSeq(EncodeSequencedEvent(messages[n]))]
<1>3. contents \in [1 .. Len(messages) -> Seq(Nat)]
  BY <1>1
<1> HIDE DEF contents
<1>4. contents \in Seq(Seq(Nat)) /\ Len(contents) = Len(messages)
  BY <1>2, <1>3
<1> QED
  BY <1>4 DEF contents

AppendResponseReads(p, f) == Piece({1, 2}, {}, p, f)
AppendResponseIs == INSTANCE DecoderProofs
    WITH Fresh <- FreshAppendResponse, Case <- AppendResponseCase, Reads <- AppendResponseReads

LEMMA AppendResponseField ==
  ASSUME NEW m, NEW to, NEW pieces, NEW no, NEW v,
         (pieces = <<>> /\ to = m) \/ IsField({1, 2}, {}, pieces, no, v),
         AppendResponseCase(m, [no |-> no, value |-> v]) = {to}
  PROVE  AppendResponseIs!Takes(m, pieces, to)
<1>1. ASSUME IsField({1, 2}, {}, pieces, no, v)
      PROVE  \E piece : pieces = <<piece>> /\ AppendResponseIs!Step(m, piece, to)
  BY <1>1, Zenon DEF AppendResponseIs!Step, AppendResponseReads, IsField
<1> QED
  BY <1>1, AppendResponseIs!TakesIf, Zenon

LEMMA AppendResponseWhole ==
  ASSUME NEW pieces \in Seq(Seq(Nat)), NEW m, AppendResponseIs!Takes(FreshAppendResponse, pieces, m)
  PROVE  DecodeAppendResponse(FlattenSeq(pieces)) = {m}
<1>1. PICK via : AppendResponseIs!Leads(FreshAppendResponse, pieces, m, via)
  BY Zenon DEF AppendResponseIs!Takes
<1>2. PICK S : \E fields \in Seq(S) : AppendResponseIs!AreRead(pieces, fields, m, via)
  BY <1>1, LeastNumber, AppendResponseIs!LoopTakes, Zenon
<1>3. PICK fields \in Seq(S) : AppendResponseIs!AreRead(pieces, fields, m, via)
  BY <1>2
<1>4. ReadFields(FlattenSeq(pieces), {1, 2}, {}) = {fields}
  <2>1. /\ Len(fields) = Len(pieces)
        /\ \A n \in 1 .. Len(pieces) : Piece({1, 2}, {}, pieces[n], fields[n])
    BY <1>3, Zenon DEF AppendResponseIs!AreRead, AppendResponseReads
  <2> QED
    BY <2>1, ReadWhole
<1>5. AppendResponseLoop!Merged(fields) = {m}
  BY <1>3, Zenon DEF AppendResponseIs!AreRead, AppendResponseIs!Merged, AppendResponseLoop!Merged
<1>6. UNION {AppendResponseLoop!Merged(f) : f \in {fields}} = AppendResponseLoop!Merged(fields)
  OBVIOUS
<1> QED
  BY <1>4, <1>5, <1>6, Zenon DEF DecodeAppendResponse

AppendResponseOf(p, q) == [first |-> p, last |-> q]

LEMMA AppendResponseCases ==
  FreshAppendResponse = AppendResponseOf(<<>>, <<>>)
  BY DEF AppendResponseOf, FreshAppendResponse

LEMMA AppendResponseSet1 ==
  ASSUME NEW p, NEW q, NEW v
  PROVE  AppendResponseCase(AppendResponseOf(p, q), [no |-> 1, value |-> v])
      = {AppendResponseOf(v, q)}
  BY DEF AppendResponseCase, AppendResponseOf

LEMMA AppendResponseSet2 ==
  ASSUME NEW p, NEW q, NEW v
  PROVE  AppendResponseCase(AppendResponseOf(p, q), [no |-> 2, value |-> v])
      = {AppendResponseOf(p, v)}
  BY DEF AppendResponseCase, AppendResponseOf

\* The positions of an append arrive as they were sent.
LEMMA AppendResponseBack ==
  ASSUME NEW message \in AppendResponseType
  PROVE  /\ EncodeAppendResponse(message) \in Seq(Seq(Nat))
         /\ Small(EncodeAppendResponse(message))
                => DecodeAppendResponse(FlattenSeq(EncodeAppendResponse(message))) = {message}
<1>1. PICK p, q : /\ p \in U64 /\ q \in U64
                  /\ message = AppendResponseOf(p, q)
  <2>1. message.first \in U64 /\ message.last \in U64
    BY DEF AppendResponseType
  <2>2. message = AppendResponseOf(message.first, message.last)
    BY DEF AppendResponseType, AppendResponseOf
  <2> QED
    BY <2>1, <2>2, Zenon
<1>2. 1 \in FieldNumbers /\ 2 \in FieldNumbers
  BY DEF FieldNumbers
<1> DEFINE a == UInt64(1, p)
           b == UInt64(2, q)
<1>3. EncodeAppendResponse(message) = a \o b
  <2>1. AppendResponseOf(p, q).first = p /\ AppendResponseOf(p, q).last = q
    BY DEF AppendResponseOf
  <2> QED
    BY <1>1, <2>1, Zenon DEF EncodeAppendResponse
<1>4. a \in Seq(Seq(Nat)) /\ b \in Seq(Seq(Nat))
  <2>1. a \in Seq(Seq(Nat))
    BY <1>1, <1>2, UInt64Field
  <2>2. b \in Seq(Seq(Nat))
    BY <1>1, <1>2, UInt64Field
  <2> QED
    BY <2>1, <2>2
<1>5. EncodeAppendResponse(message) \in Seq(Seq(Nat))
  <2> HIDE DEF a, b
  <2> QED
    BY <1>3, <1>4, LenOn
<1>6. ASSUME Small(EncodeAppendResponse(message))
      PROVE AppendResponseIs!Takes(FreshAppendResponse, EncodeAppendResponse(message), message)
  <2>1. Small(a) /\ Small(b)
    <3> HIDE DEF a, b
    <3> QED
      BY <1>3, <1>4, <1>5, <1>6, LenOn
  <2>2. AppendResponseIs!Takes(AppendResponseOf(<<>>, <<>>), a, AppendResponseOf(p, <<>>))
    <3>1. (a = <<>> /\ p = <<>>) \/ IsField({1, 2}, {}, a, 1, p)
      BY <1>1, <1>2, <2>1, Written1
    <3> HIDE DEF a
    <3>2. (a = <<>> /\ AppendResponseOf(p, <<>>) = AppendResponseOf(<<>>, <<>>))
          \/ IsField({1, 2}, {}, a, 1, p)
      BY <3>1
    <3>3. AppendResponseCase(AppendResponseOf(<<>>, <<>>), [no |-> 1, value |-> p])
          = {AppendResponseOf(p, <<>>)}
      BY AppendResponseSet1
    <3> QED
      BY <3>2, <3>3, AppendResponseField
  <2>3. AppendResponseIs!Takes(AppendResponseOf(p, <<>>), b, AppendResponseOf(p, q))
    <3>1. (b = <<>> /\ q = <<>>) \/ IsField({1, 2}, {}, b, 2, q)
      BY <1>1, <1>2, <2>1, Written1
    <3> HIDE DEF b
    <3>2. (b = <<>> /\ AppendResponseOf(p, q) = AppendResponseOf(p, <<>>))
          \/ IsField({1, 2}, {}, b, 2, q)
      BY <3>1
    <3>3. AppendResponseCase(AppendResponseOf(p, <<>>), [no |-> 2, value |-> q])
          = {AppendResponseOf(p, q)}
      BY AppendResponseSet2
    <3> QED
      BY <3>2, <3>3, AppendResponseField
  <2> HIDE DEF a, b
  <2>4. AppendResponseIs!Takes(AppendResponseOf(<<>>, <<>>), a \o b, AppendResponseOf(p, q))
    BY <1>4, <1>5, <2>2, <2>3, AppendResponseIs!TakesOn
  <2> QED
    BY <1>1, <1>3, <2>4, AppendResponseCases
<1> QED
  BY <1>5, <1>6, AppendResponseWhole

ReadEventsReads(p, f) == Piece({}, {1}, p, f)
ReadEventsIs == INSTANCE DecoderProofs
    WITH Fresh <- FreshReadEvents, Case <- ReadEventsCase, Reads <- ReadEventsReads

LEMMA ReadEventsField ==
  ASSUME NEW m, NEW to, NEW pieces, NEW no, NEW v,
         (pieces = <<>> /\ to = m) \/ IsField({}, {1}, pieces, no, v),
         ReadEventsCase(m, [no |-> no, value |-> v]) = {to}
  PROVE  ReadEventsIs!Takes(m, pieces, to)
<1>1. ASSUME IsField({}, {1}, pieces, no, v)
      PROVE  \E piece : pieces = <<piece>> /\ ReadEventsIs!Step(m, piece, to)
  BY <1>1, Zenon DEF ReadEventsIs!Step, ReadEventsReads, IsField
<1> QED
  BY <1>1, ReadEventsIs!TakesIf, Zenon

LEMMA ReadEventsWhole ==
  ASSUME NEW pieces \in Seq(Seq(Nat)), NEW m, ReadEventsIs!Takes(FreshReadEvents, pieces, m)
  PROVE  DecodeReadEvents(FlattenSeq(pieces)) = {m}
<1>1. PICK via : ReadEventsIs!Leads(FreshReadEvents, pieces, m, via)
  BY Zenon DEF ReadEventsIs!Takes
<1>2. PICK S : \E fields \in Seq(S) : ReadEventsIs!AreRead(pieces, fields, m, via)
  BY <1>1, LeastNumber, ReadEventsIs!LoopTakes, Zenon
<1>3. PICK fields \in Seq(S) : ReadEventsIs!AreRead(pieces, fields, m, via)
  BY <1>2
<1>4. ReadFields(FlattenSeq(pieces), {}, {1}) = {fields}
  <2>1. /\ Len(fields) = Len(pieces)
        /\ \A n \in 1 .. Len(pieces) : Piece({}, {1}, pieces[n], fields[n])
    BY <1>3, Zenon DEF ReadEventsIs!AreRead, ReadEventsReads
  <2> QED
    BY <2>1, ReadWhole
<1>5. ReadEventsLoop!Merged(fields) = {m}
  BY <1>3, Zenon DEF ReadEventsIs!AreRead, ReadEventsIs!Merged, ReadEventsLoop!Merged
<1>6. UNION {ReadEventsLoop!Merged(f) : f \in {fields}} = ReadEventsLoop!Merged(fields)
  OBVIOUS
<1> QED
  BY <1>4, <1>5, <1>6, Zenon DEF DecodeReadEvents

ReadEventsOf(p) == [events |-> p]

LEMMA ReadEventsCases ==
  FreshReadEvents = ReadEventsOf(<<>>)
  BY DEF ReadEventsOf, FreshReadEvents

LEMMA ReadEventsMore1 ==
  \A p, v, y :
    DecodeSequencedEvent(v) = {y}
        => ReadEventsCase(ReadEventsOf(p), [no |-> 1, value |-> v]) = {ReadEventsOf(Append(p, y))}
  BY DEF ReadEventsCase, ReadEventsOf

\* The events of a read arrive as they were sent.
LEMMA ReadEventsBack ==
  ASSUME NEW message \in ReadEventsType
  PROVE  /\ EncodeReadEvents(message) \in Seq(Seq(Nat))
         /\ Small(EncodeReadEvents(message))
                => DecodeReadEvents(FlattenSeq(EncodeReadEvents(message))) = {message}
<1>1. PICK p : /\ p \in Seq(SequencedEventType)
               /\ message = ReadEventsOf(p)
  <2>1. message.events \in Seq(SequencedEventType)
    BY DEF ReadEventsType
  <2>2. message = ReadEventsOf(message.events)
    BY DEF ReadEventsType, ReadEventsOf
  <2> QED
    BY <2>1, <2>2, Zenon
<1>2. 1 \in FieldNumbers
  BY DEF FieldNumbers
<1> DEFINE a == FlattenSeq([n \in 1 .. Len(p) |-> Message(1, EncodeSequencedEvent(p[n]))])
<1>3. EncodeReadEvents(message) = a
  <2>1. ReadEventsOf(p).events = p
    BY DEF ReadEventsOf
  <2>2. DOMAIN p = 1 .. Len(p)
    BY <1>1
  <2> QED
    BY <1>1, <2>1, <2>2, Zenon DEF EncodeReadEvents, Each
<1>4. a \in Seq(Seq(Nat))
  <2>1. a \in Seq(Seq(Nat))
    <3> DEFINE contents == [n \in 1 .. Len(p) |-> FlattenSeq(EncodeSequencedEvent(p[n]))]
    <3>1. contents \in Seq(Seq(Nat)) /\ Len(contents) = Len(p)
      BY <1>1, SequencedEventContents
    <3>2. a = FlattenSeq([n \in 1 .. Len(p) |-> Delimited(1, contents[n])])
      BY Zenon DEF Message
    <3> HIDE DEF contents, a
    <3> QED
      BY <1>2, <3>1, <3>2, EachField
  <2> QED
    BY <2>1
<1>5. EncodeReadEvents(message) \in Seq(Seq(Nat))
  BY <1>3, <1>4
<1>6. ASSUME Small(EncodeReadEvents(message))
      PROVE ReadEventsIs!Takes(FreshReadEvents, EncodeReadEvents(message), message)
  <2>1. Small(a)
    <3> HIDE DEF a
    <3> QED
      BY <1>3, <1>4, <1>5, <1>6, LenOn
  <2>2. ReadEventsIs!Takes(ReadEventsOf(<<>>), a, ReadEventsOf(p))
    <3> DEFINE M == [z \in Seq(SequencedEventType) |-> ReadEventsOf(z)]
    <3> DEFINE contents == [n \in 1 .. Len(p) |-> FlattenSeq(EncodeSequencedEvent(p[n]))]
    <3>8. contents \in Seq(Seq(Nat)) /\ Len(contents) = Len(p)
      BY <1>1, SequencedEventContents
    <3>9. a = FlattenSeq([n \in 1 .. Len(contents) |-> Delimited(1, contents[n])])
      BY <3>8, Zenon DEF Message
    <3>10. \A n \in 1 .. Len(p) : contents[n] = FlattenSeq(EncodeSequencedEvent(p[n]))
      OBVIOUS
    <3> HIDE DEF contents
    <3>1. /\ Len(a) = Len(p)
          /\ \A n \in 1 .. Len(p) : ReadEventsReads(a[n], [no |-> 1, value |-> contents[n]])
      <4> HIDE DEF a
      <4>1. \A n \in 1 .. Len(contents) : Len(contents[n]) < AboveAnyLength
        BY <1>2, <2>1, <3>8, <3>9, EachField, ZenonT(40)
      <4>2. 1 \in {1} \ {}
        OBVIOUS
      <4>3. /\ Len(a) = Len(contents)
            /\ \A n \in 1 .. Len(contents) :
                 Piece({}, {1}, a[n], [no |-> 1, value |-> contents[n]])
        BY <1>2, <3>8, <3>9, <4>1, <4>2, EachField, ZenonT(40)
      <4> QED
        BY <3>8, <4>3, Zenon DEF ReadEventsReads
    <3>11. \A n \in 1 .. Len(p) : DecodeSequencedEvent(contents[n]) = {p[n]}
      <4>1. \A n \in 1 .. Len(p) : Len(contents[n]) < AboveAnyLength
        <5> HIDE DEF a
        <5> QED
          BY <1>2, <2>1, <3>8, <3>9, EachField, ZenonT(40)
      <4>2. \A n \in 1 .. Len(p) : p[n] \in SequencedEventType
        BY <1>1, ElementOfSeq
      <4> QED
        BY <3>10, <4>1, <4>2, SequencedEventBack, Zenon DEF Small
    <3>2. \A z \in Seq(SequencedEventType) : M[z] = ReadEventsOf(z)
      BY Zenon
    <3> HIDE DEF a, M
    <3>3. ASSUME NEW n \in 1 .. Len(p), NEW z \in Seq(SequencedEventType)
          PROVE  ReadEventsIs!Step(M[z], a[n], M[Append(z, p[n])])
      <4>1. Append(z, p[n]) \in Seq(SequencedEventType)
        BY <1>1, ElementOfSeq, AppendProperties
      <4>2. ReadEventsCase(M[z], [no |-> 1, value |-> contents[n]]) = {M[Append(z, p[n])]}
        <5>1. ReadEventsCase(ReadEventsOf(z), [no |-> 1, value |-> contents[n]])
                = {ReadEventsOf(Append(z, p[n]))}
          <6>1. DecodeSequencedEvent(contents[n]) = {p[n]}
            BY <3>11
          <6> QED
            BY <6>1, ReadEventsMore1, SMT
        <5> QED
          BY <3>2, <4>1, <5>1
      <4> QED
        BY <3>1, <4>2, Zenon DEF ReadEventsIs!Step
    <3>4. ReadEventsIs!Takes(M[<<>>], a, M[p])
      BY <1>1, <3>1, <3>3, ReadEventsIs!TakesRepeated, Zenon
    <3>5. M[<<>>] = ReadEventsOf(<<>>) /\ M[p] = ReadEventsOf(p)
      BY <1>1, <3>2, EmptySeq
    <3> QED
      BY <3>4, <3>5
  <2> HIDE DEF a
  <2> QED
    BY <1>1, <1>3, <2>2, ReadEventsCases
<1> QED
  BY <1>5, <1>6, ReadEventsWhole

ErrorResponseReads(p, f) == Piece({1, 3, 4}, {2}, p, f)
ErrorResponseIs == INSTANCE DecoderProofs
    WITH Fresh <- FreshErrorResponse, Case <- ErrorResponseCase, Reads <- ErrorResponseReads

LEMMA ErrorResponseField ==
  ASSUME NEW m, NEW to, NEW pieces, NEW no, NEW v,
         (pieces = <<>> /\ to = m) \/ IsField({1, 3, 4}, {2}, pieces, no, v),
         ErrorResponseCase(m, [no |-> no, value |-> v]) = {to}
  PROVE  ErrorResponseIs!Takes(m, pieces, to)
<1>1. ASSUME IsField({1, 3, 4}, {2}, pieces, no, v)
      PROVE  \E piece : pieces = <<piece>> /\ ErrorResponseIs!Step(m, piece, to)
  BY <1>1, Zenon DEF ErrorResponseIs!Step, ErrorResponseReads, IsField
<1> QED
  BY <1>1, ErrorResponseIs!TakesIf, Zenon

LEMMA ErrorResponseNone ==
  \A m : ErrorResponseIs!Takes(m, <<>>, m)
  BY ErrorResponseIs!TakesIf, Zenon

LEMMA ErrorResponseWhole ==
  ASSUME NEW pieces \in Seq(Seq(Nat)), NEW m, ErrorResponseIs!Takes(FreshErrorResponse, pieces, m)
  PROVE  DecodeErrorResponse(FlattenSeq(pieces)) = {m}
<1>1. PICK via : ErrorResponseIs!Leads(FreshErrorResponse, pieces, m, via)
  BY Zenon DEF ErrorResponseIs!Takes
<1>2. PICK S : \E fields \in Seq(S) : ErrorResponseIs!AreRead(pieces, fields, m, via)
  BY <1>1, LeastNumber, ErrorResponseIs!LoopTakes, Zenon
<1>3. PICK fields \in Seq(S) : ErrorResponseIs!AreRead(pieces, fields, m, via)
  BY <1>2
<1>4. ReadFields(FlattenSeq(pieces), {1, 3, 4}, {2}) = {fields}
  <2>1. /\ Len(fields) = Len(pieces)
        /\ \A n \in 1 .. Len(pieces) : Piece({1, 3, 4}, {2}, pieces[n], fields[n])
    BY <1>3, Zenon DEF ErrorResponseIs!AreRead, ErrorResponseReads
  <2> QED
    BY <2>1, ReadWhole
<1>5. ErrorResponseLoop!Merged(fields) = {m}
  BY <1>3, Zenon DEF ErrorResponseIs!AreRead, ErrorResponseIs!Merged, ErrorResponseLoop!Merged
<1>6. UNION {ErrorResponseLoop!Merged(f) : f \in {fields}} = ErrorResponseLoop!Merged(fields)
  OBVIOUS
<1> QED
  BY <1>4, <1>5, <1>6, Zenon DEF DecodeErrorResponse

ErrorResponseOf(p, q, r, s) == [code |-> p, message |-> q, conflictPosition |-> r, retryable |-> s]

LEMMA ErrorResponseCases ==
  FreshErrorResponse = ErrorResponseOf(0, <<>>, {}, Off)
  BY DEF ErrorResponseOf, FreshErrorResponse, Off

LEMMA ErrorResponseSet1 ==
  ASSUME NEW p, NEW q, NEW r, NEW s, NEW v, NEW y, Number(v) = y
  PROVE  ErrorResponseCase(ErrorResponseOf(p, q, r, s), [no |-> 1, value |-> v])
      = {ErrorResponseOf(y, q, r, s)}
  BY DEF ErrorResponseCase, ErrorResponseOf

LEMMA ErrorResponseSet2 ==
  ASSUME NEW p, NEW q, NEW r, NEW s, NEW v
  PROVE  ErrorResponseCase(ErrorResponseOf(p, q, r, s), [no |-> 2, value |-> v])
      = {ErrorResponseOf(p, v, r, s)}
  BY DEF ErrorResponseCase, ErrorResponseOf

LEMMA ErrorResponseSet3 ==
  ASSUME NEW p, NEW q, NEW r, NEW s, NEW v
  PROVE  ErrorResponseCase(ErrorResponseOf(p, q, r, s), [no |-> 3, value |-> v])
      = {ErrorResponseOf(p, q, {v}, s)}
  BY DEF ErrorResponseCase, ErrorResponseOf

LEMMA ErrorResponseFlag4 ==
  ASSUME NEW p, NEW q, NEW r, NEW s
  PROVE  ErrorResponseCase(ErrorResponseOf(p, q, r, s), [no |-> 4, value |-> <<1>>])
      = {ErrorResponseOf(p, q, r, TRUE)}
<1> DEFINE f == [no |-> 4, value |-> <<1>>]
           m == ErrorResponseOf(p, q, r, s)
<1>1. f.no = 4 /\ (f.value # <<>>) = TRUE
  <2>1. f.value = <<1>> /\ <<1>> # <<>> /\ f.no = 4
    OBVIOUS
  <2> HIDE DEF f
  <2> QED
    BY <2>1, Zenon
<1> HIDE DEF f, m
<1>2. ErrorResponseCase(m, f) = {[m EXCEPT !.retryable = (f.value # <<>>)]}
  BY <1>1, SMT DEF ErrorResponseCase
<1>3. ErrorResponseCase(m, f) = {[m EXCEPT !.retryable = TRUE]}
  BY <1>1, <1>2, Zenon
<1>4. \A t : [m EXCEPT !.retryable = t] = ErrorResponseOf(p, q, r, t)
  BY DEF ErrorResponseOf, m
<1>5. [m EXCEPT !.retryable = TRUE] = ErrorResponseOf(p, q, r, TRUE)
  BY <1>4, Zenon
<1> QED
  BY <1>3, <1>5, Zenon DEF f, m

\* An error arrives as it was sent, a conflict at zero and none apart.
LEMMA ErrorResponseBack ==
  ASSUME NEW message \in ErrorResponseType
  PROVE  /\ EncodeErrorResponse(message) \in Seq(Seq(Nat))
         /\ Small(EncodeErrorResponse(message))
                => DecodeErrorResponse(FlattenSeq(EncodeErrorResponse(message))) = {message}
<1>1. PICK p, q, r, s : /\ p \in Small32 /\ q \in Seq(Nat) /\ r \in AtMostOne(U64) /\ s \in BOOLEAN
                        /\ message = ErrorResponseOf(p, q, r, s)
  <2>1. message.code \in Small32 /\ message.message \in Seq(Nat)
        /\ message.conflictPosition \in AtMostOne(U64) /\ message.retryable \in BOOLEAN
    BY DEF ErrorResponseType
  <2>2. message = ErrorResponseOf(message.code, message.message, message.conflictPosition,
        message.retryable)
    BY DEF ErrorResponseType, ErrorResponseOf
  <2> QED
    BY <2>1, <2>2, Zenon
<1>2. 1 \in FieldNumbers /\ 2 \in FieldNumbers /\ 3 \in FieldNumbers /\ 4 \in FieldNumbers
  BY DEF FieldNumbers
<1> DEFINE a == UInt32(1, p)
           b == Bytes(2, q)
           c == Present(LAMBDA x : UInt64Present(3, x), r)
           d == Bool(4, s)
<1>3. EncodeErrorResponse(message) = ((a \o b) \o c) \o d
  <2>1. ErrorResponseOf(p, q, r, s).code = p /\ ErrorResponseOf(p, q, r, s).message = q
        /\ ErrorResponseOf(p, q, r, s).conflictPosition = r
               /\ ErrorResponseOf(p, q, r, s).retryable = s
    BY DEF ErrorResponseOf
  <2> QED
    BY <1>1, <2>1, Zenon DEF EncodeErrorResponse
<1>4. a \in Seq(Seq(Nat)) /\ b \in Seq(Seq(Nat)) /\ c \in Seq(Seq(Nat)) /\ d \in Seq(Seq(Nat))
  <2>1. a \in Seq(Seq(Nat))
    BY <1>1, <1>2, UInt32Type
  <2>2. b \in Seq(Seq(Nat))
    BY <1>1, <1>2, BytesField
  <2>3. c \in Seq(Seq(Nat))
    <3>1. CASE r = {}
      BY <3>1, EmptySeq DEF Present
    <3>2. ASSUME NEW x \in U64, r = {x} PROVE c \in Seq(Seq(Nat))
      <4>1. c = UInt64Present(3, x)
        BY <3>2, OnlyOne DEF Present
      <4> QED
        BY <1>2, <4>1, UInt64Field
    <3> QED
      BY <1>1, <3>1, <3>2 DEF AtMostOne
  <2>4. d \in Seq(Seq(Nat))
    BY <1>1, <1>2, BoolField
  <2> QED
    BY <2>1, <2>2, <2>3, <2>4
<1>5. EncodeErrorResponse(message) \in Seq(Seq(Nat)) /\ a \o b \in Seq(Seq(Nat))
      /\ (a \o b) \o c \in Seq(Seq(Nat))
  <2> HIDE DEF a, b, c, d
  <2>1. a \o b \in Seq(Seq(Nat))
    BY <1>4, LenOn
  <2>2. (a \o b) \o c \in Seq(Seq(Nat))
    BY <1>4, <2>1, LenOn
  <2> QED
    BY <1>3, <1>4, <2>1, <2>2, LenOn
<1>6. ASSUME Small(EncodeErrorResponse(message))
      PROVE ErrorResponseIs!Takes(FreshErrorResponse, EncodeErrorResponse(message), message)
  <2>1. Small(a) /\ Small(b) /\ Small(c) /\ Small(d)
    <3> HIDE DEF a, b, c, d
    <3> QED
      BY <1>3, <1>4, <1>5, <1>6, LenOn
  <2>2. ErrorResponseIs!Takes(ErrorResponseOf(0, <<>>, {}, Off), a,
        ErrorResponseOf(p, <<>>, {}, Off))
    <3>1. (a = <<>> /\ p = 0) \/ IsField({1, 3, 4}, {2}, a, 1, Digits(p))
      BY <1>1, <1>2, UInt32Type
    <3> HIDE DEF a
    <3>2. (a = <<>> /\ ErrorResponseOf(p, <<>>, {}, Off) = ErrorResponseOf(0, <<>>, {}, Off))
          \/ IsField({1, 3, 4}, {2}, a, 1, Digits(p))
      BY <3>1
    <3>3. Number(Digits(p)) = p
      BY <1>1, <1>2, UInt32Type
    <3>4. ErrorResponseCase(ErrorResponseOf(0, <<>>, {}, Off), [no |-> 1, value |-> Digits(p)])
          = {ErrorResponseOf(p, <<>>, {}, Off)}
      BY <3>3, ErrorResponseSet1
    <3> QED
      BY <3>2, <3>4, ErrorResponseField
  <2>3. ErrorResponseIs!Takes(ErrorResponseOf(p, <<>>, {}, Off), b, ErrorResponseOf(p, q, {}, Off))
    <3>1. (b = <<>> /\ q = <<>>) \/ IsField({1, 3, 4}, {2}, b, 2, q)
      <4>1. 2 \in {2} \ {1, 3, 4}
        OBVIOUS
      <4> QED
        BY <1>1, <1>2, <2>1, <4>1, Written1
    <3> HIDE DEF b
    <3>2. (b = <<>> /\ ErrorResponseOf(p, q, {}, Off) = ErrorResponseOf(p, <<>>, {}, Off))
          \/ IsField({1, 3, 4}, {2}, b, 2, q)
      BY <3>1
    <3>3. ErrorResponseCase(ErrorResponseOf(p, <<>>, {}, Off), [no |-> 2, value |-> q])
          = {ErrorResponseOf(p, q, {}, Off)}
      BY ErrorResponseSet2
    <3> QED
      BY <3>2, <3>3, ErrorResponseField
  <2>4. ErrorResponseIs!Takes(ErrorResponseOf(p, q, {}, Off), c, ErrorResponseOf(p, q, r, Off))
    <3>1. CASE r = {}
      <4>1. c = <<>> /\ ErrorResponseOf(p, q, r, Off) = ErrorResponseOf(p, q, {}, Off)
        BY <3>1 DEF Present
      <4> QED
        BY <4>1, ErrorResponseNone
    <3>2. ASSUME NEW x \in U64, r = {x}
          PROVE ErrorResponseIs!Takes(ErrorResponseOf(p, q, {}, Off), c,
              ErrorResponseOf(p, q, r, Off))
      <4>1. c = UInt64Present(3, x)
        BY <3>2, OnlyOne DEF Present
      <4> HIDE DEF c
      <4>2. IsField({1, 3, 4}, {2}, c, 3, x)
        <5>1. \A varints, lens : 3 \in varints => IsField(varints, lens, c, 3, x)
          BY <1>2, <4>1, UInt64Field
        <5>2. PICK varints : varints = {1, 3, 4}
          OBVIOUS
        <5>3. 3 \in varints
          BY <5>2
        <5>4. IsField(varints, {2}, c, 3, x)
          BY <5>1, <5>3, Zenon
        <5> QED
          BY <5>2, <5>4, Zenon
      <4>3. ErrorResponseCase(ErrorResponseOf(p, q, {}, Off), [no |-> 3, value |-> x])
            = {ErrorResponseOf(p, q, {x}, Off)}
        BY ErrorResponseSet3
      <4> QED
        BY <3>2, <4>2, <4>3, ErrorResponseField
    <3> HIDE DEF c
    <3> QED
      BY <1>1, <3>1, <3>2 DEF AtMostOne
  <2>5. ErrorResponseIs!Takes(ErrorResponseOf(p, q, r, Off), d, ErrorResponseOf(p, q, r, s))
    <3>1. (d = <<>> /\ s = FALSE) \/ (s = TRUE /\ IsField({1, 3, 4}, {2}, d, 4, <<1>>))
      BY <1>1, <1>2, <2>1, Written1
    <3> HIDE DEF d
    <3>2. (d = <<>> /\ ErrorResponseOf(p, q, r, s) = ErrorResponseOf(p, q, r, Off))
          \/ (s = TRUE /\ IsField({1, 3, 4}, {2}, d, 4, <<1>>))
      BY <3>1 DEF Off
    <3>3. s = TRUE => ErrorResponseCase(ErrorResponseOf(p, q, r, Off),
          [no |-> 4, value |-> <<1>>]) = {ErrorResponseOf(p, q, r, s)}
      BY ErrorResponseFlag4, Zenon
    <3> QED
      BY <3>2, <3>3, ErrorResponseField, ErrorResponseNone
  <2> HIDE DEF a, b, c, d
  <2>6. ErrorResponseIs!Takes(ErrorResponseOf(0, <<>>, {}, Off), a \o b,
        ErrorResponseOf(p, q, {}, Off))
    BY <1>4, <1>5, <2>2, <2>3, ErrorResponseIs!TakesOn
  <2>7. ErrorResponseIs!Takes(ErrorResponseOf(0, <<>>, {}, Off), (a \o b) \o c,
        ErrorResponseOf(p, q, r, Off))
    BY <1>4, <1>5, <2>6, <2>4, ErrorResponseIs!TakesOn
  <2>8. ErrorResponseIs!Takes(ErrorResponseOf(0, <<>>, {}, Off), ((a \o b) \o c) \o d,
        ErrorResponseOf(p, q, r, s))
    BY <1>4, <1>5, <2>7, <2>5, ErrorResponseIs!TakesOn
  <2> QED
    BY <1>1, <1>3, <2>8, ErrorResponseCases
<1> QED
  BY <1>5, <1>6, ErrorResponseWhole

HelloAckReads(p, f) == Piece({1}, {2}, p, f)
HelloAckIs == INSTANCE DecoderProofs
    WITH Fresh <- FreshHelloAck, Case <- HelloAckCase, Reads <- HelloAckReads

LEMMA HelloAckField ==
  ASSUME NEW m, NEW to, NEW pieces, NEW no, NEW v,
         (pieces = <<>> /\ to = m) \/ IsField({1}, {2}, pieces, no, v),
         HelloAckCase(m, [no |-> no, value |-> v]) = {to}
  PROVE  HelloAckIs!Takes(m, pieces, to)
<1>1. ASSUME IsField({1}, {2}, pieces, no, v)
      PROVE  \E piece : pieces = <<piece>> /\ HelloAckIs!Step(m, piece, to)
  BY <1>1, Zenon DEF HelloAckIs!Step, HelloAckReads, IsField
<1> QED
  BY <1>1, HelloAckIs!TakesIf, Zenon

LEMMA HelloAckWhole ==
  ASSUME NEW pieces \in Seq(Seq(Nat)), NEW m, HelloAckIs!Takes(FreshHelloAck, pieces, m)
  PROVE  DecodeHelloAck(FlattenSeq(pieces)) = {m}
<1>1. PICK via : HelloAckIs!Leads(FreshHelloAck, pieces, m, via)
  BY Zenon DEF HelloAckIs!Takes
<1>2. PICK S : \E fields \in Seq(S) : HelloAckIs!AreRead(pieces, fields, m, via)
  BY <1>1, LeastNumber, HelloAckIs!LoopTakes, Zenon
<1>3. PICK fields \in Seq(S) : HelloAckIs!AreRead(pieces, fields, m, via)
  BY <1>2
<1>4. ReadFields(FlattenSeq(pieces), {1}, {2}) = {fields}
  <2>1. /\ Len(fields) = Len(pieces)
        /\ \A n \in 1 .. Len(pieces) : Piece({1}, {2}, pieces[n], fields[n])
    BY <1>3, Zenon DEF HelloAckIs!AreRead, HelloAckReads
  <2> QED
    BY <2>1, ReadWhole
<1>5. HelloAckLoop!Merged(fields) = {m}
  BY <1>3, Zenon DEF HelloAckIs!AreRead, HelloAckIs!Merged, HelloAckLoop!Merged
<1>6. UNION {HelloAckLoop!Merged(f) : f \in {fields}} = HelloAckLoop!Merged(fields)
  OBVIOUS
<1> QED
  BY <1>4, <1>5, <1>6, Zenon DEF DecodeHelloAck

HelloAckOf(p, q) == [protocolVersion |-> p, serverVersion |-> q]

LEMMA HelloAckCases ==
  FreshHelloAck = HelloAckOf(0, <<>>)
  BY DEF HelloAckOf, FreshHelloAck

LEMMA HelloAckSet1 ==
  ASSUME NEW p, NEW q, NEW v, NEW y, Number(v) = y
  PROVE  HelloAckCase(HelloAckOf(p, q), [no |-> 1, value |-> v]) = {HelloAckOf(y, q)}
  BY DEF HelloAckCase, HelloAckOf

LEMMA HelloAckSet2 ==
  ASSUME NEW p, NEW q, NEW v
  PROVE  HelloAckCase(HelloAckOf(p, q), [no |-> 2, value |-> v]) = {HelloAckOf(p, v)}
  BY DEF HelloAckCase, HelloAckOf

\* The answer to a hello arrives as it was sent.
LEMMA HelloAckBack ==
  ASSUME NEW message \in HelloAckType
  PROVE  /\ EncodeHelloAck(message) \in Seq(Seq(Nat))
         /\ Small(EncodeHelloAck(message))
                => DecodeHelloAck(FlattenSeq(EncodeHelloAck(message))) = {message}
<1>1. PICK p, q : /\ p \in Small32 /\ q \in Seq(Nat)
                  /\ message = HelloAckOf(p, q)
  <2>1. message.protocolVersion \in Small32 /\ message.serverVersion \in Seq(Nat)
    BY DEF HelloAckType
  <2>2. message = HelloAckOf(message.protocolVersion, message.serverVersion)
    BY DEF HelloAckType, HelloAckOf
  <2> QED
    BY <2>1, <2>2, Zenon
<1>2. 1 \in FieldNumbers /\ 2 \in FieldNumbers
  BY DEF FieldNumbers
<1> DEFINE a == UInt32(1, p)
           b == Bytes(2, q)
<1>3. EncodeHelloAck(message) = a \o b
  <2>1. HelloAckOf(p, q).protocolVersion = p /\ HelloAckOf(p, q).serverVersion = q
    BY DEF HelloAckOf
  <2> QED
    BY <1>1, <2>1, Zenon DEF EncodeHelloAck
<1>4. a \in Seq(Seq(Nat)) /\ b \in Seq(Seq(Nat))
  <2>1. a \in Seq(Seq(Nat))
    BY <1>1, <1>2, UInt32Type
  <2>2. b \in Seq(Seq(Nat))
    BY <1>1, <1>2, BytesField
  <2> QED
    BY <2>1, <2>2
<1>5. EncodeHelloAck(message) \in Seq(Seq(Nat))
  <2> HIDE DEF a, b
  <2> QED
    BY <1>3, <1>4, LenOn
<1>6. ASSUME Small(EncodeHelloAck(message))
      PROVE HelloAckIs!Takes(FreshHelloAck, EncodeHelloAck(message), message)
  <2>1. Small(a) /\ Small(b)
    <3> HIDE DEF a, b
    <3> QED
      BY <1>3, <1>4, <1>5, <1>6, LenOn
  <2>2. HelloAckIs!Takes(HelloAckOf(0, <<>>), a, HelloAckOf(p, <<>>))
    <3>1. (a = <<>> /\ p = 0) \/ IsField({1}, {2}, a, 1, Digits(p))
      BY <1>1, <1>2, UInt32Type
    <3> HIDE DEF a
    <3>2. (a = <<>> /\ HelloAckOf(p, <<>>) = HelloAckOf(0, <<>>))
          \/ IsField({1}, {2}, a, 1, Digits(p))
      BY <3>1
    <3>3. Number(Digits(p)) = p
      BY <1>1, <1>2, UInt32Type
    <3>4. HelloAckCase(HelloAckOf(0, <<>>), [no |-> 1, value |-> Digits(p)]) = {HelloAckOf(p, <<>>)}
      BY <3>3, HelloAckSet1
    <3> QED
      BY <3>2, <3>4, HelloAckField
  <2>3. HelloAckIs!Takes(HelloAckOf(p, <<>>), b, HelloAckOf(p, q))
    <3>1. (b = <<>> /\ q = <<>>) \/ IsField({1}, {2}, b, 2, q)
      <4>1. 2 \in {2} \ {1}
        OBVIOUS
      <4> QED
        BY <1>1, <1>2, <2>1, <4>1, Written1
    <3> HIDE DEF b
    <3>2. (b = <<>> /\ HelloAckOf(p, q) = HelloAckOf(p, <<>>)) \/ IsField({1}, {2}, b, 2, q)
      BY <3>1
    <3>3. HelloAckCase(HelloAckOf(p, <<>>), [no |-> 2, value |-> q]) = {HelloAckOf(p, q)}
      BY HelloAckSet2
    <3> QED
      BY <3>2, <3>3, HelloAckField
  <2> HIDE DEF a, b
  <2>4. HelloAckIs!Takes(HelloAckOf(0, <<>>), a \o b, HelloAckOf(p, q))
    BY <1>4, <1>5, <2>2, <2>3, HelloAckIs!TakesOn
  <2> QED
    BY <1>1, <1>3, <2>4, HelloAckCases
<1> QED
  BY <1>5, <1>6, HelloAckWhole

-----------------------------------------------------------------------------
(* The greeting, the end of a read and the server's numbers arrive as they *)
(* were sent.                                                              *)

HelloReads(p, f) == Piece({1}, {2}, p, f)
HelloIs == INSTANCE DecoderProofs WITH Fresh <- FreshHello, Case <- HelloCase, Reads <- HelloReads

LEMMA HelloField ==
  ASSUME NEW m, NEW to, NEW pieces, NEW no, NEW v,
         (pieces = <<>> /\ to = m) \/ IsField({1}, {2}, pieces, no, v),
         HelloCase(m, [no |-> no, value |-> v]) = {to}
  PROVE  HelloIs!Takes(m, pieces, to)
<1>1. ASSUME IsField({1}, {2}, pieces, no, v)
      PROVE  \E piece : pieces = <<piece>> /\ HelloIs!Step(m, piece, to)
  BY <1>1, Zenon DEF HelloIs!Step, HelloReads, IsField
<1> QED
  BY <1>1, HelloIs!TakesIf, Zenon

LEMMA HelloNone ==
  \A m : HelloIs!Takes(m, <<>>, m)
  BY HelloIs!TakesIf, Zenon

LEMMA HelloWhole ==
  ASSUME NEW pieces \in Seq(Seq(Nat)), NEW m, HelloIs!Takes(FreshHello, pieces, m)
  PROVE  DecodeHello(FlattenSeq(pieces)) = {m}
<1>1. PICK via : HelloIs!Leads(FreshHello, pieces, m, via)
  BY Zenon DEF HelloIs!Takes
<1>2. PICK S : \E fields \in Seq(S) : HelloIs!AreRead(pieces, fields, m, via)
  BY <1>1, LeastNumber, HelloIs!LoopTakes, Zenon
<1>3. PICK fields \in Seq(S) : HelloIs!AreRead(pieces, fields, m, via)
  BY <1>2
<1>4. ReadFields(FlattenSeq(pieces), {1}, {2}) = {fields}
  <2>1. /\ Len(fields) = Len(pieces)
        /\ \A n \in 1 .. Len(pieces) : Piece({1}, {2}, pieces[n], fields[n])
    BY <1>3, Zenon DEF HelloIs!AreRead, HelloReads
  <2> QED
    BY <2>1, ReadWhole
<1>5. HelloLoop!Merged(fields) = {m}
  BY <1>3, Zenon DEF HelloIs!AreRead, HelloIs!Merged, HelloLoop!Merged
<1>6. UNION {HelloLoop!Merged(f) : f \in {fields}} = HelloLoop!Merged(fields)
  OBVIOUS
<1> QED
  BY <1>4, <1>5, <1>6, Zenon DEF DecodeHello

HelloOf(p, q) == [protocolVersion |-> p, authToken |-> q]

LEMMA HelloCases ==
  FreshHello = HelloOf(0, {})
  BY DEF HelloOf, FreshHello

LEMMA HelloSet1 ==
  ASSUME NEW p, NEW q, NEW v, NEW y, Number(v) = y
  PROVE  HelloCase(HelloOf(p, q), [no |-> 1, value |-> v]) = {HelloOf(y, q)}
  BY DEF HelloCase, HelloOf

LEMMA HelloSet2 ==
  ASSUME NEW p, NEW q, NEW v
  PROVE  HelloCase(HelloOf(p, q), [no |-> 2, value |-> v]) = {HelloOf(p, {v})}
  BY DEF HelloCase, HelloOf

\* A hello arrives as it was sent, if its token is not empty.
LEMMA HelloBack ==
  ASSUME NEW message \in HelloType
  PROVE  /\ EncodeHello(message) \in Seq(Seq(Nat))
         /\ Small(EncodeHello(message)) => DecodeHello(FlattenSeq(EncodeHello(message))) = {message}
<1>1. PICK p, q : /\ p \in Small32 /\ q \in AtMostOne(Seq(Nat) \ {<<>>})
                  /\ message = HelloOf(p, q)
  <2>1. message.protocolVersion \in Small32 /\ message.authToken \in AtMostOne(Seq(Nat) \ {<<>>})
    BY DEF HelloType
  <2>2. message = HelloOf(message.protocolVersion, message.authToken)
    BY DEF HelloType, HelloOf
  <2> QED
    BY <2>1, <2>2, Zenon
<1>2. 1 \in FieldNumbers /\ 2 \in FieldNumbers
  BY DEF FieldNumbers
<1> DEFINE a == UInt32(1, p)
           b == Present(LAMBDA x : Bytes(2, x), q)
<1>3. EncodeHello(message) = a \o b
  <2>1. HelloOf(p, q).protocolVersion = p /\ HelloOf(p, q).authToken = q
    BY DEF HelloOf
  <2> QED
    BY <1>1, <2>1, Zenon DEF EncodeHello
<1>4. a \in Seq(Seq(Nat)) /\ b \in Seq(Seq(Nat))
  <2>1. a \in Seq(Seq(Nat))
    BY <1>1, <1>2, UInt32Type
  <2>2. b \in Seq(Seq(Nat))
    <3>1. CASE q = {}
      BY <3>1, EmptySeq DEF Present
    <3>2. ASSUME NEW x \in Seq(Nat) \ {<<>>}, q = {x} PROVE b \in Seq(Seq(Nat))
      <4>1. b = Bytes(2, x)
        BY <3>2, OnlyOne DEF Present
      <4> QED
        BY <1>2, <4>1, BytesField
    <3> QED
      BY <1>1, <3>1, <3>2 DEF AtMostOne
  <2> QED
    BY <2>1, <2>2
<1>5. EncodeHello(message) \in Seq(Seq(Nat))
  <2> HIDE DEF a, b
  <2> QED
    BY <1>3, <1>4, LenOn
<1>6. ASSUME Small(EncodeHello(message))
      PROVE HelloIs!Takes(FreshHello, EncodeHello(message), message)
  <2>1. Small(a) /\ Small(b)
    <3> HIDE DEF a, b
    <3> QED
      BY <1>3, <1>4, <1>5, <1>6, LenOn
  <2>2. HelloIs!Takes(HelloOf(0, {}), a, HelloOf(p, {}))
    <3>1. (a = <<>> /\ p = 0) \/ IsField({1}, {2}, a, 1, Digits(p))
      BY <1>1, <1>2, UInt32Type
    <3> HIDE DEF a
    <3>2. (a = <<>> /\ HelloOf(p, {}) = HelloOf(0, {})) \/ IsField({1}, {2}, a, 1, Digits(p))
      BY <3>1
    <3>3. Number(Digits(p)) = p
      BY <1>1, <1>2, UInt32Type
    <3>4. HelloCase(HelloOf(0, {}), [no |-> 1, value |-> Digits(p)]) = {HelloOf(p, {})}
      BY <3>3, HelloSet1
    <3> QED
      BY <3>2, <3>4, HelloField
  <2>3. HelloIs!Takes(HelloOf(p, {}), b, HelloOf(p, q))
    <3>1. CASE q = {}
      <4>1. b = <<>> /\ HelloOf(p, q) = HelloOf(p, {})
        BY <3>1 DEF Present
      <4> QED
        BY <4>1, HelloNone
    <3>2. ASSUME NEW x \in Seq(Nat) \ {<<>>}, q = {x}
          PROVE HelloIs!Takes(HelloOf(p, {}), b, HelloOf(p, q))
      <4>1. b = Bytes(2, x) /\ x \in Seq(Nat) /\ x # <<>>
        BY <3>2, OnlyOne DEF Present
      <4> HIDE DEF b
      <4>2. IsField({1}, {2}, b, 2, x)
        <5>1. 2 \in {2} \ {1}
          OBVIOUS
        <5> QED
          BY <1>2, <2>1, <4>1, <5>1, BytesSmall
      <4>3. HelloCase(HelloOf(p, {}), [no |-> 2, value |-> x]) = {HelloOf(p, {x})}
        BY HelloSet2
      <4> QED
        BY <3>2, <4>2, <4>3, HelloField
    <3> HIDE DEF b
    <3> QED
      BY <1>1, <3>1, <3>2 DEF AtMostOne
  <2> HIDE DEF a, b
  <2>4. HelloIs!Takes(HelloOf(0, {}), a \o b, HelloOf(p, q))
    BY <1>4, <1>5, <2>2, <2>3, HelloIs!TakesOn
  <2> QED
    BY <1>1, <1>3, <2>4, HelloCases
<1> QED
  BY <1>5, <1>6, HelloWhole

WatermarkReads(p, f) == Piece({1}, {}, p, f)
WatermarkIs == INSTANCE DecoderProofs
    WITH Fresh <- FreshWatermark, Case <- WatermarkCase, Reads <- WatermarkReads

LEMMA WatermarkField ==
  ASSUME NEW m, NEW to, NEW pieces, NEW no, NEW v,
         (pieces = <<>> /\ to = m) \/ IsField({1}, {}, pieces, no, v),
         WatermarkCase(m, [no |-> no, value |-> v]) = {to}
  PROVE  WatermarkIs!Takes(m, pieces, to)
<1>1. ASSUME IsField({1}, {}, pieces, no, v)
      PROVE  \E piece : pieces = <<piece>> /\ WatermarkIs!Step(m, piece, to)
  BY <1>1, Zenon DEF WatermarkIs!Step, WatermarkReads, IsField
<1> QED
  BY <1>1, WatermarkIs!TakesIf, Zenon

LEMMA WatermarkWhole ==
  ASSUME NEW pieces \in Seq(Seq(Nat)), NEW m, WatermarkIs!Takes(FreshWatermark, pieces, m)
  PROVE  DecodeWatermark(FlattenSeq(pieces)) = {m}
<1>1. PICK via : WatermarkIs!Leads(FreshWatermark, pieces, m, via)
  BY Zenon DEF WatermarkIs!Takes
<1>2. PICK S : \E fields \in Seq(S) : WatermarkIs!AreRead(pieces, fields, m, via)
  BY <1>1, LeastNumber, WatermarkIs!LoopTakes, Zenon
<1>3. PICK fields \in Seq(S) : WatermarkIs!AreRead(pieces, fields, m, via)
  BY <1>2
<1>4. ReadFields(FlattenSeq(pieces), {1}, {}) = {fields}
  <2>1. /\ Len(fields) = Len(pieces)
        /\ \A n \in 1 .. Len(pieces) : Piece({1}, {}, pieces[n], fields[n])
    BY <1>3, Zenon DEF WatermarkIs!AreRead, WatermarkReads
  <2> QED
    BY <2>1, ReadWhole
<1>5. WatermarkLoop!Merged(fields) = {m}
  BY <1>3, Zenon DEF WatermarkIs!AreRead, WatermarkIs!Merged, WatermarkLoop!Merged
<1>6. UNION {WatermarkLoop!Merged(f) : f \in {fields}} = WatermarkLoop!Merged(fields)
  OBVIOUS
<1> QED
  BY <1>4, <1>5, <1>6, Zenon DEF DecodeWatermark

LEMMA WatermarkTakes ==
  ASSUME NEW w \in U64
  PROVE  /\ EncodeWatermark(w) \in Seq(Seq(Nat))
         /\ Len(FlattenSeq(EncodeWatermark(w))) <= 20
         /\ WatermarkIs!Takes(FreshWatermark, EncodeWatermark(w), w)
<1>1. 1 \in FieldNumbers
  BY DEF FieldNumbers
<1> DEFINE a == UInt64(1, w)
<1>2. a \in Seq(Seq(Nat))
  BY <1>1, UInt64Field
<1>3. (a = <<>> /\ w = <<>>) \/ IsField({1}, {}, a, 1, w)
  BY <1>1, Written1
<1>4. Len(FlattenSeq(a)) <= 20
  <2>1. CASE w = <<>>
    <3>1. a = <<>> /\ Len(<<>>) = 0
      BY <2>1 DEF UInt64
    <3> HIDE DEF a
    <3> QED
      BY <3>1, FlatNone
  <2>2. CASE w # <<>>
    BY <1>1, <2>2, UInt64Field DEF UInt64
  <2> QED
    BY <2>1, <2>2
<1> HIDE DEF a
<1>5. (a = <<>> /\ w = FreshWatermark) \/ IsField({1}, {}, a, 1, w)
  BY <1>3 DEF FreshWatermark
<1>6. WatermarkCase(FreshWatermark, [no |-> 1, value |-> w]) = {w}
  BY DEF WatermarkCase
<1>7. WatermarkIs!Takes(FreshWatermark, a, w)
  BY <1>5, <1>6, WatermarkField
<1>8. EncodeWatermark(w) = a
  BY DEF EncodeWatermark, a
<1> QED
  BY <1>2, <1>4, <1>7, <1>8

\* A watermark arrives as it was sent.
LEMMA WatermarkBack ==
  ASSUME NEW w \in U64
  PROVE  /\ EncodeWatermark(w) \in Seq(Seq(Nat))
         /\ Len(FlattenSeq(EncodeWatermark(w))) <= 20
         /\ DecodeWatermark(FlattenSeq(EncodeWatermark(w))) = {w}
  BY WatermarkTakes, WatermarkWhole

StatsResponseReads(p, f) == Piece((1 .. 10) \ {7}, {7}, p, f)
StatsResponseIs == INSTANCE DecoderProofs
    WITH Fresh <- FreshStatsResponse, Case <- StatsResponseCase, Reads <- StatsResponseReads

LEMMA StatsResponseField ==
  ASSUME NEW m, NEW to, NEW pieces, NEW no, NEW v,
         (pieces = <<>> /\ to = m) \/ IsField((1 .. 10) \ {7}, {7}, pieces, no, v),
         StatsResponseCase(m, [no |-> no, value |-> v]) = {to}
  PROVE  StatsResponseIs!Takes(m, pieces, to)
<1>1. ASSUME IsField((1 .. 10) \ {7}, {7}, pieces, no, v)
      PROVE  \E piece : pieces = <<piece>> /\ StatsResponseIs!Step(m, piece, to)
  BY <1>1, Zenon DEF StatsResponseIs!Step, StatsResponseReads, IsField
<1> QED
  BY <1>1, StatsResponseIs!TakesIf, Zenon

LEMMA StatsResponseWhole ==
  ASSUME NEW pieces \in Seq(Seq(Nat)), NEW m, StatsResponseIs!Takes(FreshStatsResponse, pieces, m)
  PROVE  DecodeStatsResponse(FlattenSeq(pieces)) = {m}
<1>1. PICK via : StatsResponseIs!Leads(FreshStatsResponse, pieces, m, via)
  BY Zenon DEF StatsResponseIs!Takes
<1>2. PICK S : \E fields \in Seq(S) : StatsResponseIs!AreRead(pieces, fields, m, via)
  BY <1>1, LeastNumber, StatsResponseIs!LoopTakes, Zenon
<1>3. PICK fields \in Seq(S) : StatsResponseIs!AreRead(pieces, fields, m, via)
  BY <1>2
<1>4. ReadFields(FlattenSeq(pieces), (1 .. 10) \ {7}, {7}) = {fields}
  <2>1. /\ Len(fields) = Len(pieces)
        /\ \A n \in 1 .. Len(pieces) : Piece((1 .. 10) \ {7}, {7}, pieces[n], fields[n])
    BY <1>3, Zenon DEF StatsResponseIs!AreRead, StatsResponseReads
  <2> QED
    BY <2>1, ReadWhole
<1>5. StatsResponseLoop!Merged(fields) = {m}
  BY <1>3, Zenon DEF StatsResponseIs!AreRead, StatsResponseIs!Merged, StatsResponseLoop!Merged
<1>6. UNION {StatsResponseLoop!Merged(f) : f \in {fields}} = StatsResponseLoop!Merged(fields)
  OBVIOUS
<1> QED
  BY <1>4, <1>5, <1>6, Zenon DEF DecodeStatsResponse

\* What has been read of the stats after a number of their fields.
StatsUpTo(res, n) ==
  [name \in Range(StatsField) |->
     IF \E j \in 1 .. n : StatsField[j] = name THEN res[name] ELSE <<>>]

LEMMA StatsStep ==
  ASSUME NEW res \in StatsResponseType, NEW n \in 1 .. 10
  PROVE  /\ StatsResponseCase(StatsUpTo(res, n - 1), [no |-> n, value |-> res[StatsField[n]]])
              = {StatsUpTo(res, n)}
         /\ res[StatsField[n]] = <<>> => StatsUpTo(res, n) = StatsUpTo(res, n - 1)
<1> DEFINE D == Range(StatsField)
           name == StatsField[n]
           a == StatsUpTo(res, n - 1)
           b == StatsUpTo(res, n)
<1>1. name \in D
  BY StatsFields
<1>2. a = [x \in D |-> IF \E j \in 1 .. n - 1 : StatsField[j] = x THEN res[x] ELSE <<>>]
  BY DEF StatsUpTo
<1>3. b = [x \in D |-> IF \E j \in 1 .. n : StatsField[j] = x THEN res[x] ELSE <<>>]
  BY DEF StatsUpTo
<1>4. \A x \in D : x # name =>
        ((\E j \in 1 .. n : StatsField[j] = x) <=> (\E j \in 1 .. n - 1 : StatsField[j] = x))
  <2>1. \A j : j \in 1 .. n <=> (j \in 1 .. n - 1 \/ j = n)
    OBVIOUS
  <2> QED
    BY <2>1, Zenon
<1>5. b[name] = res[name]
  <2>1. n \in 1 .. n
    OBVIOUS
  <2> QED
    BY <1>1, <1>3, <2>1, Zenon
<1>6. \A x \in D : x # name => b[x] = a[x]
  BY <1>2, <1>3, <1>4
<1>7. a[name] = res[name] \/ a[name] = <<>>
  BY <1>1, <1>2
<1> HIDE DEF name, D, a, b
<1>8. [a EXCEPT ![name] = res[name]] = b
  <2>1. a = [x \in D |-> a[x]] /\ b = [x \in D |-> b[x]]
    BY <1>2, <1>3
  <2> QED
    BY <1>1, <1>5, <1>6, <2>1
<1>9. res[name] = <<>> => b = a
  <2>1. a = [x \in D |-> a[x]] /\ b = [x \in D |-> b[x]]
    BY <1>2, <1>3
  <2>2. ASSUME res[name] = <<>>, NEW x \in D PROVE b[x] = a[x]
    BY <1>5, <1>6, <1>7, <2>2
  <2> QED
    BY <2>1, <2>2
<1>10. StatsResponseCase(a, [no |-> n, value |-> res[name]]) = {[a EXCEPT ![name] = res[name]]}
  BY DEF StatsResponseCase, name
<1> QED
  BY <1>8, <1>9, <1>10 DEF name, a, b

\* The server's numbers arrive as they were sent.
LEMMA StatsResponseBack ==
  ASSUME NEW message \in StatsResponseType
  PROVE  /\ EncodeStatsResponse(message) \in Seq(Seq(Nat))
         /\ Small(EncodeStatsResponse(message)) =>
              DecodeStatsResponse(FlattenSeq(EncodeStatsResponse(message))) = {message}
<1>1. EncodeStatsResponse(message) = StatPieces(message, 10)
  BY Zenon DEF EncodeStatsResponse, StatPieces, StatPiece
<1>2. EncodeStatsResponse(message) \in Seq(Seq(Nat))
  BY <1>1, StatPiecesOn
<1>3. ASSUME Small(EncodeStatsResponse(message))
      PROVE  StatsResponseIs!Takes(FreshStatsResponse, EncodeStatsResponse(message), message)
  <2>1. \A n \in 0 .. 10 : Small(StatPieces(message, n))
    <3> DEFINE T == {n \in 0 .. 10 : ~Small(StatPieces(message, n))}
               Far == {k \in 0 .. 10 : 10 - k \in T}
    <3>1. SUFFICES ASSUME Far # {} PROVE FALSE
      <4>1. \A n \in T : 10 - n \in Far
        OBVIOUS
      <4> QED
        BY <3>1, <4>1
    <3>2. PICK k \in Far : \A x \in Far : k <= x
      <4>1. Far \subseteq Nat
        OBVIOUS
      <4> HIDE DEF Far
      <4> QED
        BY <3>1, <4>1, Least, Zenon
    <3> DEFINE n == 10 - k
    <3>3. n \in 0 .. 10 /\ ~Small(StatPieces(message, n)) /\ k \in 0 .. 10
      OBVIOUS
    <3>4. n # 10
      BY <1>1, <1>3, <3>3
    <3>5. n + 1 \in 1 .. 10 /\ n + 1 \in 0 .. 10 /\ (n + 1) - 1 = n
      BY <3>3, <3>4
    <3>6. Small(StatPieces(message, n + 1))
      <4>1. k - 1 \in 0 .. 10 /\ 10 - (k - 1) = n + 1 /\ ~(k <= k - 1)
        BY <3>3, <3>4
      <4>2. k - 1 \notin Far
        BY <3>2, <4>1
      <4> QED
        BY <3>5, <4>1, <4>2
    <3>7. StatPieces(message, n + 1) = StatPieces(message, n) \o StatPiece(message, n + 1)
      BY <3>5, StatPiecesOn
    <3>8. StatPieces(message, n) \in Seq(Seq(Nat)) /\ StatPiece(message, n + 1) \in Seq(Seq(Nat))
      BY <3>3, <3>5, StatPiecesOn, StatPieceType
    <3> QED
      BY <3>3, <3>6, <3>7, <3>8, LenOn
  <2>2. \A n \in 1 .. 10 : Small(StatPiece(message, n))
    <3>1. TAKE n \in 1 .. 10
    <3>2. n \in 0 .. 10 /\ n - 1 \in 0 .. 10
      OBVIOUS
    <3>3. StatPieces(message, n) = StatPieces(message, n - 1) \o StatPiece(message, n)
      BY StatPiecesOn
    <3>4. StatPieces(message, n - 1) \in Seq(Seq(Nat)) /\ StatPiece(message, n) \in Seq(Seq(Nat))
      BY <3>2, StatPiecesOn, StatPieceType
    <3>5. Small(StatPieces(message, n - 1) \o StatPiece(message, n))
      BY <2>1, <3>2, <3>3
    <3> QED
      BY <3>4, <3>5, LenOn
  <2> DEFINE h == [n \in 0 .. 10 |-> StatPieces(message, n)]
             t == [n \in 1 .. 10 |-> StatPiece(message, n)]
             g == [n \in 0 .. 10 |-> StatsUpTo(message, n)]
  <2>3. ASSUME NEW n \in 1 .. 10
        PROVE  StatsResponseIs!Takes(StatsUpTo(message, n - 1), StatPiece(message, n),
                                     StatsUpTo(message, n))
    <3> DEFINE v == message[StatsField[n]]
    <3>1. \/ StatPiece(message, n) = <<>> /\ v = <<>>
          \/ IsField((1 .. 10) \ {7}, {7}, StatPiece(message, n), n, v)
      BY <2>2, StatPieceType
    <3>2. /\ StatsResponseCase(StatsUpTo(message, n - 1), [no |-> n, value |-> v])
               = {StatsUpTo(message, n)}
          /\ v = <<>> => StatsUpTo(message, n) = StatsUpTo(message, n - 1)
      BY StatsStep
    <3> HIDE DEF v
    <3>3. \/ StatPiece(message, n) = <<>> /\ StatsUpTo(message, n) = StatsUpTo(message, n - 1)
          \/ IsField((1 .. 10) \ {7}, {7}, StatPiece(message, n), n, v)
      BY <3>1, <3>2
    <3> QED
      BY <3>2, <3>3, StatsResponseField
  <2>4. \A n \in 1 .. 10 :
          /\ n \in 0 .. 10 /\ n - 1 \in 0 .. 10
          /\ h[n - 1] = StatPieces(message, n - 1) /\ h[n] = StatPieces(message, n)
          /\ t[n] = StatPiece(message, n)
          /\ g[n - 1] = StatsUpTo(message, n - 1) /\ g[n] = StatsUpTo(message, n)
    OBVIOUS
  <2>5. h[0] = <<>> /\ h[10] = StatPieces(message, 10)
        /\ g[0] = StatsUpTo(message, 0) /\ g[10] = StatsUpTo(message, 10) /\ 10 \in Nat
    BY StatPiecesOn
  <2> HIDE DEF h, t, g
  <2>6. \A n \in 1 .. 10 :
          /\ h[n - 1] \in Seq(Seq(Nat)) /\ t[n] \in Seq(Seq(Nat)) /\ h[n] = h[n - 1] \o t[n]
          /\ StatsResponseIs!Takes(g[n - 1], t[n], g[n])
    <3>1. TAKE n \in 1 .. 10
    <3>2. /\ h[n - 1] = StatPieces(message, n - 1) /\ h[n] = StatPieces(message, n)
          /\ t[n] = StatPiece(message, n) /\ n - 1 \in 0 .. 10
          /\ g[n - 1] = StatsUpTo(message, n - 1) /\ g[n] = StatsUpTo(message, n)
      BY <2>4
    <3>3. h[n - 1] \in Seq(Seq(Nat)) /\ t[n] \in Seq(Seq(Nat)) /\ h[n] = h[n - 1] \o t[n]
      BY <3>2, StatPiecesOn, StatPieceType
    <3>4. StatsResponseIs!Takes(g[n - 1], t[n], g[n])
      BY <2>3, <3>2
    <3> QED
      BY <3>3, <3>4
  <2>7. StatsResponseIs!Takes(g[0], h[10], g[10])
    BY <2>5, <2>6, LeastNumber, StatsResponseIs!TakesEach, Zenon
  <2>8. StatsUpTo(message, 0) = FreshStatsResponse
    <3>1. \A name : ~(\E j \in 1 .. 0 : StatsField[j] = name)
      OBVIOUS
    <3> QED
      BY <3>1, Zenon DEF StatsUpTo, FreshStatsResponse
  <2>9. StatsUpTo(message, 10) = message
    <3>1. \A name \in Range(StatsField) : \E j \in 1 .. 10 : StatsField[j] = name
      BY StatsFields DEF Range
    <3>2. message = [name \in Range(StatsField) |-> message[name]]
      BY DEF StatsResponseType
    <3> QED
      BY <3>1, <3>2 DEF StatsUpTo
  <2> QED
    BY <1>1, <2>5, <2>7, <2>8, <2>9
<1> QED
  BY <1>2, <1>3, StatsResponseWhole

-----------------------------------------------------------------------------
(* Requests arrive as they were sent.                                      *)

RequestReads(p, f) == Piece({1}, (2 .. 7), p, f)
RequestIs ==
  INSTANCE DecoderProofs
    WITH Fresh <- FreshRequest, Case <- RequestCase, Reads <- RequestReads

RequestIn(p, q) == [requestId |-> p, kind |-> q]

LEMMA RequestSetId ==
  ASSUME NEW p, NEW q, NEW v
  PROVE  RequestCase(RequestIn(p, q), [no |-> 1, value |-> v]) = {RequestIn(v, q)}
  BY DEF RequestCase, RequestIn

LEMMA RequestSet2 ==
  ASSUME NEW p, NEW q, NEW v, NEW y, DecodeAppendRequest(v) = {y}
  PROVE  RequestCase(RequestIn(p, q), [no |-> 2, value |-> v]) = {RequestIn(p, Kind("append", y))}
  BY DEF RequestCase, RequestIn, Chosen

LEMMA RequestSet3 ==
  ASSUME NEW p, NEW q, NEW v, NEW y, DecodeReadRequest(v) = {y}
  PROVE  RequestCase(RequestIn(p, q), [no |-> 3, value |-> v]) = {RequestIn(p, Kind("read", y))}
  BY DEF RequestCase, RequestIn, Chosen

LEMMA RequestSet4 ==
  ASSUME NEW p, NEW q, NEW v, NEW y, DecodeSubscribeRequest(v) = {y}
  PROVE  RequestCase(RequestIn(p, q), [no |-> 4, value |-> v])
      = {RequestIn(p, Kind("subscribe", y))}
  BY DEF RequestCase, RequestIn, Chosen

LEMMA RequestSet5 ==
  ASSUME NEW p, NEW q, NEW v, NEW y, DecodeCancelRequest(v) = {y}
  PROVE  RequestCase(RequestIn(p, q), [no |-> 5, value |-> v]) = {RequestIn(p, Kind("cancel", y))}
  BY DEF RequestCase, RequestIn, Chosen

LEMMA RequestSet6 ==
  ASSUME NEW p, NEW q, NEW v
  PROVE  RequestCase(RequestIn(p, q), [no |-> 6, value |-> v])
      = {RequestIn(p, Kind("stats", Empty))}
  BY DEF RequestCase, RequestIn, Chosen

LEMMA RequestSet7 ==
  ASSUME NEW p, NEW q, NEW v, NEW y, DecodeHello(v) = {y}
  PROVE  RequestCase(RequestIn(p, q), [no |-> 7, value |-> v]) = {RequestIn(p, Kind("hello", y))}
  BY DEF RequestCase, RequestIn, Chosen

\* The pieces of a kind are one that sets it, or none.
RequestSets(p, kind) ==
  \/ RequestContent(kind) = <<>> /\ kind = NoKind
  \/ \E piece : /\ RequestContent(kind) = <<piece>>
                 /\ RequestIs!Step(RequestIn(p, NoKind), piece, RequestIn(p, kind))

LEMMA RequestStep ==
  ASSUME NEW p, NEW kind, NEW no, NEW v,
         IsField({1}, (2 .. 7), RequestContent(kind), no, v),
         RequestCase(RequestIn(p, NoKind), [no |-> no, value |-> v]) = {RequestIn(p, kind)}
  PROVE  RequestSets(p, kind)
<1>1. PICK piece : /\ RequestContent(kind) = <<piece>>
                   /\ Piece({1}, (2 .. 7), piece, [no |-> no, value |-> v])
  BY DEF IsField
<1>2. RequestIs!Step(RequestIn(p, NoKind), piece, RequestIn(p, kind))
  BY <1>1, Zenon DEF RequestIs!Step, RequestReads
<1> QED
  BY <1>1, <1>2, Zenon DEF RequestSets

LEMMA RequestContent2 ==
  ASSUME NEW p, NEW c \in AppendRequestType
  PROVE  LET kind == Kind("append", c)
         IN  /\ RequestContent(kind) \in Seq(Seq(Nat))
             /\ Small(RequestContent(kind)) => RequestSets(p, kind)
<1> DEFINE kind == Kind("append", c)
<1> DEFINE sub == EncodeAppendRequest(c)
<1>1. 2 \in FieldNumbers /\ 2 \in (2 .. 7) \ {1}
  BY DEF FieldNumbers
<1>2. RequestContent(kind) = Message(2, sub)
  <2>1. kind.kind = "append" /\ kind.content = c
    BY DEF Kind
  <2> HIDE DEF kind
  <2>3. RequestContent(kind) = Message(2, EncodeAppendRequest(kind.content))
    BY <2>1 DEF RequestContent
  <2> QED
    BY <2>1, <2>3
<1>3. sub \in Seq(Seq(Nat)) /\ (Small(sub) => DecodeAppendRequest(FlattenSeq(sub)) = {c})
  BY AppendRequestBack
<1> HIDE DEF kind, sub
<1>4. /\ Message(2, sub) \in Seq(Seq(Nat))
      /\ Small(Message(2, sub)) =>
           Small(sub) /\ IsField({1}, (2 .. 7), Message(2, sub), 2, FlattenSeq(sub))
  BY <1>1, <1>3, MessageField
<1>5. Small(sub) =>
        RequestCase(RequestIn(p, NoKind), [no |-> 2, value |-> FlattenSeq(sub)])
            = {RequestIn(p, kind)}
  <2>1. SUFFICES ASSUME Small(sub)
                 PROVE  RequestCase(RequestIn(p, NoKind), [no |-> 2, value |-> FlattenSeq(sub)])
                          = {RequestIn(p, Kind("append", c))}
    BY DEF kind
  <2>2. DecodeAppendRequest(FlattenSeq(sub)) = {c}
    BY <1>3, <2>1
  <2> QED
    BY <2>2, RequestSet2
<1>6. Small(RequestContent(kind)) => RequestSets(p, kind)
  <2>1. ASSUME Small(RequestContent(kind)) PROVE RequestSets(p, kind)
    <3>1. /\ IsField({1}, (2 .. 7), RequestContent(kind), 2, FlattenSeq(sub))
          /\ RequestCase(RequestIn(p, NoKind), [no |-> 2, value |-> FlattenSeq(sub)])
               = {RequestIn(p, kind)}
      BY <1>2, <1>4, <1>5, <2>1
    <3> QED
      BY <3>1, RequestStep
  <2> QED
    BY <2>1
<1> QED
  BY <1>2, <1>4, <1>6 DEF kind

LEMMA RequestContent3 ==
  ASSUME NEW p, NEW c \in ReadRequestType
  PROVE  LET kind == Kind("read", c)
         IN  /\ RequestContent(kind) \in Seq(Seq(Nat))
             /\ Small(RequestContent(kind)) => RequestSets(p, kind)
<1> DEFINE kind == Kind("read", c)
<1> DEFINE sub == EncodeReadRequest(c)
<1>1. 3 \in FieldNumbers /\ 3 \in (2 .. 7) \ {1}
  BY DEF FieldNumbers
<1>2. RequestContent(kind) = Message(3, sub)
  <2>1. kind.kind = "read" /\ kind.content = c
    BY DEF Kind
  <2> HIDE DEF kind
  <2>3. RequestContent(kind) = Message(3, EncodeReadRequest(kind.content))
    BY <2>1 DEF RequestContent
  <2> QED
    BY <2>1, <2>3
<1>3. sub \in Seq(Seq(Nat)) /\ (Small(sub) => DecodeReadRequest(FlattenSeq(sub)) = {c})
  BY ReadRequestBack
<1> HIDE DEF kind, sub
<1>4. /\ Message(3, sub) \in Seq(Seq(Nat))
      /\ Small(Message(3, sub)) =>
           Small(sub) /\ IsField({1}, (2 .. 7), Message(3, sub), 3, FlattenSeq(sub))
  BY <1>1, <1>3, MessageField
<1>5. Small(sub) =>
        RequestCase(RequestIn(p, NoKind), [no |-> 3, value |-> FlattenSeq(sub)])
            = {RequestIn(p, kind)}
  <2>1. SUFFICES ASSUME Small(sub)
                 PROVE  RequestCase(RequestIn(p, NoKind), [no |-> 3, value |-> FlattenSeq(sub)])
                          = {RequestIn(p, Kind("read", c))}
    BY DEF kind
  <2>2. DecodeReadRequest(FlattenSeq(sub)) = {c}
    BY <1>3, <2>1
  <2> QED
    BY <2>2, RequestSet3
<1>6. Small(RequestContent(kind)) => RequestSets(p, kind)
  <2>1. ASSUME Small(RequestContent(kind)) PROVE RequestSets(p, kind)
    <3>1. /\ IsField({1}, (2 .. 7), RequestContent(kind), 3, FlattenSeq(sub))
          /\ RequestCase(RequestIn(p, NoKind), [no |-> 3, value |-> FlattenSeq(sub)])
               = {RequestIn(p, kind)}
      BY <1>2, <1>4, <1>5, <2>1
    <3> QED
      BY <3>1, RequestStep
  <2> QED
    BY <2>1
<1> QED
  BY <1>2, <1>4, <1>6 DEF kind

LEMMA RequestContent4 ==
  ASSUME NEW p, NEW c \in SubscribeRequestType
  PROVE  LET kind == Kind("subscribe", c)
         IN  /\ RequestContent(kind) \in Seq(Seq(Nat))
             /\ Small(RequestContent(kind)) => RequestSets(p, kind)
<1> DEFINE kind == Kind("subscribe", c)
<1> DEFINE sub == EncodeSubscribeRequest(c)
<1>1. 4 \in FieldNumbers /\ 4 \in (2 .. 7) \ {1}
  BY DEF FieldNumbers
<1>2. RequestContent(kind) = Message(4, sub)
  <2>1. kind.kind = "subscribe" /\ kind.content = c
    BY DEF Kind
  <2> HIDE DEF kind
  <2>3. RequestContent(kind) = Message(4, EncodeSubscribeRequest(kind.content))
    BY <2>1 DEF RequestContent
  <2> QED
    BY <2>1, <2>3
<1>3. sub \in Seq(Seq(Nat)) /\ (Small(sub) => DecodeSubscribeRequest(FlattenSeq(sub)) = {c})
  BY SubscribeRequestBack
<1> HIDE DEF kind, sub
<1>4. /\ Message(4, sub) \in Seq(Seq(Nat))
      /\ Small(Message(4, sub)) =>
           Small(sub) /\ IsField({1}, (2 .. 7), Message(4, sub), 4, FlattenSeq(sub))
  BY <1>1, <1>3, MessageField
<1>5. Small(sub) =>
        RequestCase(RequestIn(p, NoKind), [no |-> 4, value |-> FlattenSeq(sub)])
            = {RequestIn(p, kind)}
  <2>1. SUFFICES ASSUME Small(sub)
                 PROVE  RequestCase(RequestIn(p, NoKind), [no |-> 4, value |-> FlattenSeq(sub)])
                          = {RequestIn(p, Kind("subscribe", c))}
    BY DEF kind
  <2>2. DecodeSubscribeRequest(FlattenSeq(sub)) = {c}
    BY <1>3, <2>1
  <2> QED
    BY <2>2, RequestSet4
<1>6. Small(RequestContent(kind)) => RequestSets(p, kind)
  <2>1. ASSUME Small(RequestContent(kind)) PROVE RequestSets(p, kind)
    <3>1. /\ IsField({1}, (2 .. 7), RequestContent(kind), 4, FlattenSeq(sub))
          /\ RequestCase(RequestIn(p, NoKind), [no |-> 4, value |-> FlattenSeq(sub)])
               = {RequestIn(p, kind)}
      BY <1>2, <1>4, <1>5, <2>1
    <3> QED
      BY <3>1, RequestStep
  <2> QED
    BY <2>1
<1> QED
  BY <1>2, <1>4, <1>6 DEF kind

LEMMA RequestContent5 ==
  ASSUME NEW p, NEW c \in CancelRequestType
  PROVE  LET kind == Kind("cancel", c)
         IN  /\ RequestContent(kind) \in Seq(Seq(Nat))
             /\ Small(RequestContent(kind)) => RequestSets(p, kind)
<1> DEFINE kind == Kind("cancel", c)
<1> DEFINE sub == EncodeCancelRequest(c)
<1>1. 5 \in FieldNumbers /\ 5 \in (2 .. 7) \ {1}
  BY DEF FieldNumbers
<1>2. RequestContent(kind) = Message(5, sub)
  <2>1. kind.kind = "cancel" /\ kind.content = c
    BY DEF Kind
  <2> HIDE DEF kind
  <2>3. RequestContent(kind) = Message(5, EncodeCancelRequest(kind.content))
    BY <2>1 DEF RequestContent
  <2> QED
    BY <2>1, <2>3
<1>3. sub \in Seq(Seq(Nat)) /\ (Small(sub) => DecodeCancelRequest(FlattenSeq(sub)) = {c})
  BY CancelRequestBack
<1> HIDE DEF kind, sub
<1>4. /\ Message(5, sub) \in Seq(Seq(Nat))
      /\ Small(Message(5, sub)) =>
           Small(sub) /\ IsField({1}, (2 .. 7), Message(5, sub), 5, FlattenSeq(sub))
  BY <1>1, <1>3, MessageField
<1>5. Small(sub) =>
        RequestCase(RequestIn(p, NoKind), [no |-> 5, value |-> FlattenSeq(sub)])
            = {RequestIn(p, kind)}
  <2>1. SUFFICES ASSUME Small(sub)
                 PROVE  RequestCase(RequestIn(p, NoKind), [no |-> 5, value |-> FlattenSeq(sub)])
                          = {RequestIn(p, Kind("cancel", c))}
    BY DEF kind
  <2>2. DecodeCancelRequest(FlattenSeq(sub)) = {c}
    BY <1>3, <2>1
  <2> QED
    BY <2>2, RequestSet5
<1>6. Small(RequestContent(kind)) => RequestSets(p, kind)
  <2>1. ASSUME Small(RequestContent(kind)) PROVE RequestSets(p, kind)
    <3>1. /\ IsField({1}, (2 .. 7), RequestContent(kind), 5, FlattenSeq(sub))
          /\ RequestCase(RequestIn(p, NoKind), [no |-> 5, value |-> FlattenSeq(sub)])
               = {RequestIn(p, kind)}
      BY <1>2, <1>4, <1>5, <2>1
    <3> QED
      BY <3>1, RequestStep
  <2> QED
    BY <2>1
<1> QED
  BY <1>2, <1>4, <1>6 DEF kind

LEMMA RequestContent6 ==
  ASSUME NEW p
  PROVE  LET kind == Kind("stats", Empty)
         IN  /\ RequestContent(kind) \in Seq(Seq(Nat))
             /\ Small(RequestContent(kind)) => RequestSets(p, kind)
<1> DEFINE kind == Kind("stats", Empty)
<1> DEFINE sub == <<>>
<1>1. 6 \in FieldNumbers /\ 6 \in (2 .. 7) \ {1}
  BY DEF FieldNumbers
<1>2. RequestContent(kind) = Message(6, sub)
  <2>1. kind.kind = "stats" /\ kind.content = Empty
    BY DEF Kind
  <2> HIDE DEF kind
  <2>3. RequestContent(kind) = Message(6, <<>>)
    BY <2>1 DEF RequestContent
  <2> QED
    BY <2>1, <2>3
<1>3. sub \in Seq(Seq(Nat))
  BY EmptySeq
<1> HIDE DEF kind, sub
<1>4. /\ Message(6, sub) \in Seq(Seq(Nat))
      /\ Small(Message(6, sub)) =>
           Small(sub) /\ IsField({1}, (2 .. 7), Message(6, sub), 6, FlattenSeq(sub))
  BY <1>1, <1>3, MessageField
<1>5. Small(sub) =>
        RequestCase(RequestIn(p, NoKind), [no |-> 6, value |-> FlattenSeq(sub)])
            = {RequestIn(p, kind)}
  BY RequestSet6 DEF kind
<1>6. Small(RequestContent(kind)) => RequestSets(p, kind)
  <2>1. ASSUME Small(RequestContent(kind)) PROVE RequestSets(p, kind)
    <3>1. /\ IsField({1}, (2 .. 7), RequestContent(kind), 6, FlattenSeq(sub))
          /\ RequestCase(RequestIn(p, NoKind), [no |-> 6, value |-> FlattenSeq(sub)])
               = {RequestIn(p, kind)}
      BY <1>2, <1>4, <1>5, <2>1
    <3> QED
      BY <3>1, RequestStep
  <2> QED
    BY <2>1
<1> QED
  BY <1>2, <1>4, <1>6 DEF kind

LEMMA RequestContent7 ==
  ASSUME NEW p, NEW c \in HelloType
  PROVE  LET kind == Kind("hello", c)
         IN  /\ RequestContent(kind) \in Seq(Seq(Nat))
             /\ Small(RequestContent(kind)) => RequestSets(p, kind)
<1> DEFINE kind == Kind("hello", c)
<1> DEFINE sub == EncodeHello(c)
<1>1. 7 \in FieldNumbers /\ 7 \in (2 .. 7) \ {1}
  BY DEF FieldNumbers
<1>2. RequestContent(kind) = Message(7, sub)
  <2>1. kind.kind = "hello" /\ kind.content = c
    BY DEF Kind
  <2> HIDE DEF kind
  <2>3. RequestContent(kind) = Message(7, EncodeHello(kind.content))
    BY <2>1 DEF RequestContent
  <2> QED
    BY <2>1, <2>3
<1>3. sub \in Seq(Seq(Nat)) /\ (Small(sub) => DecodeHello(FlattenSeq(sub)) = {c})
  BY HelloBack
<1> HIDE DEF kind, sub
<1>4. /\ Message(7, sub) \in Seq(Seq(Nat))
      /\ Small(Message(7, sub)) =>
           Small(sub) /\ IsField({1}, (2 .. 7), Message(7, sub), 7, FlattenSeq(sub))
  BY <1>1, <1>3, MessageField
<1>5. Small(sub) =>
        RequestCase(RequestIn(p, NoKind), [no |-> 7, value |-> FlattenSeq(sub)])
            = {RequestIn(p, kind)}
  <2>1. SUFFICES ASSUME Small(sub)
                 PROVE  RequestCase(RequestIn(p, NoKind), [no |-> 7, value |-> FlattenSeq(sub)])
                          = {RequestIn(p, Kind("hello", c))}
    BY DEF kind
  <2>2. DecodeHello(FlattenSeq(sub)) = {c}
    BY <1>3, <2>1
  <2> QED
    BY <2>2, RequestSet7
<1>6. Small(RequestContent(kind)) => RequestSets(p, kind)
  <2>1. ASSUME Small(RequestContent(kind)) PROVE RequestSets(p, kind)
    <3>1. /\ IsField({1}, (2 .. 7), RequestContent(kind), 7, FlattenSeq(sub))
          /\ RequestCase(RequestIn(p, NoKind), [no |-> 7, value |-> FlattenSeq(sub)])
               = {RequestIn(p, kind)}
      BY <1>2, <1>4, <1>5, <2>1
    <3> QED
      BY <3>1, RequestStep
  <2> QED
    BY <2>1
<1> QED
  BY <1>2, <1>4, <1>6 DEF kind

LEMMA RequestKindSets ==
  ASSUME NEW p, NEW kind \in RequestKinds
  PROVE  /\ RequestContent(kind) \in Seq(Seq(Nat))
         /\ Small(RequestContent(kind)) => RequestSets(p, kind)
<1>1. CASE kind \in {Kind("append", c) : c \in AppendRequestType}
  <2>1. PICK c \in AppendRequestType : kind = Kind("append", c)
    BY <1>1
  <2> QED
    BY <2>1, RequestContent2, Zenon
<1>2. CASE kind \in {Kind("read", c) : c \in ReadRequestType}
  <2>1. PICK c \in ReadRequestType : kind = Kind("read", c)
    BY <1>2
  <2> QED
    BY <2>1, RequestContent3, Zenon
<1>3. CASE kind \in {Kind("subscribe", c) : c \in SubscribeRequestType}
  <2>1. PICK c \in SubscribeRequestType : kind = Kind("subscribe", c)
    BY <1>3
  <2> QED
    BY <2>1, RequestContent4, Zenon
<1>4. CASE kind \in {Kind("cancel", c) : c \in CancelRequestType}
  <2>1. PICK c \in CancelRequestType : kind = Kind("cancel", c)
    BY <1>4
  <2> QED
    BY <2>1, RequestContent5, Zenon
<1>5. CASE kind = Kind("stats", Empty)
  BY <1>5, RequestContent6, Zenon
<1>6. CASE kind \in {Kind("hello", c) : c \in HelloType}
  <2>1. PICK c \in HelloType : kind = Kind("hello", c)
    BY <1>6
  <2> QED
    BY <2>1, RequestContent7, Zenon
<1>7. CASE kind = NoKind
  <2>1. kind.kind = "none"
    BY <1>7 DEF NoKind, Kind
  <2>2. RequestContent(kind) = <<>>
    BY <2>1 DEF RequestContent
  <2> QED
    BY <1>7, <2>2, EmptySeq DEF RequestSets
<1> QED
  BY <1>1, <1>2, <1>3, <1>4, <1>5, <1>6, <1>7 DEF RequestKinds

RequestVia(message) == {FreshRequest, RequestIn(message.requestId, NoKind), message}

\* The pieces of a Request lead to it: its id first, then its kind with all its content.
LEMMA RequestLeads ==
  ASSUME NEW message \in RequestType
  PROVE  /\ EncodeRequest(message) \in Seq(Seq(Nat))
         /\ EncodeRequest(message) = UInt64(1, message.requestId) \o RequestContent(message.kind)
         /\ Small(EncodeRequest(message)) =>
              RequestIs!Leads(FreshRequest, EncodeRequest(message), message, RequestVia(message))
<1> DEFINE id == message.requestId
           kind == message.kind
           a == UInt64(1, id)
           b == RequestContent(kind)
<1>1. id \in U64 /\ kind \in RequestKinds /\ message = RequestIn(id, kind)
  BY DEF RequestType, RequestIn
<1>2. EncodeRequest(message) = a \o b
  BY Zenon DEF EncodeRequest, RequestContent
<1>3. FreshRequest = RequestIn(<<>>, NoKind)
  BY DEF FreshRequest, RequestIn
<1>4. 1 \in FieldNumbers /\ 1 \in {1}
  BY DEF FieldNumbers
<1> HIDE DEF id, kind
<1>5. a \in Seq(Seq(Nat))
  BY <1>1, <1>4, UInt64Field
<1>6. b \in Seq(Seq(Nat)) /\ (Small(b) => RequestSets(id, kind))
  BY <1>1, RequestKindSets
<1>7. (a = <<>> /\ id = <<>>) \/ IsField({1}, (2 .. 7), a, 1, id)
  BY <1>1, <1>4, Written1
<1> HIDE DEF a
<1>8. \/ a = <<>> /\ RequestIn(id, NoKind) = RequestIn(<<>>, NoKind)
      \/ \E piece : a = <<piece>>
             /\ RequestIs!Step(RequestIn(<<>>, NoKind), piece, RequestIn(id, NoKind))
  <2>1. CASE IsField({1}, (2 .. 7), a, 1, id)
    <3>1. PICK piece : a = <<piece>> /\ Piece({1}, (2 .. 7), piece, [no |-> 1, value |-> id])
      BY <2>1 DEF IsField
    <3>2. RequestCase(RequestIn(<<>>, NoKind), [no |-> 1, value |-> id]) = {RequestIn(id, NoKind)}
      BY RequestSetId
    <3>3. RequestIs!Step(RequestIn(<<>>, NoKind), piece, RequestIn(id, NoKind))
      BY <3>1, <3>2, Zenon DEF RequestIs!Step, RequestReads
    <3> QED
      BY <3>1, <3>3, Zenon
  <2> QED
    BY <1>7, <2>1
<1>9. ASSUME Small(EncodeRequest(message))
      PROVE  RequestIs!Leads(RequestIn(<<>>, NoKind), a \o b, RequestIn(id, kind),
                        {RequestIn(<<>>, NoKind), RequestIn(id, NoKind), RequestIn(id, kind)})
  <2> HIDE DEF b
  <2>1. Small(b)
    BY <1>2, <1>5, <1>6, <1>9, LenOn
  <2>2. \/ b = <<>> /\ RequestIn(id, kind) = RequestIn(id, NoKind)
        \/ \E piece : b = <<piece>>
               /\ RequestIs!Step(RequestIn(id, NoKind), piece, RequestIn(id, kind))
    BY <1>6, <2>1 DEF RequestSets, b
  <2> QED
    BY <1>5, <1>6, <1>8, <2>2, RequestIs!LeadsTwo, Zenon
<1>10. a \o b \in Seq(Seq(Nat))
  <2> HIDE DEF b
  <2> QED
    BY <1>5, <1>6, LenOn
<1>11. ASSUME Small(EncodeRequest(message))
       PROVE  RequestIs!Leads(FreshRequest, EncodeRequest(message), message, RequestVia(message))
  <2> HIDE DEF b
  <2>1. RequestVia(message) = {RequestIn(<<>>, NoKind), RequestIn(id, NoKind), RequestIn(id, kind)}
    <3>1. RequestVia(message) = {FreshRequest, RequestIn(id, NoKind), message}
      BY DEF RequestVia, id
    <3> QED
      BY <1>1, <1>3, <3>1, Zenon
  <2> QED
    BY <1>1, <1>2, <1>3, <1>9, <1>11, <2>1, Zenon
<1> QED
  BY <1>2, <1>10, <1>11 DEF a, b, id, kind

LEMMA RequestWhole ==
  ASSUME NEW pieces \in Seq(Seq(Nat)), NEW m, NEW via, RequestIs!Leads(FreshRequest, pieces, m, via)
  PROVE  DecodeRequest(FlattenSeq(pieces)) = {m}
<1>2. PICK S : \E fields \in Seq(S) : RequestIs!AreRead(pieces, fields, m, via)
  BY LeastNumber, RequestIs!LoopTakes, Zenon
<1>3. PICK fields \in Seq(S) : RequestIs!AreRead(pieces, fields, m, via)
  BY <1>2
<1>4. ReadFields(FlattenSeq(pieces), {1}, (2 .. 7)) = {fields}
  <2>1. /\ Len(fields) = Len(pieces)
        /\ \A n \in 1 .. Len(pieces) : Piece({1}, (2 .. 7), pieces[n], fields[n])
    BY <1>3, Zenon DEF RequestIs!AreRead, RequestReads
  <2> QED
    BY <2>1, ReadWhole
<1>5. RequestLoop!Merged(fields) = {m}
  BY <1>3, Zenon DEF RequestIs!AreRead, RequestIs!Merged, RequestLoop!Merged
<1>6. UNION {RequestLoop!Merged(f) : f \in {fields}} = RequestLoop!Merged(fields)
  OBVIOUS
<1> QED
  BY <1>4, <1>5, <1>6, Zenon DEF DecodeRequest

-----------------------------------------------------------------------------
(* Responses arrive as they were sent.                                     *)

ResponseReads(p, f) == Piece({1}, (2 .. 8), p, f)
ResponseIs ==
  INSTANCE DecoderProofs
    WITH Fresh <- FreshResponse, Case <- ResponseCase, Reads <- ResponseReads

ResponseIn(p, q) == [requestId |-> p, kind |-> q]

LEMMA ResponseSetId ==
  ASSUME NEW p, NEW q, NEW v
  PROVE  ResponseCase(ResponseIn(p, q), [no |-> 1, value |-> v]) = {ResponseIn(v, q)}
  BY DEF ResponseCase, ResponseIn

LEMMA ResponseSet2 ==
  ASSUME NEW p, NEW q, NEW v, NEW y, DecodeAppendResponse(v) = {y}
  PROVE  ResponseCase(ResponseIn(p, q), [no |-> 2, value |-> v])
      = {ResponseIn(p, Kind("append", y))}
  BY DEF ResponseCase, ResponseIn, Chosen

LEMMA ResponseSet3 ==
  ASSUME NEW p, NEW q, NEW v, NEW y, DecodeReadEvents(v) = {y}
  PROVE  ResponseCase(ResponseIn(p, q), [no |-> 3, value |-> v])
      = {ResponseIn(p, Kind("readEvents", y))}
  BY DEF ResponseCase, ResponseIn, Chosen

LEMMA ResponseSet4 ==
  ASSUME NEW p, NEW q, NEW v, NEW y, Watermarks(v) = {y}
  PROVE  ResponseCase(ResponseIn(p, q), [no |-> 4, value |-> v])
      = {ResponseIn(p, Kind("readEnd", y))}
  BY DEF ResponseCase, ResponseIn, Chosen

LEMMA ResponseSet5 ==
  ASSUME NEW p, NEW q, NEW v, NEW y, DecodeErrorResponse(v) = {y}
  PROVE  ResponseCase(ResponseIn(p, q), [no |-> 5, value |-> v]) = {ResponseIn(p, Kind("error", y))}
  BY DEF ResponseCase, ResponseIn, Chosen

LEMMA ResponseSet6 ==
  ASSUME NEW p, NEW q, NEW v, NEW y, Watermarks(v) = {y}
  PROVE  ResponseCase(ResponseIn(p, q), [no |-> 6, value |-> v])
      = {ResponseIn(p, Kind("caughtUp", y))}
  BY DEF ResponseCase, ResponseIn, Chosen

LEMMA ResponseSet7 ==
  ASSUME NEW p, NEW q, NEW v, NEW y, DecodeStatsResponse(v) = {y}
  PROVE  ResponseCase(ResponseIn(p, q), [no |-> 7, value |-> v]) = {ResponseIn(p, Kind("stats", y))}
  BY DEF ResponseCase, ResponseIn, Chosen

LEMMA ResponseSet8 ==
  ASSUME NEW p, NEW q, NEW v, NEW y, DecodeHelloAck(v) = {y}
  PROVE  ResponseCase(ResponseIn(p, q), [no |-> 8, value |-> v])
      = {ResponseIn(p, Kind("helloAck", y))}
  BY DEF ResponseCase, ResponseIn, Chosen

\* The pieces of a kind are one that sets it, or none.
ResponseSets(p, kind) ==
  \/ ResponseContent(kind) = <<>> /\ kind = NoKind
  \/ \E piece : /\ ResponseContent(kind) = <<piece>>
                 /\ ResponseIs!Step(ResponseIn(p, NoKind), piece, ResponseIn(p, kind))

LEMMA ResponseStep ==
  ASSUME NEW p, NEW kind, NEW no, NEW v,
         IsField({1}, (2 .. 8), ResponseContent(kind), no, v),
         ResponseCase(ResponseIn(p, NoKind), [no |-> no, value |-> v]) = {ResponseIn(p, kind)}
  PROVE  ResponseSets(p, kind)
<1>1. PICK piece : /\ ResponseContent(kind) = <<piece>>
                   /\ Piece({1}, (2 .. 8), piece, [no |-> no, value |-> v])
  BY DEF IsField
<1>2. ResponseIs!Step(ResponseIn(p, NoKind), piece, ResponseIn(p, kind))
  BY <1>1, Zenon DEF ResponseIs!Step, ResponseReads
<1> QED
  BY <1>1, <1>2, Zenon DEF ResponseSets

LEMMA ResponseContent2 ==
  ASSUME NEW p, NEW c \in AppendResponseType
  PROVE  LET kind == Kind("append", c)
         IN  /\ ResponseContent(kind) \in Seq(Seq(Nat))
             /\ Small(ResponseContent(kind)) => ResponseSets(p, kind)
<1> DEFINE kind == Kind("append", c)
<1> DEFINE sub == EncodeAppendResponse(c)
<1>1. 2 \in FieldNumbers /\ 2 \in (2 .. 8) \ {1}
  BY DEF FieldNumbers
<1>2. ResponseContent(kind) = Message(2, sub)
  <2>1. kind.kind = "append" /\ kind.content = c
    BY DEF Kind
  <2> HIDE DEF kind
  <2>3. ResponseContent(kind) = Message(2, EncodeAppendResponse(kind.content))
    BY <2>1 DEF ResponseContent
  <2> QED
    BY <2>1, <2>3
<1>3. sub \in Seq(Seq(Nat)) /\ (Small(sub) => DecodeAppendResponse(FlattenSeq(sub)) = {c})
  BY AppendResponseBack
<1> HIDE DEF kind, sub
<1>4. /\ Message(2, sub) \in Seq(Seq(Nat))
      /\ Small(Message(2, sub)) =>
           Small(sub) /\ IsField({1}, (2 .. 8), Message(2, sub), 2, FlattenSeq(sub))
  BY <1>1, <1>3, MessageField
<1>5. Small(sub) =>
        ResponseCase(ResponseIn(p, NoKind), [no |-> 2, value |-> FlattenSeq(sub)])
            = {ResponseIn(p, kind)}
  <2>1. SUFFICES ASSUME Small(sub)
                 PROVE  ResponseCase(ResponseIn(p, NoKind), [no |-> 2, value |-> FlattenSeq(sub)])
                          = {ResponseIn(p, Kind("append", c))}
    BY DEF kind
  <2>2. DecodeAppendResponse(FlattenSeq(sub)) = {c}
    BY <1>3, <2>1
  <2> QED
    BY <2>2, ResponseSet2
<1>6. Small(ResponseContent(kind)) => ResponseSets(p, kind)
  <2>1. ASSUME Small(ResponseContent(kind)) PROVE ResponseSets(p, kind)
    <3>1. /\ IsField({1}, (2 .. 8), ResponseContent(kind), 2, FlattenSeq(sub))
          /\ ResponseCase(ResponseIn(p, NoKind), [no |-> 2, value |-> FlattenSeq(sub)])
               = {ResponseIn(p, kind)}
      BY <1>2, <1>4, <1>5, <2>1
    <3> QED
      BY <3>1, ResponseStep
  <2> QED
    BY <2>1
<1> QED
  BY <1>2, <1>4, <1>6 DEF kind

LEMMA ResponseContent3 ==
  ASSUME NEW p, NEW c \in ReadEventsType
  PROVE  LET kind == Kind("readEvents", c)
         IN  /\ ResponseContent(kind) \in Seq(Seq(Nat))
             /\ Small(ResponseContent(kind)) => ResponseSets(p, kind)
<1> DEFINE kind == Kind("readEvents", c)
<1> DEFINE sub == EncodeReadEvents(c)
<1>1. 3 \in FieldNumbers /\ 3 \in (2 .. 8) \ {1}
  BY DEF FieldNumbers
<1>2. ResponseContent(kind) = Message(3, sub)
  <2>1. kind.kind = "readEvents" /\ kind.content = c
    BY DEF Kind
  <2> HIDE DEF kind
  <2>3. ResponseContent(kind) = Message(3, EncodeReadEvents(kind.content))
    BY <2>1 DEF ResponseContent
  <2> QED
    BY <2>1, <2>3
<1>3. sub \in Seq(Seq(Nat)) /\ (Small(sub) => DecodeReadEvents(FlattenSeq(sub)) = {c})
  BY ReadEventsBack
<1> HIDE DEF kind, sub
<1>4. /\ Message(3, sub) \in Seq(Seq(Nat))
      /\ Small(Message(3, sub)) =>
           Small(sub) /\ IsField({1}, (2 .. 8), Message(3, sub), 3, FlattenSeq(sub))
  BY <1>1, <1>3, MessageField
<1>5. Small(sub) =>
        ResponseCase(ResponseIn(p, NoKind), [no |-> 3, value |-> FlattenSeq(sub)])
            = {ResponseIn(p, kind)}
  <2>1. SUFFICES ASSUME Small(sub)
                 PROVE  ResponseCase(ResponseIn(p, NoKind), [no |-> 3, value |-> FlattenSeq(sub)])
                          = {ResponseIn(p, Kind("readEvents", c))}
    BY DEF kind
  <2>2. DecodeReadEvents(FlattenSeq(sub)) = {c}
    BY <1>3, <2>1
  <2> QED
    BY <2>2, ResponseSet3
<1>6. Small(ResponseContent(kind)) => ResponseSets(p, kind)
  <2>1. ASSUME Small(ResponseContent(kind)) PROVE ResponseSets(p, kind)
    <3>1. /\ IsField({1}, (2 .. 8), ResponseContent(kind), 3, FlattenSeq(sub))
          /\ ResponseCase(ResponseIn(p, NoKind), [no |-> 3, value |-> FlattenSeq(sub)])
               = {ResponseIn(p, kind)}
      BY <1>2, <1>4, <1>5, <2>1
    <3> QED
      BY <3>1, ResponseStep
  <2> QED
    BY <2>1
<1> QED
  BY <1>2, <1>4, <1>6 DEF kind

LEMMA ResponseContent4 ==
  ASSUME NEW p, NEW w \in U64
  PROVE  LET kind == Kind("readEnd", [watermark |-> w])
         IN  /\ ResponseContent(kind) \in Seq(Seq(Nat))
             /\ Small(ResponseContent(kind)) => ResponseSets(p, kind)
<1> DEFINE kind == Kind("readEnd", [watermark |-> w])
<1> DEFINE sub == EncodeWatermark(w)
<1>1. 4 \in FieldNumbers /\ 4 \in (2 .. 8) \ {1}
  BY DEF FieldNumbers
<1>2. ResponseContent(kind) = Message(4, sub)
  <2>1. kind.kind = "readEnd" /\ kind.content = [watermark |-> w]
    BY DEF Kind
  <2>2. kind.content.watermark = w
    BY <2>1
  <2> HIDE DEF kind
  <2>3. ResponseContent(kind) = Message(4, EncodeWatermark(kind.content.watermark))
    BY <2>1 DEF ResponseContent
  <2> QED
    BY <2>1, <2>3, <2>2
<1>3. sub \in Seq(Seq(Nat)) /\ DecodeWatermark(FlattenSeq(sub)) = {w}
  BY WatermarkBack
<1>7. Watermarks(FlattenSeq(sub)) = {[watermark |-> w]}
  BY <1>3 DEF Watermarks
<1> HIDE DEF kind, sub
<1>4. /\ Message(4, sub) \in Seq(Seq(Nat))
      /\ Small(Message(4, sub)) =>
           Small(sub) /\ IsField({1}, (2 .. 8), Message(4, sub), 4, FlattenSeq(sub))
  BY <1>1, <1>3, MessageField
<1>5. Small(sub) =>
        ResponseCase(ResponseIn(p, NoKind), [no |-> 4, value |-> FlattenSeq(sub)])
            = {ResponseIn(p, kind)}
  <2>1. ResponseCase(ResponseIn(p, NoKind), [no |-> 4, value |-> FlattenSeq(sub)])
          = {ResponseIn(p, Kind("readEnd", [watermark |-> w]))}
    BY <1>7, ResponseSet4
  <2> QED
    BY <2>1 DEF kind
<1>6. Small(ResponseContent(kind)) => ResponseSets(p, kind)
  <2>1. ASSUME Small(ResponseContent(kind)) PROVE ResponseSets(p, kind)
    <3>1. /\ IsField({1}, (2 .. 8), ResponseContent(kind), 4, FlattenSeq(sub))
          /\ ResponseCase(ResponseIn(p, NoKind), [no |-> 4, value |-> FlattenSeq(sub)])
               = {ResponseIn(p, kind)}
      BY <1>2, <1>4, <1>5, <2>1
    <3> QED
      BY <3>1, ResponseStep
  <2> QED
    BY <2>1
<1> QED
  BY <1>2, <1>4, <1>6 DEF kind

LEMMA ResponseContent5 ==
  ASSUME NEW p, NEW c \in ErrorResponseType
  PROVE  LET kind == Kind("error", c)
         IN  /\ ResponseContent(kind) \in Seq(Seq(Nat))
             /\ Small(ResponseContent(kind)) => ResponseSets(p, kind)
<1> DEFINE kind == Kind("error", c)
<1> DEFINE sub == EncodeErrorResponse(c)
<1>1. 5 \in FieldNumbers /\ 5 \in (2 .. 8) \ {1}
  BY DEF FieldNumbers
<1>2. ResponseContent(kind) = Message(5, sub)
  <2>1. kind.kind = "error" /\ kind.content = c
    BY DEF Kind
  <2> HIDE DEF kind
  <2>3. ResponseContent(kind) = Message(5, EncodeErrorResponse(kind.content))
    BY <2>1 DEF ResponseContent
  <2> QED
    BY <2>1, <2>3
<1>3. sub \in Seq(Seq(Nat)) /\ (Small(sub) => DecodeErrorResponse(FlattenSeq(sub)) = {c})
  BY ErrorResponseBack
<1> HIDE DEF kind, sub
<1>4. /\ Message(5, sub) \in Seq(Seq(Nat))
      /\ Small(Message(5, sub)) =>
           Small(sub) /\ IsField({1}, (2 .. 8), Message(5, sub), 5, FlattenSeq(sub))
  BY <1>1, <1>3, MessageField
<1>5. Small(sub) =>
        ResponseCase(ResponseIn(p, NoKind), [no |-> 5, value |-> FlattenSeq(sub)])
            = {ResponseIn(p, kind)}
  <2>1. SUFFICES ASSUME Small(sub)
                 PROVE  ResponseCase(ResponseIn(p, NoKind), [no |-> 5, value |-> FlattenSeq(sub)])
                          = {ResponseIn(p, Kind("error", c))}
    BY DEF kind
  <2>2. DecodeErrorResponse(FlattenSeq(sub)) = {c}
    BY <1>3, <2>1
  <2> QED
    BY <2>2, ResponseSet5
<1>6. Small(ResponseContent(kind)) => ResponseSets(p, kind)
  <2>1. ASSUME Small(ResponseContent(kind)) PROVE ResponseSets(p, kind)
    <3>1. /\ IsField({1}, (2 .. 8), ResponseContent(kind), 5, FlattenSeq(sub))
          /\ ResponseCase(ResponseIn(p, NoKind), [no |-> 5, value |-> FlattenSeq(sub)])
               = {ResponseIn(p, kind)}
      BY <1>2, <1>4, <1>5, <2>1
    <3> QED
      BY <3>1, ResponseStep
  <2> QED
    BY <2>1
<1> QED
  BY <1>2, <1>4, <1>6 DEF kind

LEMMA ResponseContent6 ==
  ASSUME NEW p, NEW w \in U64
  PROVE  LET kind == Kind("caughtUp", [watermark |-> w])
         IN  /\ ResponseContent(kind) \in Seq(Seq(Nat))
             /\ Small(ResponseContent(kind)) => ResponseSets(p, kind)
<1> DEFINE kind == Kind("caughtUp", [watermark |-> w])
<1> DEFINE sub == EncodeWatermark(w)
<1>1. 6 \in FieldNumbers /\ 6 \in (2 .. 8) \ {1}
  BY DEF FieldNumbers
<1>2. ResponseContent(kind) = Message(6, sub)
  <2>1. kind.kind = "caughtUp" /\ kind.content = [watermark |-> w]
    BY DEF Kind
  <2>2. kind.content.watermark = w
    BY <2>1
  <2> HIDE DEF kind
  <2>3. ResponseContent(kind) = Message(6, EncodeWatermark(kind.content.watermark))
    BY <2>1 DEF ResponseContent
  <2> QED
    BY <2>1, <2>3, <2>2
<1>3. sub \in Seq(Seq(Nat)) /\ DecodeWatermark(FlattenSeq(sub)) = {w}
  BY WatermarkBack
<1>7. Watermarks(FlattenSeq(sub)) = {[watermark |-> w]}
  BY <1>3 DEF Watermarks
<1> HIDE DEF kind, sub
<1>4. /\ Message(6, sub) \in Seq(Seq(Nat))
      /\ Small(Message(6, sub)) =>
           Small(sub) /\ IsField({1}, (2 .. 8), Message(6, sub), 6, FlattenSeq(sub))
  BY <1>1, <1>3, MessageField
<1>5. Small(sub) =>
        ResponseCase(ResponseIn(p, NoKind), [no |-> 6, value |-> FlattenSeq(sub)])
            = {ResponseIn(p, kind)}
  <2>1. ResponseCase(ResponseIn(p, NoKind), [no |-> 6, value |-> FlattenSeq(sub)])
          = {ResponseIn(p, Kind("caughtUp", [watermark |-> w]))}
    BY <1>7, ResponseSet6
  <2> QED
    BY <2>1 DEF kind
<1>6. Small(ResponseContent(kind)) => ResponseSets(p, kind)
  <2>1. ASSUME Small(ResponseContent(kind)) PROVE ResponseSets(p, kind)
    <3>1. /\ IsField({1}, (2 .. 8), ResponseContent(kind), 6, FlattenSeq(sub))
          /\ ResponseCase(ResponseIn(p, NoKind), [no |-> 6, value |-> FlattenSeq(sub)])
               = {ResponseIn(p, kind)}
      BY <1>2, <1>4, <1>5, <2>1
    <3> QED
      BY <3>1, ResponseStep
  <2> QED
    BY <2>1
<1> QED
  BY <1>2, <1>4, <1>6 DEF kind

LEMMA ResponseContent7 ==
  ASSUME NEW p, NEW c \in StatsResponseType
  PROVE  LET kind == Kind("stats", c)
         IN  /\ ResponseContent(kind) \in Seq(Seq(Nat))
             /\ Small(ResponseContent(kind)) => ResponseSets(p, kind)
<1> DEFINE kind == Kind("stats", c)
<1> DEFINE sub == EncodeStatsResponse(c)
<1>1. 7 \in FieldNumbers /\ 7 \in (2 .. 8) \ {1}
  BY DEF FieldNumbers
<1>2. ResponseContent(kind) = Message(7, sub)
  <2>1. kind.kind = "stats" /\ kind.content = c
    BY DEF Kind
  <2> HIDE DEF kind
  <2>3. ResponseContent(kind) = Message(7, EncodeStatsResponse(kind.content))
    BY <2>1 DEF ResponseContent
  <2> QED
    BY <2>1, <2>3
<1>3. sub \in Seq(Seq(Nat)) /\ (Small(sub) => DecodeStatsResponse(FlattenSeq(sub)) = {c})
  BY StatsResponseBack
<1> HIDE DEF kind, sub
<1>4. /\ Message(7, sub) \in Seq(Seq(Nat))
      /\ Small(Message(7, sub)) =>
           Small(sub) /\ IsField({1}, (2 .. 8), Message(7, sub), 7, FlattenSeq(sub))
  BY <1>1, <1>3, MessageField
<1>5. Small(sub) =>
        ResponseCase(ResponseIn(p, NoKind), [no |-> 7, value |-> FlattenSeq(sub)])
            = {ResponseIn(p, kind)}
  <2>1. SUFFICES ASSUME Small(sub)
                 PROVE  ResponseCase(ResponseIn(p, NoKind), [no |-> 7, value |-> FlattenSeq(sub)])
                          = {ResponseIn(p, Kind("stats", c))}
    BY DEF kind
  <2>2. DecodeStatsResponse(FlattenSeq(sub)) = {c}
    BY <1>3, <2>1
  <2> QED
    BY <2>2, ResponseSet7
<1>6. Small(ResponseContent(kind)) => ResponseSets(p, kind)
  <2>1. ASSUME Small(ResponseContent(kind)) PROVE ResponseSets(p, kind)
    <3>1. /\ IsField({1}, (2 .. 8), ResponseContent(kind), 7, FlattenSeq(sub))
          /\ ResponseCase(ResponseIn(p, NoKind), [no |-> 7, value |-> FlattenSeq(sub)])
               = {ResponseIn(p, kind)}
      BY <1>2, <1>4, <1>5, <2>1
    <3> QED
      BY <3>1, ResponseStep
  <2> QED
    BY <2>1
<1> QED
  BY <1>2, <1>4, <1>6 DEF kind

LEMMA ResponseContent8 ==
  ASSUME NEW p, NEW c \in HelloAckType
  PROVE  LET kind == Kind("helloAck", c)
         IN  /\ ResponseContent(kind) \in Seq(Seq(Nat))
             /\ Small(ResponseContent(kind)) => ResponseSets(p, kind)
<1> DEFINE kind == Kind("helloAck", c)
<1> DEFINE sub == EncodeHelloAck(c)
<1>1. 8 \in FieldNumbers /\ 8 \in (2 .. 8) \ {1}
  BY DEF FieldNumbers
<1>2. ResponseContent(kind) = Message(8, sub)
  <2>1. kind.kind = "helloAck" /\ kind.content = c
    BY DEF Kind
  <2> HIDE DEF kind
  <2>3. ResponseContent(kind) = Message(8, EncodeHelloAck(kind.content))
    BY <2>1 DEF ResponseContent
  <2> QED
    BY <2>1, <2>3
<1>3. sub \in Seq(Seq(Nat)) /\ (Small(sub) => DecodeHelloAck(FlattenSeq(sub)) = {c})
  BY HelloAckBack
<1> HIDE DEF kind, sub
<1>4. /\ Message(8, sub) \in Seq(Seq(Nat))
      /\ Small(Message(8, sub)) =>
           Small(sub) /\ IsField({1}, (2 .. 8), Message(8, sub), 8, FlattenSeq(sub))
  BY <1>1, <1>3, MessageField
<1>5. Small(sub) =>
        ResponseCase(ResponseIn(p, NoKind), [no |-> 8, value |-> FlattenSeq(sub)])
            = {ResponseIn(p, kind)}
  <2>1. SUFFICES ASSUME Small(sub)
                 PROVE  ResponseCase(ResponseIn(p, NoKind), [no |-> 8, value |-> FlattenSeq(sub)])
                          = {ResponseIn(p, Kind("helloAck", c))}
    BY DEF kind
  <2>2. DecodeHelloAck(FlattenSeq(sub)) = {c}
    BY <1>3, <2>1
  <2> QED
    BY <2>2, ResponseSet8
<1>6. Small(ResponseContent(kind)) => ResponseSets(p, kind)
  <2>1. ASSUME Small(ResponseContent(kind)) PROVE ResponseSets(p, kind)
    <3>1. /\ IsField({1}, (2 .. 8), ResponseContent(kind), 8, FlattenSeq(sub))
          /\ ResponseCase(ResponseIn(p, NoKind), [no |-> 8, value |-> FlattenSeq(sub)])
               = {ResponseIn(p, kind)}
      BY <1>2, <1>4, <1>5, <2>1
    <3> QED
      BY <3>1, ResponseStep
  <2> QED
    BY <2>1
<1> QED
  BY <1>2, <1>4, <1>6 DEF kind

LEMMA ResponseKindSets ==
  ASSUME NEW p, NEW kind \in ResponseKinds
  PROVE  /\ ResponseContent(kind) \in Seq(Seq(Nat))
         /\ Small(ResponseContent(kind)) => ResponseSets(p, kind)
<1>1. CASE kind \in {Kind("append", c) : c \in AppendResponseType}
  <2>1. PICK c \in AppendResponseType : kind = Kind("append", c)
    BY <1>1
  <2> QED
    BY <2>1, ResponseContent2, Zenon
<1>2. CASE kind \in {Kind("readEvents", c) : c \in ReadEventsType}
  <2>1. PICK c \in ReadEventsType : kind = Kind("readEvents", c)
    BY <1>2
  <2> QED
    BY <2>1, ResponseContent3, Zenon
<1>3. CASE kind \in {Kind("readEnd", [watermark |-> w]) : w \in U64}
  <2>1. PICK w \in U64 : kind = Kind("readEnd", [watermark |-> w])
    BY <1>3
  <2> QED
    BY <2>1, ResponseContent4, Zenon
<1>4. CASE kind \in {Kind("error", c) : c \in ErrorResponseType}
  <2>1. PICK c \in ErrorResponseType : kind = Kind("error", c)
    BY <1>4
  <2> QED
    BY <2>1, ResponseContent5, Zenon
<1>5. CASE kind \in {Kind("caughtUp", [watermark |-> w]) : w \in U64}
  <2>1. PICK w \in U64 : kind = Kind("caughtUp", [watermark |-> w])
    BY <1>5
  <2> QED
    BY <2>1, ResponseContent6, Zenon
<1>6. CASE kind \in {Kind("stats", c) : c \in StatsResponseType}
  <2>1. PICK c \in StatsResponseType : kind = Kind("stats", c)
    BY <1>6
  <2> QED
    BY <2>1, ResponseContent7, Zenon
<1>7. CASE kind \in {Kind("helloAck", c) : c \in HelloAckType}
  <2>1. PICK c \in HelloAckType : kind = Kind("helloAck", c)
    BY <1>7
  <2> QED
    BY <2>1, ResponseContent8, Zenon
<1>8. CASE kind = NoKind
  <2>1. kind.kind = "none"
    BY <1>8 DEF NoKind, Kind
  <2>2. ResponseContent(kind) = <<>>
    BY <2>1 DEF ResponseContent
  <2> QED
    BY <1>8, <2>2, EmptySeq DEF ResponseSets
<1> QED
  BY <1>1, <1>2, <1>3, <1>4, <1>5, <1>6, <1>7, <1>8 DEF ResponseKinds

ResponseVia(message) == {FreshResponse, ResponseIn(message.requestId, NoKind), message}

\* The pieces of a Response lead to it: its id first, then its kind with all its content.
LEMMA ResponseLeads ==
  ASSUME NEW message \in ResponseType
  PROVE  /\ EncodeResponse(message) \in Seq(Seq(Nat))
         /\ EncodeResponse(message) = UInt64(1, message.requestId) \o ResponseContent(message.kind)
         /\ Small(EncodeResponse(message)) =>
              ResponseIs!Leads(FreshResponse, EncodeResponse(message), message,
                  ResponseVia(message))
<1> DEFINE id == message.requestId
           kind == message.kind
           a == UInt64(1, id)
           b == ResponseContent(kind)
<1>1. id \in U64 /\ kind \in ResponseKinds /\ message = ResponseIn(id, kind)
  BY DEF ResponseType, ResponseIn
<1>2. EncodeResponse(message) = a \o b
  BY Zenon DEF EncodeResponse, ResponseContent
<1>3. FreshResponse = ResponseIn(<<>>, NoKind)
  BY DEF FreshResponse, ResponseIn
<1>4. 1 \in FieldNumbers /\ 1 \in {1}
  BY DEF FieldNumbers
<1> HIDE DEF id, kind
<1>5. a \in Seq(Seq(Nat))
  BY <1>1, <1>4, UInt64Field
<1>6. b \in Seq(Seq(Nat)) /\ (Small(b) => ResponseSets(id, kind))
  BY <1>1, ResponseKindSets
<1>7. (a = <<>> /\ id = <<>>) \/ IsField({1}, (2 .. 8), a, 1, id)
  BY <1>1, <1>4, Written1
<1> HIDE DEF a
<1>8. \/ a = <<>> /\ ResponseIn(id, NoKind) = ResponseIn(<<>>, NoKind)
      \/ \E piece : a = <<piece>>
             /\ ResponseIs!Step(ResponseIn(<<>>, NoKind), piece, ResponseIn(id, NoKind))
  <2>1. CASE IsField({1}, (2 .. 8), a, 1, id)
    <3>1. PICK piece : a = <<piece>> /\ Piece({1}, (2 .. 8), piece, [no |-> 1, value |-> id])
      BY <2>1 DEF IsField
    <3>2. ResponseCase(ResponseIn(<<>>, NoKind), [no |-> 1, value |-> id])
          = {ResponseIn(id, NoKind)}
      BY ResponseSetId
    <3>3. ResponseIs!Step(ResponseIn(<<>>, NoKind), piece, ResponseIn(id, NoKind))
      BY <3>1, <3>2, Zenon DEF ResponseIs!Step, ResponseReads
    <3> QED
      BY <3>1, <3>3, Zenon
  <2> QED
    BY <1>7, <2>1
<1>9. ASSUME Small(EncodeResponse(message))
      PROVE  ResponseIs!Leads(ResponseIn(<<>>, NoKind), a \o b, ResponseIn(id, kind),
                        {ResponseIn(<<>>, NoKind), ResponseIn(id, NoKind), ResponseIn(id, kind)})
  <2> HIDE DEF b
  <2>1. Small(b)
    BY <1>2, <1>5, <1>6, <1>9, LenOn
  <2>2. \/ b = <<>> /\ ResponseIn(id, kind) = ResponseIn(id, NoKind)
        \/ \E piece : b = <<piece>>
               /\ ResponseIs!Step(ResponseIn(id, NoKind), piece, ResponseIn(id, kind))
    BY <1>6, <2>1 DEF ResponseSets, b
  <2> QED
    BY <1>5, <1>6, <1>8, <2>2, ResponseIs!LeadsTwo, Zenon
<1>10. a \o b \in Seq(Seq(Nat))
  <2> HIDE DEF b
  <2> QED
    BY <1>5, <1>6, LenOn
<1>11. ASSUME Small(EncodeResponse(message))
       PROVE  ResponseIs!Leads(FreshResponse, EncodeResponse(message), message,
           ResponseVia(message))
  <2> HIDE DEF b
  <2>1. ResponseVia(message)
        = {ResponseIn(<<>>, NoKind), ResponseIn(id, NoKind), ResponseIn(id, kind)}
    <3>1. ResponseVia(message) = {FreshResponse, ResponseIn(id, NoKind), message}
      BY DEF ResponseVia, id
    <3> QED
      BY <1>1, <1>3, <3>1, Zenon
  <2> QED
    BY <1>1, <1>2, <1>3, <1>9, <1>11, <2>1, Zenon
<1> QED
  BY <1>2, <1>10, <1>11 DEF a, b, id, kind

LEMMA ResponseWhole ==
  ASSUME NEW pieces \in Seq(Seq(Nat)), NEW m, NEW via,
      ResponseIs!Leads(FreshResponse, pieces, m, via)
  PROVE  DecodeResponse(FlattenSeq(pieces)) = {m}
<1>2. PICK S : \E fields \in Seq(S) : ResponseIs!AreRead(pieces, fields, m, via)
  BY LeastNumber, ResponseIs!LoopTakes, Zenon
<1>3. PICK fields \in Seq(S) : ResponseIs!AreRead(pieces, fields, m, via)
  BY <1>2
<1>4. ReadFields(FlattenSeq(pieces), {1}, (2 .. 8)) = {fields}
  <2>1. /\ Len(fields) = Len(pieces)
        /\ \A n \in 1 .. Len(pieces) : Piece({1}, (2 .. 8), pieces[n], fields[n])
    BY <1>3, Zenon DEF ResponseIs!AreRead, ResponseReads
  <2> QED
    BY <2>1, ReadWhole
<1>5. ResponseLoop!Merged(fields) = {m}
  BY <1>3, Zenon DEF ResponseIs!AreRead, ResponseIs!Merged, ResponseLoop!Merged
<1>6. UNION {ResponseLoop!Merged(f) : f \in {fields}} = ResponseLoop!Merged(fields)
  OBVIOUS
<1> QED
  BY <1>4, <1>5, <1>6, Zenon DEF DecodeResponse

-----------------------------------------------------------------------------
(* What either side makes of whole bodies, of bodies of a newer protocol   *)
(* and of bodies cut short.                                                *)

\* A response of fewer than 2^28 bytes arrives as it was sent, of whatever kind it is and
\* whatever it holds: every number of 64 bits, every string, and every optional field,
\* absent and zero apart (encodeResponse and decodeResponse of messages.ts).
THEOREM ResponseBack ==
  ASSUME NEW message \in ResponseType, Small(EncodeResponse(message))
  PROVE  DecodeResponse(FlattenSeq(EncodeResponse(message))) = {message}
BY ResponseLeads, ResponseWhole

\* A piece that is read as a field of a number the decoder does not know.
LEMMA ResponsePast ==
  ASSUME NEW x, NEW new, NEW f, Piece({1}, (2 .. 8), new, f), f.no \notin {1} \cup (2 .. 8)
  PROVE  ResponseIs!Step(x, new, x)
<1>1. ResponseCase(x, f) = {x}
  <2>2. f.no # 1 /\ f.no # 2 /\ f.no # 3 /\ f.no # 4 /\ f.no # 5 /\ f.no # 6 /\ f.no # 7 /\ f.no # 8
    OBVIOUS
  <2> QED
    BY <2>2 DEF ResponseCase
<1> QED
  BY <1>1, Zenon DEF ResponseIs!Step, ResponseReads

\* A field of a newer protocol changes nothing, wherever it stands in a response.
THEOREM ResponseNewer ==
  ASSUME NEW message \in ResponseType, Small(EncodeResponse(message)),
         NEW new \in Seq(Nat), NEW f, Piece({1}, (2 .. 8), new, f), f.no \notin {1} \cup (2 .. 8),
         NEW i \in 0 .. Len(EncodeResponse(message))
  PROVE  LET pieces == EncodeResponse(message)
             newer == SubSeq(pieces, 1, i) \o <<new>> \o SubSeq(pieces, i + 1, Len(pieces))
         IN  /\ newer \in Seq(Seq(Nat))
             /\ ResponseIs!Leads(FreshResponse, newer, message, ResponseVia(message))
             /\ DecodeResponse(FlattenSeq(newer)) = {message}
<1> DEFINE pieces == EncodeResponse(message)
           newer == SubSeq(pieces, 1, i) \o <<new>> \o SubSeq(pieces, i + 1, Len(pieces))
           via == ResponseVia(message)
<1>1. pieces \in Seq(Seq(Nat)) /\ ResponseIs!Leads(FreshResponse, pieces, message, via)
  BY ResponseLeads
<1>2. i \in 0 .. Len(pieces)
  OBVIOUS
<1>3. \A x \in via : ResponseIs!Step(x, new, x)
  BY ResponsePast
<1> HIDE DEF pieces, via
<1>4. newer \in Seq(Seq(Nat))
  <2>1. /\ SubSeq(pieces, 1, i) \in Seq(Seq(Nat)) /\ <<new>> \in Seq(Seq(Nat))
        /\ SubSeq(pieces, i + 1, Len(pieces)) \in Seq(Seq(Nat))
    <3>1. /\ \A j \in 1 .. i : j \in 1 .. Len(pieces)
          /\ \A j \in i + 1 .. Len(pieces) : j \in 1 .. Len(pieces)
      BY <1>2
    <3>2. \A j \in 1 .. Len(pieces) : pieces[j] \in Seq(Nat)
      BY <1>1, ElementOfSeq
    <3> QED
      BY <1>2, <3>1, <3>2, SubSeqProperties
  <2> QED
    BY <2>1
<1>5. ResponseIs!Leads(FreshResponse, newer, message, via)
  BY <1>1, <1>2, <1>3, ResponseIs!LeadsPast, Zenon
<1> HIDE DEF newer
<1>6. DecodeResponse(FlattenSeq(newer)) = {message}
  BY <1>4, <1>5, ResponseWhole
<1> QED
  BY <1>4, <1>5, <1>6 DEF newer, pieces, via

\* A request of fewer than 2^28 bytes arrives as it was sent, of whatever kind it is and
\* whatever it holds: every number of 64 bits, every string, and every optional field,
\* absent and zero apart; but an auth token, if there is one, is not empty
\* (encodeRequest and decodeRequest of messages.ts).
THEOREM RequestBack ==
  ASSUME NEW message \in RequestType, Small(EncodeRequest(message))
  PROVE  DecodeRequest(FlattenSeq(EncodeRequest(message))) = {message}
BY RequestLeads, RequestWhole

\* A piece that is read as a field of a number the decoder does not know.
LEMMA RequestPast ==
  ASSUME NEW x, NEW new, NEW f, Piece({1}, (2 .. 7), new, f), f.no \notin {1} \cup (2 .. 7)
  PROVE  RequestIs!Step(x, new, x)
<1>1. RequestCase(x, f) = {x}
  <2>2. f.no # 1 /\ f.no # 2 /\ f.no # 3 /\ f.no # 4 /\ f.no # 5 /\ f.no # 6 /\ f.no # 7
    OBVIOUS
  <2> QED
    BY <2>2 DEF RequestCase
<1> QED
  BY <1>1, Zenon DEF RequestIs!Step, RequestReads

\* A field of a newer protocol changes nothing, wherever it stands in a request.
THEOREM RequestNewer ==
  ASSUME NEW message \in RequestType, Small(EncodeRequest(message)),
         NEW new \in Seq(Nat), NEW f, Piece({1}, (2 .. 7), new, f), f.no \notin {1} \cup (2 .. 7),
         NEW i \in 0 .. Len(EncodeRequest(message))
  PROVE  LET pieces == EncodeRequest(message)
             newer == SubSeq(pieces, 1, i) \o <<new>> \o SubSeq(pieces, i + 1, Len(pieces))
         IN  /\ newer \in Seq(Seq(Nat))
             /\ RequestIs!Leads(FreshRequest, newer, message, RequestVia(message))
             /\ DecodeRequest(FlattenSeq(newer)) = {message}
<1> DEFINE pieces == EncodeRequest(message)
           newer == SubSeq(pieces, 1, i) \o <<new>> \o SubSeq(pieces, i + 1, Len(pieces))
           via == RequestVia(message)
<1>1. pieces \in Seq(Seq(Nat)) /\ RequestIs!Leads(FreshRequest, pieces, message, via)
  BY RequestLeads
<1>2. i \in 0 .. Len(pieces)
  OBVIOUS
<1>3. \A x \in via : RequestIs!Step(x, new, x)
  BY RequestPast
<1> HIDE DEF pieces, via
<1>4. newer \in Seq(Seq(Nat))
  <2>1. /\ SubSeq(pieces, 1, i) \in Seq(Seq(Nat)) /\ <<new>> \in Seq(Seq(Nat))
        /\ SubSeq(pieces, i + 1, Len(pieces)) \in Seq(Seq(Nat))
    <3>1. /\ \A j \in 1 .. i : j \in 1 .. Len(pieces)
          /\ \A j \in i + 1 .. Len(pieces) : j \in 1 .. Len(pieces)
      BY <1>2
    <3>2. \A j \in 1 .. Len(pieces) : pieces[j] \in Seq(Nat)
      BY <1>1, ElementOfSeq
    <3> QED
      BY <1>2, <3>1, <3>2, SubSeqProperties
  <2> QED
    BY <2>1
<1>5. RequestIs!Leads(FreshRequest, newer, message, via)
  BY <1>1, <1>2, <1>3, RequestIs!LeadsPast, Zenon
<1> HIDE DEF newer
<1>6. DecodeRequest(FlattenSeq(newer)) = {message}
  BY <1>4, <1>5, RequestWhole
<1> QED
  BY <1>4, <1>5, <1>6 DEF newer, pieces, via

\* What is decoded of a body cut short is a message on the way to the whole one.
LEMMA ResponseCut ==
  ASSUME NEW pieces \in Seq(Seq(Nat)), NEW message, NEW via,
         ResponseIs!Leads(FreshResponse, pieces, message, via),
         NEW cut \in 0 .. Len(FlattenSeq(pieces)),
         NEW got \in DecodeResponse(SubSeq(FlattenSeq(pieces), 1, cut))
  PROVE  got \in via
<1> DEFINE body == SubSeq(FlattenSeq(pieces), 1, cut)
<1>1. PICK S : \E fields \in Seq(S) : ResponseIs!AreRead(pieces, fields, message, via)
  BY LeastNumber, ResponseIs!LoopTakes, Zenon
<1>2. PICK fields \in Seq(S) : ResponseIs!AreRead(pieces, fields, message, via)
  BY <1>1
<1>3. PICK k \in 0 .. Len(pieces) :
        \A read \in ReadFields(body, {1}, (2 .. 8)) :
          \/ read = SubSeq(fields, 1, k)
          \/ \E u : u.no \notin {1} \cup (2 .. 8) /\ read = SubSeq(fields, 1, k) \o <<u>>
  <2>1. /\ Len(fields) = Len(pieces)
        /\ \A n \in 1 .. Len(pieces) : Piece({1}, (2 .. 8), pieces[n], fields[n])
    BY <1>2, Zenon DEF ResponseIs!AreRead, ResponseReads
  <2>2. TornReads({1}, (2 .. 8), pieces, fields, cut)
    BY <2>1, ReadTorn
  <2> QED
    BY <2>2, Zenon DEF TornReads
<1>4. PICK x \in via :
        /\ ResponseIs!Merged(SubSeq(fields, 1, k)) = {x}
        /\ \A u : ResponseCase(x, u) = {x} =>
             ResponseIs!Merged(SubSeq(fields, 1, k) \o <<u>>) = {x}
  BY <1>2, Zenon DEF ResponseIs!AreRead
<1>5. PICK read \in ReadFields(body, {1}, (2 .. 8)) : got \in ResponseLoop!Merged(read)
  BY DEF DecodeResponse
<1>6. ResponseLoop!Merged(read) = {x}
  <2>0. \A s : ResponseLoop!Merged(s) = ResponseIs!Merged(s)
    BY Zenon DEF ResponseIs!Merged, ResponseLoop!Merged
  <2>1. CASE read = SubSeq(fields, 1, k)
    BY <1>4, <2>0, <2>1, Zenon
  <2>2. ASSUME NEW u, u.no \notin {1} \cup (2 .. 8), read = SubSeq(fields, 1, k) \o <<u>>
        PROVE  ResponseLoop!Merged(read) = {x}
    <3>1. ResponseCase(x, u) = {x}
      <4>1. u.no # 1 /\ u.no # 2 /\ u.no # 3 /\ u.no # 4 /\ u.no # 5 /\ u.no # 6
            /\ u.no # 7 /\ u.no # 8
        BY <2>2
      <4> QED
        BY <4>1 DEF ResponseCase
    <3>2. ResponseIs!Merged(read) = {x}
      BY <1>4, <2>2, <3>1, Zenon
    <3> QED
      BY <2>0, <3>2, Zenon
  <2> QED
    BY <1>3, <2>1, <2>2, Zenon
<1> QED
  BY <1>5, <1>6

LEMMA ResponseViaIs ==
  ASSUME NEW message, NEW x \in ResponseVia(message)
  PROVE  x.kind = NoKind \/ x = message
BY DEF ResponseVia, FreshResponse, ResponseIn

\* A body cut short never becomes a response with part of its content: what is decoded
\* of it, if anything is, is the whole message or has no content at all
\* (decodeResponse of messages.ts; Conn.onData closes when it throws).
THEOREM ResponseTorn ==
  ASSUME NEW message \in ResponseType, Small(EncodeResponse(message)),
         NEW cut \in 0 .. Len(FlattenSeq(EncodeResponse(message))),
         NEW got \in DecodeResponse(SubSeq(FlattenSeq(EncodeResponse(message)), 1, cut))
  PROVE  got.kind = NoKind \/ got = message
<1>1. got \in ResponseVia(message)
  BY ResponseLeads, ResponseCut
<1> QED
  BY <1>1, ResponseViaIs

-----------------------------------------------------------------------------
(* A new field among the pieces of a message.                              *)

Amid(pieces, i, new) == SubSeq(pieces, 1, i) \o <<new>> \o SubSeq(pieces, i + 1, Len(pieces))

LEMMA AmidLength ==
  ASSUME NEW pieces \in Seq(Seq(Nat)), NEW new \in Seq(Nat), NEW i \in 0 .. Len(pieces)
  PROVE  /\ Amid(pieces, i, new) \in Seq(Seq(Nat))
         /\ Len(FlattenSeq(Amid(pieces, i, new))) = Len(FlattenSeq(pieces)) + Len(new)
<1> DEFINE p == SubSeq(pieces, 1, i)
           q == SubSeq(pieces, i + 1, Len(pieces))
<1>1. Len(pieces) \in Nat
  BY LenProperties
<1>2. p \in Seq(Seq(Nat)) /\ q \in Seq(Seq(Nat))
  <2>1. /\ \A j \in 1 .. i : j \in 1 .. Len(pieces)
        /\ \A j \in i + 1 .. Len(pieces) : j \in 1 .. Len(pieces)
    BY <1>1
  <2>2. \A j \in 1 .. Len(pieces) : pieces[j] \in Seq(Nat)
    BY ElementOfSeq
  <2> QED
    BY <1>1, <2>1, <2>2, SubSeqProperties
<1>3. p \o q = pieces
  <2>1. CASE i = 0
    <3>1. p = <<>>
      BY <2>1, SubSeqEmpty
    <3>2. q = pieces
      BY <2>1, SubSeqFull
    <3> HIDE DEF p, q
    <3> QED
      BY <3>1, <3>2
  <2>2. CASE i = Len(pieces)
    <3>1. p = pieces
      BY <2>2, SubSeqFull
    <3>2. q = <<>>
      BY <1>1, <2>2, SubSeqEmpty
    <3> HIDE DEF p, q
    <3> QED
      BY <3>1, <3>2
  <2>3. CASE i # 0 /\ i # Len(pieces)
    <3>1. i \in 1 .. Len(pieces) /\ i + 1 \in 1 .. Len(pieces)
      BY <1>1, <2>3
    <3>2. p \o q = SubSeq(pieces, 1, Len(pieces))
      BY <1>1, <3>1, ConcatAdjacentSubSeq
    <3> QED
      BY <3>2, SubSeqFull
  <2> QED
    BY <2>1, <2>2, <2>3
<1> HIDE DEF p, q
<1>4. Len(FlattenSeq(pieces)) = Len(FlattenSeq(p)) + Len(FlattenSeq(q))
  BY <1>2, <1>3, LenOn
<1>5. <<new>> \in Seq(Seq(Nat)) /\ FlattenSeq(<<new>>) = new
  BY FlatOne
<1>6. /\ p \o <<new>> \in Seq(Seq(Nat))
      /\ Len(FlattenSeq(p \o <<new>>)) = Len(FlattenSeq(p)) + Len(new)
      /\ Len(FlattenSeq(p)) \in Nat /\ Len(new) \in Nat
  BY <1>2, <1>5, LenOn
<1>7. /\ (p \o <<new>>) \o q \in Seq(Seq(Nat))
      /\ Len(FlattenSeq((p \o <<new>>) \o q)) = Len(FlattenSeq(p \o <<new>>)) + Len(FlattenSeq(q))
      /\ Len(FlattenSeq(q)) \in Nat
  BY <1>2, <1>6, LenOn
<1>8. Amid(pieces, i, new) = (p \o <<new>>) \o q
  BY Zenon DEF Amid, p, q
<1>9. Len(FlattenSeq((p \o <<new>>) \o q)) = Len(FlattenSeq(pieces)) + Len(new)
  <2>1. \A a, b, c \in Nat : (a + b) + c = (a + c) + b
    OBVIOUS
  <2>2. /\ Len(FlattenSeq((p \o <<new>>) \o q))
               = (Len(FlattenSeq(p)) + Len(new)) + Len(FlattenSeq(q))
        /\ Len(FlattenSeq(pieces)) + Len(new) = (Len(FlattenSeq(p)) + Len(FlattenSeq(q))) + Len(new)
    BY <1>4, <1>6, <1>7, Zenon
  <2> QED
    BY <1>6, <1>7, <2>1, <2>2, Zenon
<1> QED
  BY <1>7, <1>8, <1>9

LEMMA WithIs ==
  ASSUME NEW fields, NEW new, NEW body \in With(fields, new)
  PROVE  \E i \in 0 .. Len(fields) : body = FlattenSeq(Amid(fields, i, new))
  BY Zenon DEF With, Amid

\* A watermark with a new field beside it.
LEMMA WatermarkNewer ==
  ASSUME NEW w \in U64, NEW new \in NewFields, NEW body \in With(EncodeWatermark(w), new)
  PROVE  body \in Seq(Nat) /\ Len(body) <= 40 /\ DecodeWatermark(body) = {w}
<1> DEFINE pieces == EncodeWatermark(w)
<1>1. new \in Seq(Nat) /\ Len(new) <= 20 /\ Unknown({1}, {}, new)
  BY SomeNewFields
<1>2. pieces \in Seq(Seq(Nat)) /\ Len(FlattenSeq(pieces)) <= 20
  BY WatermarkBack
<1>3. WatermarkIs!Takes(FreshWatermark, pieces, w)
  BY WatermarkTakes
<1> HIDE DEF pieces
<1>4. PICK i \in 0 .. Len(pieces) : body = FlattenSeq(Amid(pieces, i, new))
  BY WithIs DEF pieces
<1>5. \A x : WatermarkIs!Step(x, new, x)
  <2>1. PICK f : Piece({1}, {}, new, f) /\ f.no \notin {1} \cup {}
    BY <1>1 DEF Unknown
  <2>2. f.no # 1
    BY <2>1
  <2>3. \A x : WatermarkCase(x, f) = {x}
    BY <2>2 DEF WatermarkCase
  <2> QED
    BY <2>1, <2>3, Zenon DEF WatermarkIs!Step, WatermarkReads
<1>6. PICK via : WatermarkIs!Leads(FreshWatermark, pieces, w, via)
  BY <1>3, Zenon DEF WatermarkIs!Takes
<1>7. WatermarkIs!Leads(FreshWatermark, Amid(pieces, i, new), w, via)
  BY <1>1, <1>2, <1>5, <1>6, WatermarkIs!LeadsPast, Zenon DEF Amid
<1>8. WatermarkIs!Takes(FreshWatermark, Amid(pieces, i, new), w)
  BY <1>7, Zenon DEF WatermarkIs!Takes
<1>9. /\ Amid(pieces, i, new) \in Seq(Seq(Nat))
      /\ Len(body) = Len(FlattenSeq(pieces)) + Len(new)
  BY <1>1, <1>2, <1>4, AmidLength
<1>10. DecodeWatermark(body) = {w}
  BY <1>4, <1>8, <1>9, WatermarkWhole
<1>11. body \in Seq(Nat)
  BY <1>4, <1>9, FlatType
<1>12. Len(body) <= 40
  <2>1. Len(FlattenSeq(pieces)) \in Nat /\ Len(new) \in Nat
    BY <1>1, <1>2, FlatType, LenProperties
  <2> QED
    BY <1>1, <1>2, <1>9, <2>1
<1> QED
  BY <1>10, <1>11, <1>12

-----------------------------------------------------------------------------
(* The bodies the peer writes.                                             *)

\* A body made of pieces that lead a decoder of responses to a message.
IsBody(body, message) ==
  \E pieces \in Seq(Seq(Nat)) :
    /\ ResponseIs!Leads(FreshResponse, pieces, message, ResponseVia(message))
    /\ body = FlattenSeq(pieces)

LEMMA WholeIsBody ==
  ASSUME NEW m \in Responses
  PROVE  IsBody(FlattenSeq(EncodeResponse(m)), m)
<1>1. m \in ResponseType /\ Small(EncodeResponse(m))
  BY SomeResponses, ShortResponse
<1>2. /\ EncodeResponse(m) \in Seq(Seq(Nat))
      /\ ResponseIs!Leads(FreshResponse, EncodeResponse(m), m, ResponseVia(m))
  BY <1>1, ResponseLeads
<1> QED
  BY <1>2, Zenon DEF IsBody

LEMMA NewerIsBody ==
  ASSUME NEW m \in Responses, NEW body \in NewerBodies(EncodeResponse(m))
  PROVE  IsBody(body, m)
<1>1. m \in ResponseType /\ Small(EncodeResponse(m))
  BY SomeResponses, ShortResponse
<1>2. PICK new \in NewFields : body \in With(EncodeResponse(m), new)
  BY Zenon DEF NewerBodies
<1>3. PICK i \in 0 .. Len(EncodeResponse(m)) : body = FlattenSeq(Amid(EncodeResponse(m), i, new))
  BY <1>2, WithIs
<1>4. {1} \cup (2 .. 8) \subseteq 1 .. 10
  OBVIOUS
<1>5. new \in Seq(Nat) /\ Unknown({1}, 2 .. 8, new)
  BY <1>2, <1>4, SomeNewFields
<1>6. PICK f : Piece({1}, (2 .. 8), new, f) /\ f.no \notin {1} \cup (2 .. 8)
  BY <1>5, Zenon DEF Unknown
<1>7. /\ Amid(EncodeResponse(m), i, new) \in Seq(Seq(Nat))
      /\ ResponseIs!Leads(FreshResponse, Amid(EncodeResponse(m), i, new), m, ResponseVia(m))
  BY <1>1, <1>3, <1>5, <1>6, ResponseNewer, Zenon DEF Amid
<1> QED
  BY <1>3, <1>7, Zenon DEF IsBody

LEMMA EndIs ==
  ASSUME NEW m \in Ends
  PROVE  /\ m.requestId \in U64 /\ m.kind.content.watermark \in U64
         /\ m = ResponseIn(m.requestId, m.kind)
         /\ \/ m.kind = Kind("readEnd", [watermark |-> m.kind.content.watermark])
            \/ m.kind = Kind("caughtUp", [watermark |-> m.kind.content.watermark])
<1>1. m \in Responses /\ m.kind.kind \in {"readEnd", "caughtUp"}
  BY DEF Ends
<1>2. m \in ResponseType
  BY <1>1, SomeResponses, ShortResponse
<1>3. m.requestId \in U64 /\ m.kind \in ResponseKinds /\ m = ResponseIn(m.requestId, m.kind)
  BY <1>2 DEF ResponseType, ResponseIn
<1>4. PICK w \in U64 : m.kind = Kind("readEnd", [watermark |-> w])
      \/ m.kind = Kind("caughtUp", [watermark |-> w])
  BY <1>1, <1>3 DEF ResponseKinds, Kind, NoKind
<1>5. m.kind.content.watermark = w
  BY <1>4 DEF Kind
<1> QED
  BY <1>3, <1>4, <1>5

\* Of an end of a read, with a new field in its content.
LEMMA NewerEndIsBody ==
  ASSUME NEW m \in Ends, NEW body \in NewerEnds(m)
  PROVE  IsBody(body, m)
<1> DEFINE id == m.requestId
           w == m.kind.content.watermark
           no == IF m.kind.kind = "readEnd" THEN 4 ELSE 6
           a == UInt64(1, id)
<1>1. PICK new \in NewFields :
        body \in {FlattenSeq(a \o Delimited(no, inside)) : inside \in With(EncodeWatermark(w), new)}
  BY Zenon DEF NewerEnds
<1>2. PICK inside \in With(EncodeWatermark(w), new) : body = FlattenSeq(a \o Delimited(no, inside))
  BY <1>1
<1>3. /\ id \in U64 /\ w \in U64 /\ m = ResponseIn(id, m.kind)
      /\ \/ m.kind = Kind("readEnd", [watermark |-> w])
         \/ m.kind = Kind("caughtUp", [watermark |-> w])
  BY EndIs
<1>4. inside \in Seq(Nat) /\ Len(inside) <= 40 /\ DecodeWatermark(inside) = {w}
  BY <1>2, <1>3, WatermarkNewer
<1>5. Watermarks(inside) = {[watermark |-> w]}
  <2>1. {[watermark |-> x] : x \in {w}} = {[watermark |-> w]}
    OBVIOUS
  <2> QED
    BY <1>4, <2>1, Zenon DEF Watermarks
<1>6. Len(inside) < AboveAnyLength
  <2>1. Len(inside) \in Nat
    BY <1>4, LenProperties
  <2> QED
    BY <1>4, <2>1 DEF AboveAnyLength
<1>7. ResponseCase(ResponseIn(id, NoKind), [no |-> no, value |-> inside]) = {m}
  <2>1. CASE m.kind = Kind("readEnd", [watermark |-> w])
    <3>1. no = 4
      BY <2>1 DEF Kind
    <3>2. ResponseCase(ResponseIn(id, NoKind), [no |-> 4, value |-> inside])
            = {ResponseIn(id, Kind("readEnd", [watermark |-> w]))}
      BY <1>5, ResponseSet4
    <3> HIDE DEF no, id, w
    <3> QED
      BY <1>3, <2>1, <3>1, <3>2, Zenon
  <2>2. CASE m.kind = Kind("caughtUp", [watermark |-> w])
    <3>1. no = 6
      BY <2>2 DEF Kind
    <3>2. ResponseCase(ResponseIn(id, NoKind), [no |-> 6, value |-> inside])
            = {ResponseIn(id, Kind("caughtUp", [watermark |-> w]))}
      BY <1>5, ResponseSet6
    <3> HIDE DEF no, id, w
    <3> QED
      BY <1>3, <2>2, <3>1, <3>2, Zenon
  <2> QED
    BY <1>3, <2>1, <2>2
<1>8. no \in FieldNumbers /\ no \in (2 .. 8) \ {1}
  BY DEF FieldNumbers
<1> HIDE DEF no
<1>9. /\ Delimited(no, inside) \in Seq(Seq(Nat))
      /\ IsField({1}, (2 .. 8), Delimited(no, inside), no, inside)
  BY <1>4, <1>6, <1>8, DelimitedField
<1>10. \E piece : /\ Delimited(no, inside) = <<piece>>
                  /\ ResponseIs!Step(ResponseIn(id, NoKind), piece, m)
  <2>1. PICK piece : /\ Delimited(no, inside) = <<piece>>
                     /\ Piece({1}, (2 .. 8), piece, [no |-> no, value |-> inside])
    BY <1>9, Zenon DEF IsField
  <2>2. ResponseIs!Step(ResponseIn(id, NoKind), piece, m)
    BY <1>7, <2>1, Zenon DEF ResponseIs!Step, ResponseReads
  <2> QED
    BY <2>1, <2>2, Zenon
<1>11. 1 \in FieldNumbers /\ 1 \in {1}
  BY DEF FieldNumbers
<1> HIDE DEF id, w
<1>12. a \in Seq(Seq(Nat))
  BY <1>3, <1>11, UInt64Field
<1>13. (a = <<>> /\ id = <<>>) \/ IsField({1}, (2 .. 8), a, 1, id)
  BY <1>3, <1>11, Written1
<1> HIDE DEF a
<1>14. \/ a = <<>> /\ ResponseIn(id, NoKind) = ResponseIn(<<>>, NoKind)
       \/ \E piece : /\ a = <<piece>>
                     /\ ResponseIs!Step(ResponseIn(<<>>, NoKind), piece, ResponseIn(id, NoKind))
  <2>1. CASE IsField({1}, (2 .. 8), a, 1, id)
    <3>1. PICK piece : a = <<piece>> /\ Piece({1}, (2 .. 8), piece, [no |-> 1, value |-> id])
      BY <2>1 DEF IsField
    <3>2. ResponseCase(ResponseIn(<<>>, NoKind), [no |-> 1, value |-> id])
          = {ResponseIn(id, NoKind)}
      BY ResponseSetId
    <3>3. ResponseIs!Step(ResponseIn(<<>>, NoKind), piece, ResponseIn(id, NoKind))
      BY <3>1, <3>2, Zenon DEF ResponseIs!Step, ResponseReads
    <3> QED
      BY <3>1, <3>3, Zenon
  <2> QED
    BY <1>13, <2>1
<1>15. ResponseIs!Leads(ResponseIn(<<>>, NoKind), a \o Delimited(no, inside), m,
                        {ResponseIn(<<>>, NoKind), ResponseIn(id, NoKind), m})
  BY <1>9, <1>10, <1>12, <1>14, ResponseIs!LeadsTwo, Zenon
<1>16. /\ ResponseVia(m) = {ResponseIn(<<>>, NoKind), ResponseIn(id, NoKind), m}
       /\ FreshResponse = ResponseIn(<<>>, NoKind)
  BY Zenon DEF ResponseVia, FreshResponse, ResponseIn, id
<1>17. a \o Delimited(no, inside) \in Seq(Seq(Nat))
  BY <1>9, <1>12, LenOn
<1> QED
  BY <1>2, <1>15, <1>16, <1>17, Zenon DEF IsBody

LEMMA WrittenIsBody ==
  ASSUME NEW w \in Written
  PROVE  IsBody(w.body, w.means)
<1>1. CASE w \in {[means |-> m, body |-> FlattenSeq(EncodeResponse(m))] : m \in Responses}
  <2>1. PICK m \in Responses : w = [means |-> m, body |-> FlattenSeq(EncodeResponse(m))]
    BY <1>1
  <2> QED
    BY <2>1, WholeIsBody
<1>2. CASE w \in UNION {{[means |-> m, body |-> b] : b \in NewerBodies(EncodeResponse(m))} :
                          m \in Responses}
  <2>1. PICK m \in Responses :
        w \in {[means |-> m, body |-> b] : b \in NewerBodies(EncodeResponse(m))}
    BY <1>2, Zenon
  <2>2. PICK b \in NewerBodies(EncodeResponse(m)) : w = [means |-> m, body |-> b]
    BY <2>1
  <2> QED
    BY <2>2, NewerIsBody
<1>3. CASE w \in UNION {{[means |-> m, body |-> b] : b \in NewerEnds(m)} : m \in Ends}
  <2>1. PICK m \in Ends : w \in {[means |-> m, body |-> b] : b \in NewerEnds(m)}
    BY <1>3, Zenon
  <2>2. PICK b \in NewerEnds(m) : w = [means |-> m, body |-> b]
    BY <2>1
  <2> QED
    BY <2>2, NewerEndIsBody
<1> QED
  BY <1>1, <1>2, <1>3, Zenon DEF Written

\* A body that was written for a response is decoded to it, and to nothing else.
LEMMA WrittenUnderstood ==
  ASSUME NEW w \in Written
  PROVE  DecodeResponse(w.body) = {w.means}
<1>1. PICK pieces \in Seq(Seq(Nat)) :
        /\ ResponseIs!Leads(FreshResponse, pieces, w.means, ResponseVia(w.means))
        /\ w.body = FlattenSeq(pieces)
  BY WrittenIsBody, Zenon DEF IsBody
<1>2. DecodeResponse(FlattenSeq(pieces)) = {w.means}
  BY <1>1, ResponseWhole
<1> QED
  BY <1>1, <1>2, Zenon

LEMMA WrittenBackUnderstood ==
  ASSUME NEW w \in WrittenBack
  PROVE  DecodeRequest(w.body) = {AsWritten(w.means)}
<1>1. ASSUME NEW m \in Requests
      PROVE  DecodeRequest(FlattenSeq(EncodeRequest(m))) = {AsWritten(m)}
  <2>1. AsWritten(m) \in ShortRequests /\ EncodeRequest(m) = EncodeRequest(AsWritten(m))
    BY SomeRequests
  <2>2. AsWritten(m) \in RequestType /\ Small(EncodeRequest(AsWritten(m)))
    BY <2>1, ShortRequest
  <2>3. DecodeRequest(FlattenSeq(EncodeRequest(AsWritten(m)))) = {AsWritten(m)}
    BY <2>2, RequestBack
  <2> QED
    BY <2>1, <2>3, Zenon
<1>2. ASSUME NEW m \in Requests, NEW body \in NewerBodies(EncodeRequest(m))
      PROVE  DecodeRequest(body) = {AsWritten(m)}
  <2> DEFINE asWritten == AsWritten(m)
  <2>1. asWritten \in ShortRequests /\ EncodeRequest(m) = EncodeRequest(asWritten)
    BY SomeRequests
  <2>2. asWritten \in RequestType /\ Small(EncodeRequest(asWritten))
    BY <2>1, ShortRequest
  <2> HIDE DEF asWritten
  <2>3. PICK new \in NewFields : body \in With(EncodeRequest(asWritten), new)
    BY <1>2, <2>1, Zenon DEF NewerBodies
  <2>4. PICK i \in 0 .. Len(EncodeRequest(asWritten)) :
          body = FlattenSeq(Amid(EncodeRequest(asWritten), i, new))
    BY <2>3, WithIs
  <2>5. {1} \cup (2 .. 7) \subseteq 1 .. 10
    OBVIOUS
  <2>6. new \in Seq(Nat) /\ Unknown({1}, 2 .. 7, new)
    BY <2>3, <2>5, SomeNewFields
  <2>7. PICK f : Piece({1}, (2 .. 7), new, f) /\ f.no \notin {1} \cup (2 .. 7)
    BY <2>6, Zenon DEF Unknown
  <2>8. DecodeRequest(FlattenSeq(Amid(EncodeRequest(asWritten), i, new))) = {asWritten}
    BY <2>2, <2>4, <2>6, <2>7, RequestNewer, Zenon DEF Amid
  <2> QED
    BY <2>4, <2>8, Zenon DEF asWritten
<1>3. CASE w \in {[means |-> m, body |-> FlattenSeq(EncodeRequest(m))] : m \in Requests}
  <2>1. PICK m \in Requests : w = [means |-> m, body |-> FlattenSeq(EncodeRequest(m))]
    BY <1>3
  <2> QED
    BY <1>1, <2>1
<1>4. CASE w \in UNION {{[means |-> m, body |-> b] : b \in NewerBodies(EncodeRequest(m))} :
                          m \in Requests}
  <2>1. PICK m \in Requests :
        w \in {[means |-> m, body |-> b] : b \in NewerBodies(EncodeRequest(m))}
    BY <1>4, Zenon
  <2>2. PICK b \in NewerBodies(EncodeRequest(m)) : w = [means |-> m, body |-> b]
    BY <2>1
  <2> QED
    BY <1>2, <2>2
<1> QED
  BY <1>3, <1>4, Zenon DEF WrittenBack

\* A body cut short is nothing, or a response without content, or the response that was
\* cut.
LEMMA TornRefusedAll ==
  ASSUME NEW t \in Torn, NEW m \in DecodeResponse(t.body)
  PROVE  m.kind = NoKind \/ m = t.of
<1>1. PICK w \in {v \in Written : v.means.requestId # <<>>} :
        t \in {[of |-> w.means, body |-> SubSeq(w.body, 1, n)] :
            n \in 0 .. Min({Len(w.body), 40}) - 1}
  BY Zenon DEF Torn
<1>2. PICK n \in 0 .. Min({Len(w.body), 40}) - 1 :
      t = [of |-> w.means, body |-> SubSeq(w.body, 1, n)]
  BY <1>1
<1>3. w \in Written
  OBVIOUS
<1>4. PICK pieces \in Seq(Seq(Nat)) :
        /\ ResponseIs!Leads(FreshResponse, pieces, w.means, ResponseVia(w.means))
        /\ w.body = FlattenSeq(pieces)
  BY <1>3, WrittenIsBody, Zenon DEF IsBody
<1>5. Len(w.body) \in Nat
  BY <1>4, FlatType, LenProperties
<1>6. n \in 0 .. Len(FlattenSeq(pieces))
  <2> DEFINE l == Len(w.body)
  <2>1. Min({l, 40}) = IF l <= 40 THEN l ELSE 40
    BY <1>5, MinOf
  <2>2. l = Len(FlattenSeq(pieces))
    BY <1>4
  <2> HIDE DEF l
  <2>3. n \in 0 .. l
    BY <1>2, <1>5, <2>1 DEF l
  <2> QED
    BY <2>2, <2>3
<1>7. m \in DecodeResponse(SubSeq(FlattenSeq(pieces), 1, n))
  BY <1>2, <1>4
<1>8. m \in ResponseVia(w.means)
  BY <1>4, <1>6, <1>7, ResponseCut
<1>9. m.kind = NoKind \/ m = w.means
  BY <1>8, ResponseViaIs
<1> QED
  BY <1>2, <1>9

-----------------------------------------------------------------------------
(* The properties.                                                         *)

\* Either side understands every body the other writes (Codec.Understood): whole, and
\* with a field of a newer protocol anywhere in it.
THEOREM UnderstoodInvariant == Spec => []Understood
<1>1. Understood
  BY WrittenUnderstood, WrittenBackUnderstood DEF Understood
<1> QED
  BY <1>1, PTL

\* A body cut short never becomes a response with part of its content
\* (Codec.TornRefused).
THEOREM TornRefusedInvariant == Spec => []TornRefused
<1>1. TornRefused
  BY TornRefusedAll DEF TornRefused
<1> QED
  BY <1>1, PTL
=============================================================================
