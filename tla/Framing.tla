------------------------------ MODULE Framing ------------------------------
(***************************************************************************)
(* The length-prefixed framing of framing.ts: writeFrame, and the decoder  *)
(* that takes the bytes of a socket in whatever chunks they come.          *)
(*                                                                         *)
(* "sent" is what the peer writes: frames of the bodies it names and then, *)
(* perhaps, the header of one that is too large with some bytes.  The socket *)
(* delivers the bytes in chunks; connection.ts goes on feeding the decoder *)
(* after it has thrown, as long as the socket stays open.                  *)
(***************************************************************************)
EXTENDS Integers, Sequences

CONSTANTS
  MaxFrameLen,   \* config.maxFrameLen
  Traffic,       \* bound: what the peer may write, the bodies of its frames and the
                 \* oversized length it announces after them, if not zero
  MaxTail,       \* bound: the bytes it writes after such a header
  MaxChunk       \* bound: the bytes of one chunk

Byte == 0 .. 255

\* What four bytes can say: less than 2^32, which TLC cannot write down.
FitsHeader(len) == len \div 16777216 \in Byte

ASSUME FramingAssumption ==
  /\ MaxFrameLen \in Nat \ {0}
  /\ MaxTail \in Nat /\ MaxChunk \in Nat \ {0}
  /\ \A t \in Traffic :
       /\ t.frames \in Seq(Seq(Byte))
       /\ \A i \in DOMAIN t.frames :
            Len(t.frames[i]) <= MaxFrameLen /\ FitsHeader(Len(t.frames[i]))
       /\ t.bad \in Nat /\ FitsHeader(t.bad)
       /\ t.bad = 0 \/ t.bad > MaxFrameLen

VARIABLES
  sent,       \* what the peer writes
  delivered,  \* how many of their bytes the socket has delivered
  buffer,     \* FrameDecoder.buffer
  emitted,    \* every frame body push has returned, in order
  thrown      \* push has thrown FrameTooLargeError

vars == <<sent, delivered, buffer, emitted, thrown>>

-----------------------------------------------------------------------------
HeaderLen == 4

\* Mutant: the bytes are not masked.
PrefixUnmasked(len) ==
  <<len \div 16777216, len \div 65536, len \div 256, len>>

\* Each of the four bytes of the prefix is one "(len >>> k) & 0xff".
Prefix(len) ==
  <<(len \div 16777216) % 256, (len \div 65536) % 256, (len \div 256) % 256, len % 256>>

\* writeFrame, for a body that is not too large.
Encode(body) == Prefix(Len(body)) \o body

\* readU32BE.  The three low bytes stay below 2^24, so "|" adds and "<<" does not
\* wrap; the high byte is multiplied, so it does not turn negative.
ReadU32BE(buf, offset) ==
  16777216 * buf[offset + 1] + 65536 * buf[offset + 2] + 256 * buf[offset + 3] + buf[offset + 4]

-----------------------------------------------------------------------------
(* The loop of push over a buffer: what it yields from each offset on.     *)

Scanned(frames, offset, bad) == [frames |-> frames, offset |-> offset, bad |-> bad]

\* Mutant: the length is checked once the body is there.
YieldLate(buf, from, offset) ==
  LET len == ReadU32BE(buf, offset)
      next == offset + HeaderLen + len
  IN  IF Len(buf) - offset < HeaderLen \/ Len(buf) < next THEN Scanned(<<>>, offset, FALSE)
      ELSE IF len > MaxFrameLen THEN Scanned(<<>>, offset, TRUE)
      ELSE [from[next] EXCEPT !.frames = <<SubSeq(buf, offset + HeaderLen + 1, next)>> \o @]

\* One turn of the loop; "from" is what the loop yields from each later offset on.
Yield(buf, from, offset) ==
  LET len == ReadU32BE(buf, offset)
      next == offset + HeaderLen + len
  IN  IF Len(buf) - offset < HeaderLen THEN Scanned(<<>>, offset, FALSE)
      ELSE IF len > MaxFrameLen THEN Scanned(<<>>, offset, TRUE)
      ELSE IF Len(buf) < next THEN Scanned(<<>>, offset, FALSE)
      ELSE [from[next] EXCEPT !.frames = <<SubSeq(buf, offset + HeaderLen + 1, next)>> \o @]

Scan(buf) ==
  LET from[offset \in 0 .. Len(buf)] == Yield(buf, from, offset) IN from[0]

-----------------------------------------------------------------------------
\* The bytes of the first k frames, and of all the peer writes.
FrameBytes(frames, k) ==
  LET upTo[n \in 0 .. Len(frames)] == IF n = 0 THEN <<>> ELSE upTo[n - 1] \o Encode(frames[n])
  IN  upTo[k]

Announced == IF sent.bad = 0 THEN <<>> ELSE Prefix(sent.bad) \o [i \in 1 .. MaxTail |-> 0]
Stream == FrameBytes(sent.frames, Len(sent.frames)) \o Announced

Init ==
  /\ sent \in Traffic
  /\ delivered = 0
  /\ buffer = <<>>
  /\ emitted = <<>>
  /\ thrown = FALSE

\* Mutant: what follows the last whole frame of the chunk is dropped with it.
PushDropsTorn(n) ==
  LET arrived == buffer \o SubSeq(Stream, delivered + 1, delivered + n)
      scan == Scan(arrived)
  IN  /\ delivered + n <= Len(Stream)
      /\ delivered' = delivered + n
      /\ thrown' = (thrown \/ scan.bad)
      /\ buffer' = IF scan.bad \/ scan.frames = <<>> THEN arrived ELSE <<>>
      /\ emitted' = emitted \o IF scan.bad THEN <<>> ELSE scan.frames
      /\ UNCHANGED sent

\* push(chunk).  It throws with the chunk in the buffer and the frames before the
\* bad header lost.
Push(n) ==
  LET arrived == buffer \o SubSeq(Stream, delivered + 1, delivered + n)
      scan == Scan(arrived)
  IN  /\ delivered + n <= Len(Stream)
      /\ delivered' = delivered + n
      /\ UNCHANGED sent
      /\ \/ /\ scan.bad
            /\ thrown' = TRUE
            /\ buffer' = arrived
            /\ UNCHANGED emitted
         \/ /\ ~scan.bad
            /\ buffer' = SubSeq(arrived, scan.offset + 1, Len(arrived))
            /\ emitted' = emitted \o scan.frames
            /\ UNCHANGED thrown

Next == \E n \in 1 .. MaxChunk : Push(n)

Spec == Init /\ [][Next]_vars

-----------------------------------------------------------------------------
(* Properties.                                                             *)

\* Type correctness of the decoder.
TypeOK ==
  /\ delivered \in 0 .. Len(Stream)
  /\ buffer \in Seq(Byte)
  /\ emitted \in Seq(Seq(Byte))
  /\ thrown \in BOOLEAN

\* The frames that have wholly arrived, and the bytes they take.
Whole == CHOOSE k \in 0 .. Len(sent.frames) :
  /\ Len(FrameBytes(sent.frames, k)) <= delivered
  /\ k < Len(sent.frames) => Len(FrameBytes(sent.frames, k + 1)) > delivered

\* However the stream is cut into chunks, the decoder returns the peer's frames,
\* each as soon as its last byte is there, and keeps the bytes of the torn one.
Reassembled ==
  ~thrown => /\ emitted = SubSeq(sent.frames, 1, Whole)
             /\ buffer = SubSeq(Stream, Len(FrameBytes(sent.frames, Whole)) + 1, delivered)

\* A length over the maximum is refused as soon as its header is there, whatever
\* of its body is, and nothing else is ever refused.
RefusedAtHeader ==
  thrown <=> /\ sent.bad # 0
             /\ delivered >= Len(FrameBytes(sent.frames, Len(sent.frames))) + HeaderLen

\* The decoder's comment promises that no prefix makes it allocate an unbounded
\* buffer: it never holds more than a frame and the chunk it was last given.
BufferBounded == Len(buffer) < HeaderLen + MaxFrameLen + MaxChunk
=============================================================================
