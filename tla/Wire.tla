-------------------------------- MODULE Wire --------------------------------
(***************************************************************************)
(* The protobuf wire codec of wire.ts.                                     *)
(*                                                                         *)
(* A uint64 is the sequence of its base-128 digits, the least first and    *)
(* with no zeros at the end, so that zero is << >>: the whole range fits,  *)
(* which no integer of the model checker does.  A string is the sequence   *)
(* of its UTF-8 bytes.  A Writer's content is the sequence of the fields   *)
(* appended to it, each a sequence of bytes; how its buffer grows is left  *)
(* out.  A read of a Reader is the set of its outcomes: one, or none when  *)
(* the code throws a RangeError.                                           *)
(***************************************************************************)
EXTENDS Naturals, Sequences, SequencesExt

VARINT  == 0
FIXED64 == 1
LEN     == 2
FIXED32 == 5

-----------------------------------------------------------------------------
(* Numbers.                                                                *)

\* A digit, zero after the end; and what a one is worth in each of five places.
Digit(digits, i) == IF i \in DOMAIN digits THEN digits[i] ELSE 0
Worth == <<1, 128, 16384, 2097152, 268435456>>

\* Drops the zeros at the end.
Trim(digits) ==
  SubSeq(digits, 1, Max({0} \cup {i \in DOMAIN digits : digits[i] # 0}))

\* "& U64_MASK": nine groups of seven bits and one bit of the tenth.
Masked(digits) ==
  Trim([i \in 1 .. Min({Len(digits), 10}) |-> IF i = 10 THEN digits[i] % 2 ELSE digits[i]])

\* The digits of a number of 32 bits.
Digits(n) == Trim([i \in 1 .. 5 |-> (n \div Worth[i]) % 128])

\* Number(): a number of more than four groups is above every length there is.  Where
\* a value and not a length is read so (an error's code, the protocol's version), the
\* model does not tell those of 2^28 and more apart.
AboveAnyLength == 268435456
Number(digits) ==
  IF Len(digits) > 4 THEN AboveAnyLength
  ELSE Digit(digits, 1) + 128 * Digit(digits, 2) + 16384 * Digit(digits, 3)
         + 2097152 * Digit(digits, 4)

-----------------------------------------------------------------------------
(* Writer.                                                                 *)

\* varintBig: every group but the last carries the continuation bit.
VarintBig(digits) ==
  IF digits = <<>> THEN <<0>>
  ELSE [i \in DOMAIN digits |-> IF i < Len(digits) THEN digits[i] + 128 ELSE digits[i]]

\* varint, and varintBig which it turns to for what does not fit 32 bits.
Varint(n) == VarintBig(Digits(n))

Tag(no, wireType) == Varint(8 * no + wireType)

UInt64Present(no, value) == <<Tag(no, VARINT) \o VarintBig(value)>>
UInt64(no, value) == IF value = <<>> THEN <<>> ELSE UInt64Present(no, value)

Bool(no, value) == IF value THEN <<Tag(no, VARINT) \o <<1>>>> ELSE <<>>

\* enum and uint32.
UInt32(no, value) == IF value = 0 THEN <<>> ELSE <<Tag(no, VARINT) \o Varint(value)>>

\* repeatedString and message: written even when empty.
Delimited(no, value) == <<Tag(no, LEN) \o Varint(Len(value)) \o value>>
Message(no, fields) == Delimited(no, FlattenSeq(fields))

\* string and bytes: omitted when empty.
Bytes(no, value) == IF value = <<>> THEN <<>> ELSE Delimited(no, value)

\* The fields of a repeated element, one call for each.
Each(Field(_), values) == FlattenSeq([i \in DOMAIN values |-> Field(values[i])])

\* The fields of an optional value, a set of at most one.
Present(Field(_), optional) == IF optional = {} THEN <<>> ELSE Field(CHOOSE v \in optional : TRUE)

-----------------------------------------------------------------------------
(* Reader.  "next" is the position after what was read.                    *)

Got(value, next) == [value |-> value, next |-> next]

\* varintBig: up to the first byte without the continuation bit, or truncated.
ReadVarint(buf, pos) ==
  {Got(Masked([i \in 1 .. last - pos + 1 |-> buf[pos + i - 1] % 128]), last + 1) :
     last \in {i \in pos .. Len(buf) : buf[i] < 128 /\ \A j \in pos .. i - 1 : buf[j] >= 128}}

\* Mutant: the end of the buffer is not looked at.
ReadBytesUnchecked(buf, pos) ==
  {Got(SubSeq(buf, len.next, Min({len.next + Number(len.value) - 1, Len(buf)})),
       len.next + Number(len.value)) : len \in ReadVarint(buf, pos)}

\* bytes: the length and as many bytes, or truncated.
ReadBytes(buf, pos) ==
  {Got(SubSeq(buf, len.next, len.next + Number(len.value) - 1), len.next + Number(len.value)) :
     len \in {l \in ReadVarint(buf, pos) : l.next + Number(l.value) <= Len(buf) + 1}}

\* Mutant: the length of the field is skipped from where it stood before it was read.
SkipFromLength(buf, pos, wireType) ==
  CASE wireType = VARINT  -> ReadVarint(buf, pos)
    [] wireType = FIXED64 -> {Got(<<>>, pos + 8)}
    [] wireType = LEN     -> {Got(<<>>, pos + Number(len.value)) : len \in ReadVarint(buf, pos)}
    [] wireType = FIXED32 -> {Got(<<>>, pos + 4)}
    [] OTHER              -> {}

\* skip: it does not look whether what it skips is there.
Skip(buf, pos, wireType) ==
  CASE wireType = VARINT  -> ReadVarint(buf, pos)
    [] wireType = FIXED64 -> {Got(<<>>, pos + 8)}
    [] wireType = LEN     -> {Got(<<>>, len.next + Number(len.value)) : len \in ReadVarint(buf, pos)}
    [] wireType = FIXED32 -> {Got(<<>>, pos + 4)}
    [] OTHER              -> {}

\* tag: "key >>> 3" takes the low 32 bits of the key.  Number() rounds a key above
\* 2^53 first, which is left out: a field's key has at most 32 bits.
FieldNo(key) ==
  (Digit(key, 1) \div 8) + 16 * Digit(key, 2) + 2048 * Digit(key, 3) + 262144 * Digit(key, 4)
    + 33554432 * (Digit(key, 5) % 16)
WireType(key) == Digit(key, 1) % 8

\* A field: a tag, then by its number a read or a skip.  "varints" and "delimited" are
\* the numbers that the decoder knows.
Content(buf, varints, delimited, no, wireType, pos) ==
  IF no \in varints THEN ReadVarint(buf, pos)
  ELSE IF no \in delimited THEN ReadBytes(buf, pos)
  ELSE Skip(buf, pos, wireType)

ReadField(buf, varints, delimited, pos) ==
  UNION {
    LET no == FieldNo(tag.value)
    IN  {Got([no |-> no, value |-> got.value], Min({got.next, Len(buf) + 1})) :
           got \in Content(buf, varints, delimited, no, WireType(tag.value), tag.next)} :
    tag \in ReadVarint(buf, pos)}

\* One turn of the loop every decoder is; "from" is what it reads from each later
\* position on.
ReadOn(buf, varints, delimited, from, pos) ==
  IF pos > Len(buf) THEN {<<>>}
  ELSE UNION {{<<field.value>> \o rest : rest \in from[field.next]} :
                field \in ReadField(buf, varints, delimited, pos)}

\* The loop, until the buffer is exhausted.
ReadFields(buf, varints, delimited) ==
  LET from[pos \in 1 .. Len(buf) + 1] == ReadOn(buf, varints, delimited, from, pos)
  IN  from[1]
=============================================================================
