------------------------------- MODULE Values -------------------------------
(***************************************************************************)
(* The public values of types.ts and errors.ts, and their conversions to   *)
(* and from the wire structs in convert.ts.                                *)
(*                                                                         *)
(* A JavaScript string is the sequence of its UTF-16 code units.  On the   *)
(* wire a string is the sequence of its UTF-8 bytes (Wire.tla).  What may  *)
(* throw is the set of its outcomes: one, or none.                         *)
(***************************************************************************)
EXTENDS Messages, TLC

CONSTANT MaxNameLen   \* MAX_NAME_LEN

ASSUME NameAssumption == MaxNameLen \in Nat

ZERO == <<>>   \* as the digits of Wire.tla

-----------------------------------------------------------------------------
(* Strings.                                                                *)

HighSurrogate(unit) == unit \in 55296 .. 56319
LowSurrogate(unit) == unit \in 56320 .. 57343
PairAt(value, i) ==
  i < Len(value) /\ HighSurrogate(value[i]) /\ LowSurrogate(value[i + 1])

\* No surrogate stands outside a pair.
WellFormed(value) ==
  \A i \in DOMAIN value :
    /\ HighSurrogate(value[i]) => PairAt(value, i)
    /\ LowSurrogate(value[i]) => i > 1 /\ PairAt(value, i - 1)

\* TextEncoder: a surrogate outside a pair becomes U+FFFD.
Utf8(value) ==
  LET scalar(n) ==
        CASE n < 128   -> <<n>>
          [] n \in 128 .. 2047 -> <<192 + (n \div 64), 128 + (n % 64)>>
          [] n > 2047  -> <<224 + (n \div 4096), 128 + ((n \div 64) % 64), 128 + (n % 64)>>
      pair(high, low) ==
        LET n == 65536 + 1024 * (high - 55296) + (low - 56320)
        IN  <<240 + (n \div 262144), 128 + ((n \div 4096) % 64), 128 + ((n \div 64) % 64), 128 + (n % 64)>>
      from[i \in 1 .. Len(value) + 2] ==
        IF i > Len(value) THEN <<>>
        ELSE IF PairAt(value, i) THEN pair(value[i], value[i + 1]) \o from[i + 2]
        ELSE scalar(IF value[i] \in 55296 .. 57343 THEN 65533 ELSE value[i]) \o from[i + 1]
  IN  from[1]

\* TextDecoder, of bytes that are UTF-8: it drops a byte order mark at the start.
ByteOrderMark == <<239, 187, 191>>
FromUtf8(bytes) ==
  LET low(i) == bytes[i] % 64
      pair(n) == <<55296 + ((n - 65536) \div 1024), 56320 + ((n - 65536) % 1024)>>
      from[i \in 1 .. Len(bytes) + 4] ==
        IF i > Len(bytes) THEN <<>>
        ELSE IF bytes[i] < 128 THEN <<bytes[i]>> \o from[i + 1]
        ELSE IF bytes[i] < 224 THEN <<64 * (bytes[i] - 192) + low(i + 1)>> \o from[i + 2]
        ELSE IF bytes[i] < 240
             THEN <<4096 * (bytes[i] - 224) + 64 * low(i + 1) + low(i + 2)>> \o from[i + 3]
        ELSE pair(262144 * (bytes[i] - 240) + 4096 * low(i + 1) + 64 * low(i + 2) + low(i + 3))
               \o from[i + 4]
  IN  from[IF IsPrefix(ByteOrderMark, bytes) THEN 4 ELSE 1]

\* Mutant: the units are counted, not the bytes.
Utf8ByteLengthUnits(value) == Len(value)

\* The count of utf8ByteLength: it takes any high surrogate for the first of a pair.
Utf8ByteLength(value) ==
  LET from[i \in 1 .. Len(value) + 2] ==
        IF i > Len(value) THEN 0
        ELSE IF value[i] < 128 THEN 1 + from[i + 1]
        ELSE IF value[i] < 2048 THEN 2 + from[i + 1]
        ELSE IF HighSurrogate(value[i]) THEN 4 + from[i + 2]
        ELSE 3 + from[i + 1]
  IN  from[1]

ValidName(value) == value # <<>> /\ Utf8ByteLength(value) <= MaxNameLen

\* The order of Array.sort: unit by unit.
Before(s, t) ==
  \/ IsStrictPrefix(s, t)
  \/ \E i \in DOMAIN s \cap DOMAIN t :
       s[i] < t[i] /\ SubSeq(s, 1, i - 1) = SubSeq(t, 1, i - 1)

\* Mutant: the tags are left as the caller has them.
ValidatedTagSetUnsorted(tags) ==
  {t \in {tags} : (\A i \in DOMAIN t : ValidName(t[i])) /\ IsInjective(t)}

ValidatedTagSet(tags) ==
  {SortSeq(t, Before) :
     t \in {s \in {tags} : (\A i \in DOMAIN s : ValidName(s[i])) /\ IsInjective(s)}}

ValidatedTypes(types) == {t \in {types} : \A i \in DOMAIN t : ValidName(t[i])}

-----------------------------------------------------------------------------
(* Events, queries, conditions.                                            *)

EventCreate(type, tags, payload) ==
  {[type |-> type, tags |-> sorted, payload |-> payload] :
     sorted \in {t \in ValidatedTagSet(tags) : ValidName(type)}}

QueryItemOf(types, tags) ==
  {[types |-> valid, tags |-> sorted] :
     valid \in ValidatedTypes(types), sorted \in ValidatedTagSet(tags)}

QueryAll == [matchAll |-> TRUE, items |-> <<>>]
QueryItems(items) == [matchAll |-> FALSE, items |-> items]

ConditionCreate(query, after, exists) ==
  [failIfEventsMatch |-> query, after |-> after, failIfExists |-> exists]

ExistsOnly(query) == ConditionCreate(QueryItems(<<>>), ZERO, {query})

-----------------------------------------------------------------------------
(* To the wire.                                                            *)

AllUtf8(values) == [i \in DOMAIN values |-> Utf8(values[i])]

EventToWire(event) ==
  [type |-> Utf8(event.type), tags |-> AllUtf8(event.tags), payload |-> event.payload]

QueryToWire(query) ==
  IF query.matchAll
  THEN [all |-> TRUE, items |-> <<>>]
  ELSE [all |-> FALSE,
        items |-> [i \in DOMAIN query.items |->
                     [types |-> AllUtf8(query.items[i].types),
                      tags |-> AllUtf8(query.items[i].tags)]]]

ConditionToWire(condition) ==
  [failIfEventsMatch |-> QueryToWire(condition.failIfEventsMatch),
   after |-> condition.after,
   failIfExists |-> {QueryToWire(q) : q \in condition.failIfExists}]

-----------------------------------------------------------------------------
(* From the wire.                                                          *)

AllFromUtf8(values) == [i \in DOMAIN values |-> FromUtf8(values[i])]

\* A sequenced event without its event throws.  The names are not validated again.
SequencedFromWire(seq) ==
  {[position |-> seq.position,
    event |-> [type |-> FromUtf8(event.type), tags |-> AllFromUtf8(event.tags),
               payload |-> event.payload]] : event \in seq.event}

WIRE_ERROR_CODES ==
  <<"conflict", "after_beyond_tip", "empty", "too_large", "bad_request", "internal",
    "shutdown", "unauthenticated", "already_exists">>

\* Mutant: the names are counted from zero.
ErrorCodeShifted(code) ==
  IF code + 1 \in DOMAIN WIRE_ERROR_CODES THEN WIRE_ERROR_CODES[code + 1] ELSE "unknown"
ErrorCodeFromWire(code) ==
  IF code \in DOMAIN WIRE_ERROR_CODES THEN WIRE_ERROR_CODES[code] ELSE "unknown"

ServerErrorFromWire(res) == [res EXCEPT !.code = ErrorCodeFromWire(res.code)]
=============================================================================
