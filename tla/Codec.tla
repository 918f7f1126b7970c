------------------------------- MODULE Codec -------------------------------
(***************************************************************************)
(* What happens to the bytes of a socket before they are routed: the frame *)
(* decoder of Framing.tla, the message decoders of Messages.tla on each    *)
(* body it returns (Conn.onData, Conn.route), and the values of Values.tla *)
(* made of them.  The peer writes bodies of the messages below, as they    *)
(* are, with a field of a newer protocol in them, or torn.  In the other   *)
(* direction the bodies are the appends of a user; the server, external,   *)
(* sends the event it was given back to a reader.                          *)
(***************************************************************************)
EXTENDS Framing, Values

-----------------------------------------------------------------------------
(* Messages: every kind, with numbers of one group, of two and of all ten, *)
(* empty and one-byte strings, optional fields absent, zero and set.       *)

U64Max == [i \in 1 .. 10 |-> IF i < 10 THEN 127 ELSE 1]
U64s == {<<>>, <<1>>, <<0, 1>>, U64Max}
Strings == {<<>>, <<97>>}
AtMostOne(S) == {{}} \cup {{v} : v \in S}

Events ==
  {[type |-> type, tags |-> tags, payload |-> <<200>>] :
     type \in Strings, tags \in {<<>>, <<<<>>, <<98>>>>}}
Queries ==
  {[all |-> TRUE, items |-> <<>>], NoQuery,
   [all |-> FALSE, items |-> <<[types |-> <<<<97>>>>, tags |-> <<>>],
                               [types |-> <<>>, tags |-> <<<<98>>, <<>>>>]>>]}

Requests ==
  [requestId : {<<1>>, U64Max}, kind : {
     Kind("stats", Empty), Kind("cancel", [target |-> <<0, 1>>])}
   \cup {Kind("hello", [protocolVersion |-> 1, authToken |-> t]) : t \in AtMostOne(Strings)}]
  \cup [requestId : {<<1>>}, kind :
     {Kind("append", [events |-> <<e, e>>, condition |-> {}]) : e \in Events}
     \cup {Kind("append", [events |-> <<>>,
             condition |-> {[failIfEventsMatch |-> q, after |-> <<>>, failIfExists |-> x]}]) :
               q \in Queries, x \in AtMostOne(Queries)}
     \cup {Kind("read", [query |-> q, after |-> a, limit |-> l, reverse |-> r]) :
             q \in {NoQuery}, a \in {<<>>, U64Max}, l \in AtMostOne({<<>>, <<1>>}), r \in BOOLEAN}
     \cup {Kind("subscribe", [query |-> q, after |-> <<1>>]) : q \in Queries}]

SomeStats ==
  [name \in Range(StatsField) |->
     IF name \in {"version", "diskBytes"} THEN <<1>>
     ELSE IF name = "connectionsReaped" THEN <<0, 1>> ELSE <<>>]

Responses ==
  [requestId : {<<>>, <<0, 1>>}, kind :
     {Kind("append", [first |-> <<1>>, last |-> n]) : n \in U64s}
     \cup {Kind("readEvents", [events |-> <<[position |-> U64Max, event |-> e]>>]) :
             e \in AtMostOne(Events)}
     \cup {Kind("readEnd", [watermark |-> n]) : n \in U64s}
     \cup {Kind("caughtUp", [watermark |-> n]) : n \in U64s}
     \cup {Kind("error", [code |-> code, message |-> <<97>>, conflictPosition |-> p,
                          retryable |-> r]) :
             code \in {0, 9, 300}, p \in AtMostOne({<<>>, <<1>>}), r \in BOOLEAN}
     \cup {Kind("error", [code |-> code, message |-> <<>>, conflictPosition |-> {},
                          retryable |-> FALSE]) : code \in 1 .. 8}
     \cup {Kind("stats", SomeStats), NoKind,
           Kind("helloAck", [protocolVersion |-> 1, serverVersion |-> [i \in 1 .. 130 |-> 97]])}]

-----------------------------------------------------------------------------
(* What the peer writes.                                                   *)

\* A field no decoder knows, of each wire type: numbers of a tag of one byte, of two
\* and of five.
NewFields ==
  {Tag(15, VARINT) \o VarintBig(U64Max), Tag(16, LEN) \o <<2, 8, 1>>,
   Tag(15, FIXED64) \o [i \in 1 .. 8 |-> 255], Tag(33554432, FIXED32) \o <<8, 1, 8, 1>>}

With(fields, new) ==
  {FlattenSeq(SubSeq(fields, 1, i) \o <<new>> \o SubSeq(fields, i + 1, Len(fields))) :
     i \in 0 .. Len(fields)}

\* The bodies a newer peer writes for a message: a field of its own among the fields
\* of the message, or among those of a response's content.
NewerBodies(fields) == UNION {With(fields, new) : new \in NewFields}
NewerEnds(response) ==
  UNION {{FlattenSeq(UInt64(1, response.requestId)
            \o Delimited(IF response.kind.kind = "readEnd" THEN 4 ELSE 6, body)) :
            body \in With(EncodeWatermark(response.kind.content.watermark), new)} :
         new \in NewFields}

Ends == {response \in Responses : response.kind.kind \in {"readEnd", "caughtUp"}}

\* Whole bodies with what they mean.
Written ==
  {[means |-> m, body |-> FlattenSeq(EncodeResponse(m))] : m \in Responses}
  \cup (UNION {{[means |-> m, body |-> b] : b \in NewerBodies(EncodeResponse(m))} : m \in Responses})
  \cup (UNION {{[means |-> m, body |-> b] : b \in NewerEnds(m)} : m \in Ends})
WrittenBack ==
  {[means |-> m, body |-> FlattenSeq(EncodeRequest(m))] : m \in Requests}
  \cup (UNION {{[means |-> m, body |-> b] : b \in NewerBodies(EncodeRequest(m))} : m \in Requests})

\* The bodies cut short.
Torn ==
  UNION {{[of |-> w.means, body |-> SubSeq(w.body, 1, n)] : n \in 0 .. Min({Len(w.body), 40}) - 1} :
           w \in {v \in Written : v.means.requestId # <<>>}}

-----------------------------------------------------------------------------
(* What the user appends: every name of up to three units of one, two and  *)
(* three bytes and of either half of a pair; tags in every order; and the  *)
(* conditions there are.                                                   *)

Units == {97, 233, 8364, 55357, 56832}
Names == UNION {[1 .. n -> Units] : n \in 0 .. 3}
MarkedNames == {<<65279, 97>>, <<97, 65279>>}   \* a byte order mark, and not one
TagNames == {<<97>>, <<97, 97>>, <<8364>>, <<55357, 56832>>}
TagLists == UNION {[1 .. n -> TagNames] : n \in 0 .. 2}
Payload == <<7>>

UserQueries ==
  LET items == QueryItemOf(<<<<97>>, <<233>>>>, <<>>) \cup QueryItemOf(<<>>, <<<<8364>>, <<97>>>>)
                 \cup QueryItemOf(<<<<8364>>>>, <<<<97>>>>)
  IN  {QueryAll, QueryItems(<<>>)}
        \cup {QueryItems(s) : s \in UNION {[1 .. n -> items] : n \in 1 .. 2}}
Conditions ==
  {ConditionCreate(q, after, exists) :
     q \in UserQueries, after \in {ZERO, <<1>>}, exists \in {{}, {QueryAll}, {QueryItems(<<>>)}}}
  \cup {ExistsOnly(q) : q \in UserQueries}

Call(type, tags, condition) == [type |-> type, tags |-> tags, condition |-> condition]
Calls ==
  {Call(name, <<>>, {}) : name \in Names \cup MarkedNames}
  \cup {Call(<<97>>, tags, {}) : tags \in TagLists}
  \cup {Call(<<97>>, <<>>, {condition}) : condition \in Conditions}

\* append, if the event can be built; and what a later read of the event is sent.
AppendBody(call) ==
  {FlattenSeq(EncodeRequest([requestId |-> <<2>>, kind |-> Kind("append",
     [events |-> <<EventToWire(event)>>,
      condition |-> {ConditionToWire(c) : c \in call.condition}])])) :
     event \in EventCreate(call.type, call.tags, Payload)}
EchoBody(request) ==
  FlattenSeq(EncodeResponse([requestId |-> <<3>>, kind |-> Kind("readEvents",
    [events |-> <<[position |-> <<1>>, event |-> {request.kind.content.events[1]}]>>])]))
EchoOf(body) == SetToSeq({EchoBody(request) : request \in DecodeRequest(body)})

OneBody(bodies) == {[frames |-> <<body>>, bad |-> 0] : body \in bodies}
CallTraffic ==
  {[frames |-> FlattenSeq([i \in 1 .. Cardinality(AppendBody(call)) |->
                             LET body == CHOOSE b \in AppendBody(call) : TRUE
                             IN  <<body>> \o EchoOf(body)]),
    bad |-> 0, call |-> call] : call \in Calls}
AllTraffic ==
  OneBody({w.body : w \in Written \cup WrittenBack \cup Torn})
  \cup CallTraffic
  \cup [frames : UNION {[1 .. n -> {<<>>, <<0>>, <<2, 0>>}] : n \in 0 .. 2},
        bad : {0, MaxFrameLen + 1, 256, 65536, 16777216}]
SmallTraffic == [frames : {<<>>, <<<<0>>>>}, bad : {0, MaxFrameLen + 1}]

-----------------------------------------------------------------------------
(* Properties.                                                             *)

\* An empty token is written as none.
AsWritten(m) ==
  IF m.kind.kind = "hello" /\ m.kind.content.authToken = {<<>>}
  THEN [m EXCEPT !.kind.content.authToken = {}]
  ELSE m

\* Either side understands every body the other writes: each field arrives with the
\* value it had, zero and absent apart, at any width, and the fields of a newer
\* protocol change nothing wherever they stand.
Understood ==
  \A i \in DOMAIN emitted :
    /\ \A w \in Written : w.body = emitted[i] => DecodeResponse(w.body) = {w.means}
    /\ \A w \in WrittenBack : w.body = emitted[i] => DecodeRequest(w.body) = {AsWritten(w.means)}

\* A body cut short is refused, unless it is cut before its content or in a field
\* that is skipped: it never becomes a response with part of its content.
TornRefused ==
  \A i \in DOMAIN emitted : \A t \in Torn :
    t.body = emitted[i] =>
      \A m \in DecodeResponse(t.body) : m.kind = NoKind \/ m = t.of

\* The user's call, if this is one.
UserCalls == IF "call" \in DOMAIN sent THEN {sent.call} ELSE {}
WellFormedCall(call) == \A name \in {call.type} \cup Range(call.tags) : WellFormed(name)

\* The server's rules for an event: names of one to MaxNameLen bytes, no tag twice.
ServerAccepts(event) ==
  /\ \A name \in {event.type} \cup Range(event.tags) : Len(name) \in 1 .. MaxNameLen
  /\ IsInjective(event.tags)

\* Event.create promises to validate as the server does: of well-formed strings, it
\* accepts those of which the server accepts the bytes, and no others.
WellFormedNamesChecked ==
  \A call \in UserCalls : WellFormedCall(call) =>
    (sent.frames # <<>>
       <=> ServerAccepts([type |-> Utf8(call.type), tags |-> AllUtf8(call.tags)]))

\* What a query selects, as types.ts has it of the user's strings and the proto of the
\* server's; and when a condition fires over an event.
Selects(query, all, event) ==
  \/ all
  \/ \E i \in DOMAIN query.items :
       /\ query.items[i].types = <<>> \/ event.type \in Range(query.items[i].types)
       /\ Range(query.items[i].tags) \subseteq Range(event.tags)
Fires(condition, AllOf(_), event, position) ==
  \/ /\ position > Number(condition.after)
     /\ Selects(condition.failIfEventsMatch, AllOf(condition.failIfEventsMatch), event)
  \/ \E q \in condition.failIfExists : Selects(q, AllOf(q), event)

Stored ==
  UNION {EventCreate(type, tags, Payload) : type \in {<<97>>, <<8364>>}, tags \in TagLists}

\* An append arrives as the user meant it: the event has its type, its set of tags in
\* an order of the set's own, and its payload; no condition arrives where none was
\* given, and one that was fires over the same stored events, the boundary of an
\* existence guard over none.
CallAsMeant ==
  \A call \in UserCalls : emitted # <<>> =>
    \E request \in DecodeRequest(emitted[1]) :
      LET append == request.kind.content
          event == append.events[1]
      IN  /\ Len(append.events) = 1
          /\ event.type = Utf8(call.type)
          /\ Range(event.tags) = {Utf8(tag) : tag \in Range(call.tags)}
          /\ event.payload = Payload
          /\ append.condition = {} <=> call.condition = {}
          /\ \A other \in Calls :
               Range(other.tags) = Range(call.tags) /\ Len(other.tags) = Len(call.tags)
                 /\ other.type = call.type /\ other.condition = call.condition
               => AppendBody(other) = {emitted[1]}
          /\ \A condition \in call.condition, stored \in Stored, position \in 1 .. 2 :
               LET wireFires(c) == Fires(c, LAMBDA q : q.all, EventToWire(stored), position)
               IN  \E c \in append.condition :
                     wireFires(c) <=>
                       IF condition \in {ExistsOnly(q) : q \in condition.failIfExists}
                       THEN \E q \in condition.failIfExists : Selects(q, q.matchAll, stored)
                       ELSE Fires(condition, LAMBDA q : q.matchAll, stored, position)

\* What a read of an appended event returns to the user.
ReadBack(body) ==
  UNION {SequencedFromWire(m.kind.content.events[1]) : m \in DecodeResponse(body)}
Unmarked(name) == name = <<>> \/ name[1] # 65279

\* The names of the proto's error codes.
ProtoCode(code) ==
  CASE code = 1 -> "conflict"      [] code = 2 -> "after_beyond_tip" [] code = 3 -> "empty"
    [] code = 4 -> "too_large"     [] code = 5 -> "bad_request"      [] code = 6 -> "internal"
    [] code = 7 -> "shutdown"      [] code = 8 -> "unauthenticated"  [] code = 9 -> "already_exists"
    [] OTHER    -> "unknown"

\* An answer reaches the user as the server meant it: an error under the name the
\* proto has for its code; an event with the type, tags and payload it was appended
\* with; and a sequenced event that lacks its event not at all.
AnswerAsMeant ==
  /\ \A w \in Written : emitted = <<w.body>> /\ sent.frames = emitted =>
       LET content == w.means.kind.content IN
       CASE w.means.kind.kind = "error" ->
              ServerErrorFromWire(content).code = ProtoCode(content.code)
         [] w.means.kind.kind = "readEvents" ->
              SequencedFromWire(content.events[1]) = {} <=> content.events[1].event = {}
         [] OTHER -> TRUE
  /\ \A call \in UserCalls :
       Len(emitted) = 2 /\ WellFormedCall(call) /\ Unmarked(call.type) =>
         \E got \in ReadBack(emitted[2]) :
           /\ got.event.type = call.type
           /\ Range(got.event.tags) = Range(call.tags)
           /\ got.event.payload = Payload

\* A comment of the code says that an event never comes back as something the caller
\* did not submit: it has the type it was appended with, whatever that is.
TypeRoundTrips ==
  \A call \in UserCalls : Len(emitted) = 2 /\ WellFormedCall(call) =>
    \A got \in ReadBack(emitted[2]) : got.event.type = call.type
=============================================================================
