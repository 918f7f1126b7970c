------------------------------ MODULE Messages ------------------------------
(***************************************************************************)
(* The encoders and decoders of messages.ts.                               *)
(*                                                                         *)
(* An encoder yields the fields its Writer was given; a decoder the set of *)
(* its outcomes, one message or none when it throws.  A decoder is the     *)
(* message it starts with, the switch on the number of a field and the     *)
(* loop over the fields it reads (Decoder.tla).  An optional field is a    *)
(* set of at most one value, so that absent and zero differ.               *)
(***************************************************************************)
EXTENDS Wire

-----------------------------------------------------------------------------
(* Events and queries.                                                     *)

EncodeEvent(event) ==
  Bytes(1, event.type)
    \o Each(LAMBDA tag : Delimited(2, tag), event.tags)
    \o Bytes(3, event.payload)

FreshEvent == [type |-> <<>>, tags |-> <<>>, payload |-> <<>>]
EventCase(event, f) ==
  CASE f.no = 1 -> {[event EXCEPT !.type = f.value]}
    [] f.no = 2 -> {[event EXCEPT !.tags = Append(@, f.value)]}
    [] f.no = 3 -> {[event EXCEPT !.payload = f.value]}
    [] OTHER    -> {event}
EventLoop == INSTANCE Decoder WITH Fresh <- FreshEvent, Case <- EventCase
DecodeEvent(buf) ==
  UNION {EventLoop!Merged(fields) : fields \in ReadFields(buf, {}, {1, 2, 3})}

EncodeQueryItem(item) ==
  Each(LAMBDA type : Delimited(1, type), item.types)
    \o Each(LAMBDA tag : Delimited(2, tag), item.tags)

FreshQueryItem == [types |-> <<>>, tags |-> <<>>]
QueryItemCase(item, f) ==
  CASE f.no = 1 -> {[item EXCEPT !.types = Append(@, f.value)]}
    [] f.no = 2 -> {[item EXCEPT !.tags = Append(@, f.value)]}
    [] OTHER    -> {item}
QueryItemLoop == INSTANCE Decoder WITH Fresh <- FreshQueryItem, Case <- QueryItemCase
DecodeQueryItem(buf) ==
  UNION {QueryItemLoop!Merged(fields) : fields \in ReadFields(buf, {}, {1, 2})}

EncodeQuery(query) ==
  Bool(1, query.all) \o Each(LAMBDA item : Message(2, EncodeQueryItem(item)), query.items)

NoQuery == [all |-> FALSE, items |-> <<>>]

QueryCase(query, f) ==
  CASE f.no = 1 -> {[query EXCEPT !.all = (f.value # <<>>)]}
    [] f.no = 2 -> {[query EXCEPT !.items = Append(@, item)] :
                      item \in DecodeQueryItem(f.value)}
    [] OTHER    -> {query}
QueryLoop == INSTANCE Decoder WITH Fresh <- NoQuery, Case <- QueryCase
DecodeQuery(buf) ==
  UNION {QueryLoop!Merged(fields) : fields \in ReadFields(buf, {1}, {2})}

EncodeCondition(condition) ==
  Message(1, EncodeQuery(condition.failIfEventsMatch))
    \o UInt64(2, condition.after)
    \o Present(LAMBDA query : Message(3, EncodeQuery(query)), condition.failIfExists)

FreshCondition == [failIfEventsMatch |-> NoQuery, after |-> <<>>, failIfExists |-> {}]
ConditionCase(condition, f) ==
  CASE f.no = 1 -> {[condition EXCEPT !.failIfEventsMatch = query] :
                      query \in DecodeQuery(f.value)}
    [] f.no = 2 -> {[condition EXCEPT !.after = f.value]}
    [] f.no = 3 -> {[condition EXCEPT !.failIfExists = {query}] :
                      query \in DecodeQuery(f.value)}
    [] OTHER    -> {condition}
ConditionLoop == INSTANCE Decoder WITH Fresh <- FreshCondition, Case <- ConditionCase
DecodeCondition(buf) ==
  UNION {ConditionLoop!Merged(fields) : fields \in ReadFields(buf, {2}, {1, 3})}

-----------------------------------------------------------------------------
(* Requests.                                                               *)

EncodeAppendRequest(req) ==
  Each(LAMBDA event : Message(1, EncodeEvent(event)), req.events)
    \o Present(LAMBDA condition : Message(2, EncodeCondition(condition)), req.condition)

FreshAppendRequest == [events |-> <<>>, condition |-> {}]
AppendRequestCase(req, f) ==
  CASE f.no = 1 -> {[req EXCEPT !.events = Append(@, event)] :
                      event \in DecodeEvent(f.value)}
    [] f.no = 2 -> {[req EXCEPT !.condition = {condition}] :
                      condition \in DecodeCondition(f.value)}
    [] OTHER    -> {req}
AppendRequestLoop ==
  INSTANCE Decoder WITH Fresh <- FreshAppendRequest, Case <- AppendRequestCase
DecodeAppendRequest(buf) ==
  UNION {AppendRequestLoop!Merged(fields) : fields \in ReadFields(buf, {}, {1, 2})}

EncodeReadRequest(req) ==
  Message(1, EncodeQuery(req.query))
    \o UInt64(2, req.after)
    \o Present(LAMBDA limit : UInt64Present(3, limit), req.limit)
    \o Bool(4, req.reverse)

FreshReadRequest == [query |-> NoQuery, after |-> <<>>, limit |-> {}, reverse |-> FALSE]
ReadRequestCase(req, f) ==
  CASE f.no = 1 -> {[req EXCEPT !.query = query] : query \in DecodeQuery(f.value)}
    [] f.no = 2 -> {[req EXCEPT !.after = f.value]}
    [] f.no = 3 -> {[req EXCEPT !.limit = {f.value}]}
    [] f.no = 4 -> {[req EXCEPT !.reverse = (f.value # <<>>)]}
    [] OTHER    -> {req}
ReadRequestLoop == INSTANCE Decoder WITH Fresh <- FreshReadRequest, Case <- ReadRequestCase
DecodeReadRequest(buf) ==
  UNION {ReadRequestLoop!Merged(fields) : fields \in ReadFields(buf, {2, 3, 4}, {1})}

EncodeSubscribeRequest(req) ==
  Message(1, EncodeQuery(req.query)) \o UInt64(2, req.after)

FreshSubscribeRequest == [query |-> NoQuery, after |-> <<>>]
SubscribeRequestCase(req, f) ==
  CASE f.no = 1 -> {[req EXCEPT !.query = query] : query \in DecodeQuery(f.value)}
    [] f.no = 2 -> {[req EXCEPT !.after = f.value]}
    [] OTHER    -> {req}
SubscribeRequestLoop ==
  INSTANCE Decoder WITH Fresh <- FreshSubscribeRequest, Case <- SubscribeRequestCase
DecodeSubscribeRequest(buf) ==
  UNION {SubscribeRequestLoop!Merged(fields) : fields \in ReadFields(buf, {2}, {1})}

EncodeCancelRequest(req) == UInt64(1, req.target)

FreshCancelRequest == [target |-> <<>>]
CancelRequestCase(req, f) == IF f.no = 1 THEN {[req EXCEPT !.target = f.value]} ELSE {req}
CancelRequestLoop ==
  INSTANCE Decoder WITH Fresh <- FreshCancelRequest, Case <- CancelRequestCase
DecodeCancelRequest(buf) ==
  UNION {CancelRequestLoop!Merged(fields) : fields \in ReadFields(buf, {1}, {})}

\* A token that is empty is written like one that is absent.
EncodeHello(hello) ==
  UInt32(1, hello.protocolVersion) \o Present(LAMBDA token : Bytes(2, token), hello.authToken)

FreshHello == [protocolVersion |-> 0, authToken |-> {}]
HelloCase(hello, f) ==
  CASE f.no = 1 -> {[hello EXCEPT !.protocolVersion = Number(f.value)]}
    [] f.no = 2 -> {[hello EXCEPT !.authToken = {f.value}]}
    [] OTHER    -> {hello}
HelloLoop == INSTANCE Decoder WITH Fresh <- FreshHello, Case <- HelloCase
DecodeHello(buf) ==
  UNION {HelloLoop!Merged(fields) : fields \in ReadFields(buf, {1}, {2})}

\* A message of a oneof: its kind and, under the kind's name, its content.
Kind(kind, content) == [kind |-> kind, content |-> content]
Empty == [nothing |-> TRUE]
NoKind == Kind("none", Empty)

EncodeRequest(request) ==
  LET content == request.kind.content IN
  UInt64(1, request.requestId) \o
    CASE request.kind.kind = "append"    -> Message(2, EncodeAppendRequest(content))
      [] request.kind.kind = "read"      -> Message(3, EncodeReadRequest(content))
      [] request.kind.kind = "subscribe" -> Message(4, EncodeSubscribeRequest(content))
      [] request.kind.kind = "cancel"    -> Message(5, EncodeCancelRequest(content))
      [] request.kind.kind = "stats"     -> Message(6, <<>>)
      [] request.kind.kind = "hello"     -> Message(7, EncodeHello(content))
      [] request.kind.kind = "none"      -> <<>>

\* The outcomes of a oneof field: the last one read decides.
Chosen(message, kind, contents) == {[message EXCEPT !.kind = Kind(kind, c)] : c \in contents}

FreshRequest == [requestId |-> <<>>, kind |-> NoKind]
RequestCase(request, f) ==
  CASE f.no = 1 -> {[request EXCEPT !.requestId = f.value]}
    [] f.no = 2 -> Chosen(request, "append", DecodeAppendRequest(f.value))
    [] f.no = 3 -> Chosen(request, "read", DecodeReadRequest(f.value))
    [] f.no = 4 -> Chosen(request, "subscribe", DecodeSubscribeRequest(f.value))
    [] f.no = 5 -> Chosen(request, "cancel", DecodeCancelRequest(f.value))
    [] f.no = 6 -> Chosen(request, "stats", {Empty})
    [] f.no = 7 -> Chosen(request, "hello", DecodeHello(f.value))
    [] OTHER    -> {request}
RequestLoop == INSTANCE Decoder WITH Fresh <- FreshRequest, Case <- RequestCase
DecodeRequest(buf) ==
  UNION {RequestLoop!Merged(fields) : fields \in ReadFields(buf, {1}, 2 .. 7)}

-----------------------------------------------------------------------------
(* Responses.                                                              *)

EncodeSequencedEvent(event) ==
  UInt64(1, event.position) \o Present(LAMBDA e : Message(2, EncodeEvent(e)), event.event)

FreshSequencedEvent == [position |-> <<>>, event |-> {}]
SequencedEventCase(event, f) ==
  CASE f.no = 1 -> {[event EXCEPT !.position = f.value]}
    [] f.no = 2 -> {[event EXCEPT !.event = {e}] : e \in DecodeEvent(f.value)}
    [] OTHER    -> {event}
SequencedEventLoop ==
  INSTANCE Decoder WITH Fresh <- FreshSequencedEvent, Case <- SequencedEventCase
DecodeSequencedEvent(buf) ==
  UNION {SequencedEventLoop!Merged(fields) : fields \in ReadFields(buf, {1}, {2})}

EncodeAppendResponse(res) == UInt64(1, res.first) \o UInt64(2, res.last)

FreshAppendResponse == [first |-> <<>>, last |-> <<>>]
AppendResponseCase(res, f) ==
  CASE f.no = 1 -> {[res EXCEPT !.first = f.value]}
    [] f.no = 2 -> {[res EXCEPT !.last = f.value]}
    [] OTHER    -> {res}
AppendResponseLoop ==
  INSTANCE Decoder WITH Fresh <- FreshAppendResponse, Case <- AppendResponseCase
DecodeAppendResponse(buf) ==
  UNION {AppendResponseLoop!Merged(fields) : fields \in ReadFields(buf, {1, 2}, {})}

EncodeReadEvents(res) ==
  Each(LAMBDA event : Message(1, EncodeSequencedEvent(event)), res.events)

FreshReadEvents == [events |-> <<>>]
ReadEventsCase(res, f) ==
  IF f.no = 1 THEN {[res EXCEPT !.events = Append(@, event)] :
                      event \in DecodeSequencedEvent(f.value)}
              ELSE {res}
ReadEventsLoop == INSTANCE Decoder WITH Fresh <- FreshReadEvents, Case <- ReadEventsCase
DecodeReadEvents(buf) ==
  UNION {ReadEventsLoop!Merged(fields) : fields \in ReadFields(buf, {}, {1})}

EncodeWatermark(watermark) == UInt64(1, watermark)

FreshWatermark == <<>>
WatermarkCase(watermark, f) == IF f.no = 1 THEN {f.value} ELSE {watermark}
WatermarkLoop == INSTANCE Decoder WITH Fresh <- FreshWatermark, Case <- WatermarkCase
DecodeWatermark(buf) ==
  UNION {WatermarkLoop!Merged(fields) : fields \in ReadFields(buf, {1}, {})}

\* The names of the uint64 fields of a StatsResponse; its seventh is the version.
StatsField ==
  <<"eventCount", "segmentCount", "diskBytes", "uptimeSeconds", "activeConnections",
    "activeSubscriptions", "version", "connectionsRefused", "maxConnections",
    "connectionsReaped">>

EncodeStatsResponse(res) ==
  FlattenSeq([i \in 1 .. 10 |-> IF i = 7 THEN Bytes(i, res.version)
                                         ELSE UInt64(i, res[StatsField[i]])])

FreshStatsResponse == [name \in Range(StatsField) |-> <<>>]
StatsResponseCase(res, f) ==
  IF f.no \in 1 .. 10 THEN {[res EXCEPT ![StatsField[f.no]] = f.value]} ELSE {res}
StatsResponseLoop ==
  INSTANCE Decoder WITH Fresh <- FreshStatsResponse, Case <- StatsResponseCase
DecodeStatsResponse(buf) ==
  UNION {StatsResponseLoop!Merged(fields) : fields \in ReadFields(buf, (1 .. 10) \ {7}, {7})}

EncodeErrorResponse(res) ==
  UInt32(1, res.code)
    \o Bytes(2, res.message)
    \o Present(LAMBDA position : UInt64Present(3, position), res.conflictPosition)
    \o Bool(4, res.retryable)

FreshErrorResponse == [code |-> 0, message |-> <<>>, conflictPosition |-> {}, retryable |-> FALSE]
ErrorResponseCase(res, f) ==
  CASE f.no = 1 -> {[res EXCEPT !.code = Number(f.value)]}
    [] f.no = 2 -> {[res EXCEPT !.message = f.value]}
    [] f.no = 3 -> {[res EXCEPT !.conflictPosition = {f.value}]}
    [] f.no = 4 -> {[res EXCEPT !.retryable = (f.value # <<>>)]}
    [] OTHER    -> {res}
ErrorResponseLoop ==
  INSTANCE Decoder WITH Fresh <- FreshErrorResponse, Case <- ErrorResponseCase
DecodeErrorResponse(buf) ==
  UNION {ErrorResponseLoop!Merged(fields) : fields \in ReadFields(buf, {1, 3, 4}, {2})}

EncodeHelloAck(ack) == UInt32(1, ack.protocolVersion) \o Bytes(2, ack.serverVersion)

FreshHelloAck == [protocolVersion |-> 0, serverVersion |-> <<>>]
HelloAckCase(ack, f) ==
  CASE f.no = 1 -> {[ack EXCEPT !.protocolVersion = Number(f.value)]}
    [] f.no = 2 -> {[ack EXCEPT !.serverVersion = f.value]}
    [] OTHER    -> {ack}
HelloAckLoop == INSTANCE Decoder WITH Fresh <- FreshHelloAck, Case <- HelloAckCase
DecodeHelloAck(buf) ==
  UNION {HelloAckLoop!Merged(fields) : fields \in ReadFields(buf, {1}, {2})}

EncodeResponse(response) ==
  LET content == response.kind.content IN
  UInt64(1, response.requestId) \o
    CASE response.kind.kind = "append"     -> Message(2, EncodeAppendResponse(content))
      [] response.kind.kind = "readEvents" -> Message(3, EncodeReadEvents(content))
      [] response.kind.kind = "readEnd"    -> Message(4, EncodeWatermark(content.watermark))
      [] response.kind.kind = "error"      -> Message(5, EncodeErrorResponse(content))
      [] response.kind.kind = "caughtUp"   -> Message(6, EncodeWatermark(content.watermark))
      [] response.kind.kind = "stats"      -> Message(7, EncodeStatsResponse(content))
      [] response.kind.kind = "helloAck"   -> Message(8, EncodeHelloAck(content))
      [] response.kind.kind = "none"       -> <<>>

Watermarks(bytes) == {[watermark |-> w] : w \in DecodeWatermark(bytes)}
FreshResponse == [requestId |-> <<>>, kind |-> NoKind]
ResponseCase(response, f) ==
  CASE f.no = 1 -> {[response EXCEPT !.requestId = f.value]}
    [] f.no = 2 -> Chosen(response, "append", DecodeAppendResponse(f.value))
    [] f.no = 3 -> Chosen(response, "readEvents", DecodeReadEvents(f.value))
    [] f.no = 4 -> Chosen(response, "readEnd", Watermarks(f.value))
    [] f.no = 5 -> Chosen(response, "error", DecodeErrorResponse(f.value))
    [] f.no = 6 -> Chosen(response, "caughtUp", Watermarks(f.value))
    [] f.no = 7 -> Chosen(response, "stats", DecodeStatsResponse(f.value))
    [] f.no = 8 -> Chosen(response, "helloAck", DecodeHelloAck(f.value))
    [] OTHER    -> {response}
ResponseLoop == INSTANCE Decoder WITH Fresh <- FreshResponse, Case <- ResponseCase
DecodeResponse(buf) ==
  UNION {ResponseLoop!Merged(fields) : fields \in ReadFields(buf, {1}, 2 .. 8)}
=============================================================================
