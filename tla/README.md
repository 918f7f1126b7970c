# tephra-js in TLA+

Specifications of the tephra JavaScript client (`src/src/`), the TLC runs that
check them and the theorems TLAPS proves about them. The client multiplexes
requests over a few sockets, with no retries and no reconnection. Its hard part
is not the protocol but what callbacks, awaits and microtasks do to each other
around a shared socket; that is what the modules are about.

`PROJECT.json` lists the components, the runs, the hazards with the properties
that cover them, the theorems, and, for every definition, the source lines it
translates. Paths below are relative to `src/src/`.

## The system

| Part | State it keeps | Operations | What is hard |
| --- | --- | --- | --- |
| `connection.ts` Conn | pending map, id counter, two queues (`outbound`, `priority`), `dead`, writer loop | hello, append, stats, read, subscribe, cancel, close; routing of frames; socket events | every `send*Request` suspends twice (permit, slot) and resumes into a state that may have changed; the writer sleeps, batches and waits for drain; death at any point; late frames |
| `util.ts` Semaphore, Gate | permits and FIFO waiters; one waiter or one stored signal | acquire, release, drainWaiters; signal, wait | direct hand-over of permits, lost or doubled wake-ups |
| `streams.ts` Sink, BaseStream | buffer, waiting `next()`, end, `closed`, watermark | push, finish, fail, next; abort, close, iterate, collect | an end racing buffered items, a waiting loop, an abort and a close |
| `client.ts` Client | control connection, bulk pool, round-robin index, `closed` | connect, calls, close | several dials and handshakes failing at different times |
| `transport.ts` dialSocket | `settled` of one dial | ready, error, timeout, abort | four outcomes racing |
| `framing.ts` | decoder buffer | writeFrame, push | chunks cut anywhere, an oversized length |
| `options.ts` | none | defaults and clamping | fractions, zero, numbers that are not finite |
| `types.ts`, `convert.ts`, `errors.ts` | none | validation of names and tags, conversions to and from the wire, error codes | UTF-16 on this side, UTF-8 on the other; two clauses of a condition |
| `proto/wire.ts`, `proto/messages.ts` | a cursor | encode, decode | presence of zeros, 64-bit numbers, fields of a newer server, torn messages |
| tephra server (external) | requests it serves | answers, stops at a cancel | responses that cross a cancel |

A `Client` owns its `Conn`s. A call goes from `Client` to one `Conn`, which
registers it in `pending`, waits for an in-flight permit, then for a slot of the
outbound queue, and leaves a frame for the writer. A chunk of the socket goes
through the decoder to `route`, which finds the entry and settles a `Deferred`
or feeds a stream. A cancel takes neither permit nor slot and goes to a queue of
its own that the writer empties first. Death (a bad frame, a socket event, a
close) settles all that is pending at one stroke.

## How it is modelled

JavaScript runs one continuation at a time, so each action is one uninterrupted
piece of code: from a call to its first `await`, from one `await` to the next,
or one callback. Where the order of continuations matters (`Connection`,
`Streams`) the microtask queue is a variable, `tasks`, a FIFO of the coroutines
whose `await` has been resolved. Socket events are due only when it is empty.
Calls of the user, which are continuations of other code, may fall between any
two microtasks. The frames of one chunk are routed with nothing in between
(`inData`).

In `Codec` bytes are bytes; a uint64 is the sequence of its base-128 digits,
since TLC's integers are narrower; a string is the sequence of its UTF-16 units
in the caller's hands and of its UTF-8 bytes on the wire. Elsewhere
data is abstracted to what the properties tell apart: a frame to the request
it names, an error to its class, an item to its number.

| Module | Models | State and actions |
| --- | --- | --- |
| `Semaphore` | `Semaphore` of `util.ts` | operators on `[permits, waiters]`; a release hands the permit to the first waiter, and the caller of the operator queues the microtask it wakes |
| `Connection` | `Conn`, `Gate` | one action per call (`Unary`, `Stream`, each also with a signal aborted beforehand), abort, close, resumption of a coroutine (`ResumeGone/Dead/TooLarge/Permitted/Queued/SlotDead`), writer step, kind of response and socket event; the server may send anything |
| `Session` | `Connection` and a server that follows the protocol | the server takes the frames of `wire` in order and answers what it serves; a garbled frame or an error without a request kills the connection at any point of a chunk (`FatalFrame`) while its socket stays open |
| `Requests` | abstract | what a connection promises: each request settled once, all open ones by the loss of the connection, none with success after it |
| `Streams` | `Sink`, `BaseStream` and their subclasses, with the reader that feeds them and the loops that iterate them | reader frames, end, errors; abort, close, break; the four cases of `next()` |
| `Feed` | abstract | what a stream promises: every item given out, one end, told after the last item and to all alike |
| `Client` | `Client.connect`, `dialSocket`, `Conn.connect`, `pickBulk`, `close` | per connection a phase and a socket; connections interleave freely |
| `Lane` | abstract | a connection reduced to its open requests, the budget and who holds a permit of it: issue, settle, give a permit back, lose the connection |
| `Opening` | `dialSocket` followed by `Connection` | socket ready, fails, aborted, then every step of `Connection`; checked to be a connection of `Client` and a lane of `Lane` |
| `Options` | `resolveConfig` | an option is unset, not finite or a count of halves |
| `Lanes` | the connected client: `append`, `stats`, `read`, `readBack`, `subscribe` over several lanes, and a server | the steps of `Client`, each with what it does to the lanes; calls, aborts, answers, connections lost |
| `Framing` | `writeFrame`, `FrameDecoder` | bytes; the loop of `push` as a recursive function of the offset; chunks of every length |
| `Wire`, `Decoder`, `Messages` | `Writer`, `Reader`; every encoder and decoder of `messages.ts` | operators on bytes; a read is the set of its outcomes, none when the code throws; `ReadFields` takes a body apart, `Decoder` is the loop all decoders share, instantiated for each message with its fresh value and its `switch` |
| `Values` | `types.ts`, `convert.ts`, the codes of `errors.ts`, `TextEncoder` and `TextDecoder` | operators; what may throw is the set of its outcomes |
| `Codec` | `Framing`, `Messages` and `Values` together, on what the peer writes and on what a user appends | the messages, the same with fields of a newer protocol, and torn bodies; appends of a user and the event that comes back |

Three translations need a word. `Connection`'s `Init` is the state after the
constructor and `hello()` up to its first `await`, since no step can fall
between them. A microtask that only passes a rejection on and changes nothing
(the catch block after `enqueue` throws) has no action of its own: that it
changes nothing is the invariant `DeadPendingUnsent`. The three `send*Request`
coroutines are one text with three error callbacks and are one set of actions.

## Runs

| Run | Question and bounds |
| --- | --- |
| `connection_all_kinds` | a dial, then all four operations and every response; budget 1, depth 1, 3 ids: `PendingIsOpen`, `DeadPendingUnsent`, `PermitOwners`; `OpensAsSeen` and `ActsAsLane`, that the abstractions of a connection in `Client` and `Lane` are sound |
| `connection_contention` | appends and reads, 4 ids, budget 2, depth 1: conservation of permits and slots, issue order, no lost or doubled wake-up, no stale request sent, silence after death |
| `session_contract` | appends, reads and subscriptions with a conforming server and a connection that may break in every way, budget 1, depth 1, 3 ids: `Session` implements `Requests`, no request ends in a protocol error; every open request on a live connection is settled unless subscriptions hold every permit; the writer of a dead one ends |
| `stream_contract` | two loops over one stream, 4 items in frames of up to 3: order, one end, wake-ups; `Streams` implements `Feed`; loops over an ended stream end |
| `client_lanes` | 1 + 2 connections from the options on, one permit each, 2 requests of three kinds besides the Hellos and up to 3 picks of each connection: all or nothing, round robin, the connect settles; a lost connection takes only its own requests; appends, and reads of a connection that is neither lost nor saturated, are answered |
| `inbound_bytes` | messages of every kind (numbers of one, two and ten groups, optional fields absent, zero and set), each also with an unknown field of each wire type at each place, and each torn within its first 40 bytes; up to 2 small frames with 4 oversized lengths (one for each byte of the prefix); appends with every name of up to three units out of five (one for each width and each half of a pair), two tags in any order, 96 conditions; chunks of up to 21 bytes; the longest body has exactly the maximal length, and names reach 6 bytes, which is the limit, and 9, which is past it |

Bounds. `MaxId` stops the user from issuing requests; cancels draw ids from the
same counter but come at most once per request. Budget and depth of 1 make every
second request wait, which is the interesting case; with 2 permits and 1 slot
coroutines queue at the second semaphore too, behind each other. Two requests behind
the Hello, in `connection_all_kinds` and `session_contract`, let one hold the budget
while the other waits and either is cancelled; three, in `connection_contention`, let
one hold, one wait and one be cancelled in between. Items, calls and
frames are bounded by `MaxItems`, `MaxFrame`, `MaxCalls`, `Traffic`, `MaxTail`,
`MaxChunk`; each is large enough for its actions to fire several times. Two
loops over a stream are enough for one to wait and one to be refused. In
`client_lanes` the pool has two connections, so that one is lost or saturated and
the other is not, and a budget of one, so that a subscription saturates its
connection; a read that throws over its limit takes a turn, which is how both
requests come to the same connection. The options of that run give these numbers
by a fraction and by an option below one, the defaults being one and two.
`CHECK_DEADLOCK` is off where the system may stop: a closed
connection, stream or client does nothing more, and the calls of the user are
bounded.

Each property is paired with a mutant, a plausible slip in a mapped definition
under which TLC finds that property violated. They stand next to the definition
they replace and nothing else uses them.

Fairness. Only the event loop and the environment the docs presuppose are fair:
microtasks run, a chunk ends, a destroyed socket emits `close`, a full buffer
drains while the socket is open, the server takes frames and answers everything
but a subscription, a dial ends, a loop calls `next()` again as `collect()` does.
In `Session` the drain and the server's last response are strongly fair: a server
may send items of a stream without end, and neither event is enabled while their
chunks are routed, so they are due again and again rather than all the time.
A connection killed by a bad frame keeps its socket open until the client closes it;
a writer that is parked then ends by the drain of that socket, on which `WriterEnds`
rests, or by its close.
A dial ends by `connectTimeout` or, since that is unset by default, by TCP's own;
the timeout of a socket is an idle timer, so a TLS peer that sends a byte now and
then postpones it, which the fairness of `Client` leaves out. The user, network
failures and, in the run about the Hello, the server's answer to it are not fair.
A subscription keeps its permit until it ends, so with enough of them nothing
else is ever sent on their connection, by design of the budget: the liveness
properties of requests end in "or saturated".

## Where the code and its documentation part

Each is a run that must find its property violated; `PROJECT.json` quotes the
line.

- `dead_connection_hang` (`NoCallerHangs`): a stream opened on a dead connection
  whose permits were all held waits for ever. `read` and `subscribe` do not look
  at `dead`, and death does not wake those who wait for a permit.
- `cancel_overtakes` (`CancelledAtServer`): a cancel jumps ahead of its own
  request when that is still queued; the server then serves a request nobody
  listens to.
- `collect_truncated` (`CollectIsWhole`): `collect()` of a stream that someone
  closes resolves with what there was and watermark 0.
- `abort_ignored_in_hello` (`AbortSettles`): the connect's signal does not reach
  the wait for the Hello's answer. (For the same reason a dial that failed is not
  reported while another connection's Hello is unanswered.)
- `framing_buffer_grows` (`BufferBounded`): the decoder is fed on after it has
  refused a length and keeps every chunk.
- `event_round_trip` (`TypeRoundTrips`): the decoder of strings drops a leading
  U+FEFF, so an event whose type starts with one comes back as another type.

More, without a run. A negative or infinite `connectTimeout` makes `setTimeout`
throw in `dialSocket` after the socket was created: the dial is rejected and the
socket stays. `utf8ByteLength` takes a high surrogate for the first of a pair
whatever follows it, so an ill-formed name may pass the length check and be
encoded to more bytes than the limit. `messages.ts` says that it follows `tephra.proto` exactly,
but Hello (field 7 of a request, 8 of a response) is not in that file. And an auth
token that is the empty string is written like one that is absent; `Understood`
is stated modulo that (`AsWritten`).

## Proofs

TLC checks small instances; the theorems hold for every value of the constants,
from the named assumptions `ConfigAssumption`, `ClientAssumption`,
`OptionsAssumption` (an option is unset or one number), `StreamAssumption`,
`FramingAssumption` (a frame's length is one that four bytes can say) and no
others. Each says what kind of value a constant is. `PROJECT.json` lists what each
theorem establishes; here is how it is proved. An invariant that a run checks is
seldom inductive, so each proof names a stronger one.

| Module | Theorem: property | Inductive invariant, and why it has to be stronger |
| --- | --- | --- |
| `ConnectionProofs` | `Typing`: `TypeOK` | itself; one lemma per helper (`AcquireType`, `CancelType`, `FailConnectionType`, ...) and one per action |
| | `TableAgrees`, `NothingSentAfterDeath`: `PendingIsOpen`, `DeadPendingUnsent`; `GoneStaysUnsent`: `GoneIsNotSent` | `TableInv`, the first two with the types: that an entry is an open request is kept by a death only since nothing registers a sent request on a dead connection. A step past the first `await` finds the entry (`Progress`), so the request is open |
| | `AsleepOnlyIdle`: `WriterAsleepIdle`; `DeathSilences`: `SilentWhenDead` | with the types only; a lemma for each group of actions |
| | `BudgetConserved`, `OwnersKnown`: `InflightBudget`, `PermitOwners` | `BudgetInv`, both together. Free permits and holders add up only as long as nobody holds a permit it also waits for, nobody waits twice and no entry of a dead connection has one to release. Each helper that moves a permit has a lemma on the set of holders (`Granting`, `permitted`) |
| `PipelineProofs` | `EachWokenOnce`: `WokenOnce` | `PipeInv`: who is at the first `await` waits in the line for permits or is due in `tasks`, once, and the same for slots; each line is in order, behind those due, and all at the second `await` are older than all at the first; the writer is due just when it was resumed. Where each coroutine is has to be known to see that none is woken twice |
| | `OrderKeptToSocket`: `InIssueOrder` | `OrderInv`: with `PipeInv`, what has departed is older than all that are still at an `await`. Order on the wire alone is not inductive: an overtaking could be under way in a queue |
| | `DepthConserved`: `QueueDepth` | `DepthInv`, with `PipeInv`: the count of slots as `BudgetInv` counts permits, and the writer's many releases at once (`RisingCount`) |
| `OpeningProofs` | `OpenedAsSeen`: `OpensAsSeen`; `TreatedAsLane`: `ActsAsLane` | `OpeningInv`: `TableInv`, and until its Hello is settled a connection has its socket and is neither dead nor closed; for the lane, `BudgetInv`. Every step is mapped to the step of `Client` or `Lane` it is, or to none |
| | `ProtocolUnderstood`: `NoProtocolError`; `ContractKept`: `KeepsContract` | `SessionInv`: with `OrderInv` and `TableInv`'s parts, the server serves only what was written, so a request whose coroutine is past both its awaits, which on a dead connection has no entry. From it the refinement of `Requests`, step by step |
| `StreamsProofs` | `Typing`; `FlagsAgree`: `OneEnd` | `TypeOK` and the flags |
| | `WatermarkFinal`: `WatermarkIsFinal` | with `Fresh`, that a stream with an entry has met no end yet |
| | `ItemsInOrder`: `EveryItemOnce` | with `WaitsEmpty`, that the sink buffers nothing while a loop waits: an item handed straight to a loop would else overtake the buffer. `StepCases` reduces a step to the five ways it can touch the items or the flags |
| | `LoopsMatched`: `LoopAwaited` | `LoopInv`: a loop that awaits is in `waiting` or has exactly one task (`Matched`), and every task tells what the sink knew (`AllHonest`) |
| | `PromiseKept`: `KeepsPromise` | `LoopInv`: the refinement of `Feed`, step by step |
| `LanesProofs` | `Typing`; `ConnectAtomic`: `AllOrNothing` | with `GivenUp`, that a rejected connection has no open socket and only a connected client is closed; no step opens a socket, and a handshake once passed stays so |
| | `RoundRobin`: `FairShare` | `Turns`: the connections before the index are one call ahead of the others |
| | `ClientWithin`: `LanesSpec => Spec` | every step of the client with calls is a step of `Client` or leaves it alone; with it the theorems about `Client` hold of `Lanes` (`LanesClient`) |
| | `LanesTyping`, `LossContained`: `LanesTypeOK`, `LossIsLocal` | `LanesInv`: what is open on a lane is what the log of requests has open on it (`Agreed`), free and held permits stay within the budget, the Hello holds its permit until its connection is open. That options resolve to whole positive numbers is proved from `resolveConfig` |
| `BytesProofs` | `Typing`; `CutAnywhere`: `Reassembled`; `RefusedInTime`: `RefusedAtHeader` | `FramingInv`: for some k the decoder has returned the first k frames and holds what came after them |

The library's induction rules are stated with an operator parameter and cannot be
used, but the well-foundedness of "<" can: a set of numbers has a least element
(`Least`), so each induction over data takes the least number for which the claim
fails. In that way the recursive functions of `Framing` are shown to exist
(`RunExists`, `SumsExist`), the stream to have the layout the peer gave it
(`WrittenLayout`), and the loop of `push` to return the frames that are whole
(`ScanStretch`), from the last one back. The four bytes of a length are arithmetic
(`FourDigits`).

The theorems about the messages are not about runs: they hold of every message there
is, of every body that can be made of it, and so of what `Codec` lets the peer write.

| Module | Theorem | Lemmas it rests on |
| --- | --- | --- |
| `BytesProofs` | the part on `Wire` | a number is read as it was written in base 128, whatever its width, a field as it was written, and a field cut short not at all; `ReadFields` of a body is the fields of its pieces, in order |
| `DecoderProofs` | `Decoder` for any `Fresh`, `Case` and set of readable fields | the loop over a body that was put together piece by piece arrives at the message those pieces lead to; over a body cut short, at one of those on the way; an unknown field leaves it where it is |
| `CodecProofs` | `ResponseBack`, `RequestBack` | every message of fewer than 2^28 bytes (`Small`), of every kind, with error codes and protocol versions below 2^28, is decoded to itself; for each of the message types one lemma on what its encoder writes and one on what its `switch` does with it, then the instance of `DecoderProofs`. A request's auth token, if there is one, is not empty |
| | `ResponseNewer`, `RequestNewer` | a field no decoder knows, before, between or after the others, changes nothing |
| | `ResponseTorn` | a body cut anywhere is refused, or is the whole message, or has no content |
| | `UnderstoodInvariant`: `Understood`; `TornRefusedInvariant`: `TornRefused` | the five theorems above, for the messages of `Codec` |

Failed proofs changed the model four times. The value of `Sock` in `Opening` was not
determined where two cases of a `CASE` overlap; it is a nested `IF` now. `Lanes`
let the user call beyond the bound that `Client` has, so that it was not a `Client`.
The decoders of `Messages` were one recursion each, on bytes and fields at once; they
are `ReadFields` and one `Decoder` now, so that what holds of every loop is proved
once. And in `Codec` the operands of a union are in parentheses, since the prover
and TLC bind `UNION` differently. `InIssueOrder` is stated over the sequence
`Departing`, which names what it compares.

Only model-checked. The liveness properties (`EventuallySettled`, `WriterEnds`,
`LoopsEnd`, `ConnectSettles`, `AppendsFlow`, `ReadsFlow`), since fairness is out of
the prover's reach. What `Codec` says of
names, tags and conditions (`WellFormedNamesChecked`, `CallAsMeant`,
`AnswerAsMeant`): it rests on UTF-8 and on the order of `sort`, each a recursion over
strings of its own. And the properties that must fail, each refuted by its run.

## How the modules rest on each other

`Connection` is the whole of one connection. Two abstractions of it are used to
build a client out of several, and the run `connection_all_kinds` checks both on
every step: `Client` sees how far a connection's opening has come and its socket
(`OpensAsSeen`), `Lane` its open requests and its budget (`ActsAsLane`).
`Lanes` extends `Client`: each of its steps is a step of `Client` or leaves
`Client`'s variables alone (proved: `ClientWithin`), and
changes each lane as `Lane` allows. Calls are bounded by `MaxIssued` as well as
`MaxCalls`. `Requests` and `Feed` are what a connection and
a stream promise; `Session` and `Streams` are checked to implement them.

## Not modelled

`parseAddress` and `toBigIntLimit` are modelled as what may throw, and where:
before any dial, and after a bulk connection was picked. A limit that is negative,
which the codec would write as its lowest 64 bits, is left out, and so are bytes
that are not UTF-8, and a `connectTimeout` that Node refuses. `statsFromWire` and
`appendResultFromWire` copy field by field. `Number()` is exact below 2^28 and one
value from there on (`Wire`, `AboveAnyLength`), where JavaScript is exact up to 2^53,
so the model does not tell apart error codes, protocol versions or lengths beyond; a
field key above 2^53, which JavaScript rounds and no protocol has, is taken by its low
32 bits. The Writer's growing buffer is the
sequence of what was appended. The merging of a batch into one buffer
(`concatFrames`) is the concatenation of its frames. TLS is inside the step that
makes a socket ready. The server is external. `drainWaiters` hands out slots that
nobody returns to the count; a dead connection never uses the surplus
(`DeadPendingUnsent`, `SilentWhenDead`). In `Lanes` a connection's queue and writer are
left out: a request that has its permit is answered or not.

## Plan

1. Done: `Semaphore`, `Connection`, `Session`, `Requests`; `Streams`, `Feed`;
   `Client`, `Lane`, `Opening`, `Options`, `Lanes`; `Framing`, `Wire`, `Messages`,
   `Values`, `Codec`.
2. Done: every invariant and step property of a connection, of a stream, of a client
   and of the decoder is a theorem, and so are the four refinements; and that messages
   of every kind are understood, newer ones too, and torn ones refused.
3. Next: lemmas on strings: that `utf8ByteLength` is the length of what `TextEncoder`
   makes of a well-formed name, and that `TextDecoder` gives the name back.
