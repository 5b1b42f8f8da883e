# LiveBooster in TLA+

LiveBooster is a C library for a small device that reaches the Live Objects
platform through a GSM modem.  This directory holds TLA+ models of it, the TLC
configurations that check them, and proofs.  Paths are relative to
`src/LiveBooster-C-Library/src/` unless they start with `src/`.

## The system

Everything runs in the one thread of the application, which loops over
`LiveBooster_Cycle`, calls `LiveBooster_Connect` when a result is negative and
`LiveBooster_PushData` when it has data
(`src/LiveBooster-LinuxApp/LinuxApp/Linux_test.c`, and the Mbed and Arduino
programs, which are near copies).  What makes the code hard is that everything
else is interleaved with that thread by polling: user callbacks run in the middle
of library calls and call back into the library, message handlers publish while
the loop that called them waits with the same deadline and the same buffers, two
TCP clients share one modem, and the modem mixes unsolicited notices with its
answers.

| Component | State | Operations | Meets |
|---|---|---|---|
| GSM FIFO, `heraclesGsm/GsmFifo.c` | array, two indices | clear, put, get, size, free size | filled by the modem driver, emptied by a TCP client |
| Modem driver, `heraclesGsm/HeraclesModem.c` | `sockets[2]`, `prev_check`, the serial line | init, connect, disconnect, send, read, maintain | called by both TCP clients, sets their `sock_available`, `sock_connected` |
| TCP client, `heraclesGsm/HeraclesTcpClient.c` | `mux`, `sock_connected`, `sock_available`, FIFO | connect, stop, read, write, available, connected | one for MQTT, whose init resets the modem, one for HTTP |
| MQTT client, `mqttClient/MqttClient.c` | `isconnected`, `ping_outstanding`, handlers, three instants, packet id, buffers | connect, subscribe, publish, yield, disconnect; inside: `cycle`, `keepalive`, `waitfor` | calls the handlers of the core, which publish |
| Core, `liveBooster/liveBoosterPacket/LiveBooster_core.c` | what is attached, `SetUpdatedRsc`, `SetUpdatedParam` | attach, connect, cycle, push data, get resources, close | calls the user callbacks |
| HTTP, `LiveBooster_http.c` | the HTTP TCP client | start, data, close | used by the resource transfer |
| Messages, `LiveBooster_msg_decode.c`, `_encode.c`, `_json_api.c` | static buffers | decode and apply a request, encode an answer | called by the handlers |
| `LiveBooster_code_b64.c`, `LiveBooster_md5.c`, `jsonParser/`, `mqttClient/MQTTPacket/` | none that lasts | pure functions; the last three are third-party | |

What makes each of them correct, in one line:

- FIFO: first in, first out; nothing lost, the free size exact.
- Modem and TCP clients: a byte reaches the client of its connection once and in
  order; a table entry belongs to one client and is given back.
- MQTT session: client and server agree on the session and its subscriptions;
  loss is noticed; errors leave no session that half exists.
- Resource transfer: complete means intact; one transfer at a time; the device
  becomes free again.
- Configuration: what is acknowledged was applied, what was applied is
  acknowledged.
- Commands and data: one answer per command; slots are not handed out twice.

`PROJECT.json` lists the hazards, each at its line, with the properties that
watch it.

## Modules

| Module | Models | Extends or instantiates |
|---|---|---|
| `BoundedQueue` | what the FIFO promises | |
| `GsmFifo` | `GsmFifo.c` | refines `BoundedQueue` |
| `GsmFifoProofs` | theorems | `GsmFifo`, `TLAPS` |
| `HeraclesTcp` | `HeraclesModem.c` and `HeraclesTcpClient.c` under the MQTT and the HTTP client | |
| `HeraclesTcpProofs` | theorems | `HeraclesTcp`, `TLAPS` |
| `ResourceTransfer` | what a transfer promises, request by request | |
| `ResourceDownload` | requests, answers, download, completion | refines `ResourceTransfer` |
| `ResourceDownloadProofs` | theorems, and the refinement of `ResourceTransfer` | `ResourceDownload`, `TLAPS` |
| `MqttSession` | the MQTT session with time, network and server | |
| `MqttSessionProofs` | theorems | `MqttSession`, `TLAPS` |
| `MqttPacket` | the bytes of the packets, pure operators | |
| `MqttPacketProofs` | theorems on bytes, strings and packets | `MqttPacket`, `TLAPS` |
| `MqttFraming` | packets over a stream: partial writes, reads that give up, topic matching | `MqttPacket` |
| `MqttFramingProofs` | theorems | `MqttFraming`, `MqttPacketProofs` |
| `DeviceMessages` | configuration parameters, commands, collected data | `Base64` |
| `DeviceMessagesProofs` | theorems | `DeviceMessages`, `TLAPS` |
| `Base64` | `LiveBooster_code_b64.c` and the server's side, pure operators | |
| `JsonText` | `LiveBooster_json_api.c` and `LiveBooster_msg_encode.c` in a buffer of fixed size | |
| `JsonTextProofs` | theorems | `JsonText`, `TLAPS` |
| `MC...` | instances for TLC | |

The modules meet at the calls between the components: `HeraclesTcp` takes from
`GsmFifo` that a FIFO is a bounded queue with an exact free size;
`ResourceDownload`, `MqttSession` and `MqttFraming` take from `HeraclesTcp` a
connection that delivers bytes in order or fails; `DeviceMessages` and
`ResourceDownload` run their handlers where `MqttSession` has `MessageAnswered`,
and see the session as something they lose; `JsonText` ends with the packet that
`MqttPacket` would make.

Definitions marked "Mutant" are faulty variants of the definition that follows
them, as a slip in the code would make them; replacing the one by the other must
break a property.  They are part of no specification.

### GsmFifo

`b`, `w`, `r` are the fields of `_GsmFifo`; `getting`, `n`, `c`, `p` the locals of
a `GsmFifo_Get` under way; `out` and `ret` what calls returned.  A get is split
into its call, one step for each piece it copies and its return, the code's own
loop; a put and a clear are one step.  The size of the array, 64 in the code, is
the constant `FIFO_SIZE`.

### ResourceDownload

`pc` says where the thread is: in the application, in `processGetRsc`, in the
data or the notify callback, in `MQTTYield`, or in the notify callback that a
request asks.  The `ursc_` variables are the fields of `SetUpdatedRsc`; `http` is
the connection; the other variables record, for each request, what was decided,
published, opened, handed over, and how it ended.  But for the number of requests,
no step depends on them.

- `RequestWhileBusy`, `RequestIllFormed`, `RequestUnasked`, `RequestAsked`,
  `UserAccepts`, `UserRefuses` are the paths of `messageHandlerDevRscUpd` and
  `LiveBooster_msg_decode_rsc_req`.  A request without a usable correlation id
  changes nothing and is left out.
- `StartFails`, `StartSucceeds` are `LiveBooster_http_start`; `DataCallback`,
  `GetBytes`, `GetNothing`, `GetOther`, `CallbackGoesOn`, `CallbackStops`,
  `CallbackCompletes`, `CompletionNotified` the paths of `processGetRsc` around
  the two callbacks.  The data callback may call `LiveBooster_GetResources`
  several times, for the right resource or another, and return the bytes read,
  the last result or an error of its own; a positive result means that it read
  bytes, as its documentation asks.
- `Reconnect` is what `LiveBooster_Connect` does to a running download: the modem
  is reset and the connection lost, but not the bytes already in the FIFO.
- `ServerCloses` and `SessionLost` may happen at any time they can.

Not in this module: the text of URIs and headers, the parsing (a request is a
well-formed one, one whose `id` is not a string, or one that becomes malformed
after fields were stored), and the modem's table (a later module).  Two bodies
have the same MD5 only if they are equal.

### MqttSession

`pc` says where the thread is in the nested loops: in the application, between
two subscriptions, about to read, with a packet in `readbuf`, or about to call
`keepalive`; `await` tells `waitfor` from `MQTTYield`.  The three instants of the
client are kept as the time left until each of them, 0 once it is past, the only
thing the code asks of them; `Tick` lets time pass everywhere it does in the code.
A read gives up by the deadline it is given; a modem that stops in the middle of
an answer (`HeraclesModem__readInt` has no timeout) is outside this module.

`ConnectSent`/`ConnectFails`, `SubscribeNext`/`SubscribeFails`, `ConnectDone` are
`LiveBooster_Connect`; `CycleStarts`, `CycleRefused`, `PushData`, `Close` the other
calls; `ReadNothing`, `ReadPacket`, `Packet...`, `Message...`, `Keepalive...` the
parts of `cycle()`.  Each publication may fail and then closes the session, as
`MQTTPublish` does, without any notice to the loop that runs the handler.  The
server accepts or refuses, answers late or not at all, publishes on granted
topics only; the link may die, and then the modem still takes some packets.

`CharSigned` says how the compiler reads the refusal 0x80 of a subscription
(`MqttClient.c:505`): where a char is signed it is not seen as one.  The runs have
an unsigned char, as on ARM; with `CharSigned = TRUE` TLC shows `SessionAgreed`
violated.

The server publishes as often as it likes, the inbox bounds only what is under way at
once.  Every PUBLISH of this module deserializes: one that does not would leave `cycle()`
without the call of `keepalive` (`MqttClient.c:274`).

Not in this module: QoS 1 and 2 and unsubscribe, which the library never uses,
packets that arrive in parts (`MqttFraming`), wrapping of `millis()`.

### HeraclesTcp

`sockets` is the table of the driver; `mux`, `sock_available`, `sock_connected`,
`rx` are the fields of the two TCP clients; `pc` and `call` say where the thread is
in the call under way, with the polls of `HeraclesModem__Maintain` split into the
count and the status of each entry, since bytes and closures may come between
them.  `due` is whether the last poll is older than 500 ms, `notice` whether an
unsolicited notice is waiting in the serial line.  `link` holds the connections of
the modem and the bytes they have received, each numbered and marked with its
connection, so that `got`, what a caller read, can be compared with it.

`InitModem` is `HeraclesModem__Init` as the MQTT client runs it, which takes the
connection of the HTTP client away without telling it.  A connection that fails
leaves its entry taken (`ConnectFails`), so that after two failures there is none
until the next reset (`ConnectNoEntry`).  The callers are the loop of the MQTT
client, `LiveBooster_http_data`, and `read_line` in the header of an HTTP answer.

`Faults` names what the modem may do wrong beyond answering late, refusing, or not
answering: `"notice"`, a notice between the request for bytes and the answer;
`"silent"`, no answer to the first AT of an init; `"half"`, a reset that fails after
the table was cleared.  The passing run has none of them; each of them breaks the
module: `"notice"` is the run `notice_read`, `"silent"` leads to two entries of one
client (`OwnEntry`), and `"half"` to a store through an empty entry (the thread is
then at `"crashed"`).

### MqttPacket and MqttFraming

`MqttPacket` has the serializers and deserializers of `mqttClient/MQTTPacket` as
operators between records and sequences of bytes; the library contains the
server's side of each, which stands for the server.  In `MqttFraming` the client
sends any packet of `Requests` with writes the modem takes in part, and reads what
the server sends, at any time, through `readPacket`, each of whose reads may end
early.  `received` is what the server holds that is not a whole packet, `due` the
packets under way to the client; `late` counts the reads that gave up inside a
packet, after which the stream of packets is out of step.  `spoiled` is set when a
subscription failed with part of its packet sent, the one failure that leaves the
session open.  After each packet, and after a read that gave up, `cycle()` calls
`keepalive`, which may close the session (`Handle`, `ReadShort`).

`IsRequest` and `IsReply` say which packets the library asks the serializers for
and which a server may answer: strings of at most 65535 bytes, ids of 16 bits, a
CONNECT whose password comes with a user name, neither of them empty
(`MQTTDeserialize_connect` takes an empty one at the end for a missing one,
`MQTTConnectServer.c:95`).  A SUBACK has one code, since the library subscribes to one
topic at a time: `MQTTDeserialize_suback` with its `maxcount` of 1 takes two codes, writes
the second behind the one `enum` it is given, and refuses more (`ReadSuback`).  The receive buffer has room for the largest fixed
header, 5 bytes, and is below 128^4, the largest remaining length (the code has
260 bytes).

`Turn` is a turn of the loop of `isTopicMatched`, from a character of the filter to the
place in the topic behind it.  `IsFilter` says what MQTT lets be a filter; the library
passes what the application gives it and does not look, a broker refuses the rest.
`Covers` is what MQTT says a filter matches, level by level.

### DeviceMessages and Base64

A handler runs in one step, since nothing else does meanwhile; a publication may
fail before or after the server has it.  `cid` and `tab` are `SetUpdatedParam`;
`wanted`, `after`, `acks`, `verdict`, `answers` record what the server asked for,
what the callbacks decided and what the server was told.  An update is a sequence
of entries, up to its end or to the first that is malformed; the callback accepts
any of those that are recognised.  The parameter "binary" goes through `Base64` in
both directions; the server's side there is RFC 4648.  An acknowledgement that does not
fit a packet closes the session, each time it is tried (`AckFails`); one that cannot even
be encoded is forgotten (`AckTooLong`).

The id of a command is the first value named "cid" in its message, be it an argument
(`MessageIds`): `ArgumentCids` are the values such arguments may have, ids of other
messages among them, and 0, for which nothing is published.  `misnamed` records the ids
that came from an argument.  A malformed argument is one whose name is no string or whose
value is nested.

`CharSigned` is the same as in
`MqttPacket`: `b64_encode` shifts chars together, and a negative one sets all the bits
above it, those of the bytes before it in its group of three among them: there a byte
beyond 0x7F is only safe as the first of three, or where a char is unsigned.  A value has no
zero byte: the decoder leaves a string of C.

`lost` counts the blocks that commands leak, `SetData` are the slots of the streams.

### JsonText

The encoders are sequences of calls of the JSON functions; the buffer has a fixed
size and `snprintf` cuts what does not fit.  Beside the text in the buffer, `meant`
is what it would be without a limit.  A text is a sequence of symbols that count as one
character each: punctuation, a name, the first character of a value, its others.  An
item is a value, or an array of up to `MaxDim` of them.  The payload that
fits a packet is smaller than the buffer (260 bytes against 1024), which is why the
cuts, and the character `json_end` may write behind the buffer, never reach the
broker: `SentIsWhole`.

## Runs

| Run | Instance | Shows |
|---|---|---|
| `fifo` | `FIFO_SIZE` 4, two byte values | a put is refused exactly when full, bytes come out as they went in across wraps, every get ends |
| `download` | 1 resource, sizes 0 and 2, 2 requests, 1 byte too many, 2 reads per callback | invariants of a transfer; refinement of `ResourceTransfer`; every accepted request is settled |
| `download_unasked` | the same without notify callback | the same hazards when nobody is asked |
| `mqtt` | 2 topics, keep-alive 3, acknowledgement 2, ping and cycle 1, 1 packet lost, 2 under way | session, pings, errors |
| `mqtt_liveness` | the same with 1 topic, 1 packet under way | silence is detected; calls return unless messages come for ever |
| `tcp` | FIFO of 1 byte, 3 connections, 2 bytes each, reads of 2, 1 retry | bytes reach their caller once and in order; entries and connections keep their client |
| `messages` | 2 parameters, updates of up to 3 entries, 2 messages, ids from arguments 0 to 2, 1 block, 2 slots | acknowledgements and answers tell what happened, updates are settled, memory is lost only to malformed arguments, handles hold |
| `json` | all encoders with up to 2 values or arrays of 2, of up to 3 characters, in a buffer and packet that cut some of them | what is sent is whole, what is refused is too long |
| `framing` | buffers of 260 bytes, packets around 127 bytes, and of 259, 260 and 261 bytes, ids up to 3, 2 answers under way, 1 read that gives up | packets arrive as they were sent and in order, in both directions; a read stops where its packet ends; handlers match as MQTT says |

Three runs end in a violation, the findings of `PROJECT.json`:

| Run | The code |
|---|---|
| `notice_read` | a notice of the modem before the answer to a request for bytes is taken for the answer |
| `header_hang` | a connection closed within the header of an HTTP answer keeps `read_line` in its loop |
| `busy_without_transfer` | a request that cannot be decoded makes the device busy for ever |

More divergences are in the models without a run of their own.  Where a property
is named, its module states it and TLC shows it violated under the module's
configuration with it as the only property:

- An error the data callback returns with the last byte does not stop the download
  (`LiveBooster_defs.h:242`; `ErrorStopsDownload`).
- The result of the completion callback decides what is published
  (`LiveBooster_defs.h:224`; `CompletionResultHasNoMeaning`).
- A request answered with an error because of a malformed tail is downloaded all
  the same (`src/Docs/Resources.md:6`; `OpenedWasAccepted`).
- An answer carries the name of another code (`LiveBooster_msg_encode.c:232`;
  `AnswerNamesTheCode`).
- A subscription the server refuses counts as success (`ConnectedIsSubscribed`), and
  where a char is signed gets a handler too.
- A cycle waits longer than it was told to (`LiveBoosterInterface.h:78`;
  `YieldWaitsItsTime`): a ping sent at its end restarts its wait.
- A command with an argument "cid" is answered under the value of that argument, be it
  the id of another message (`LiveBooster_defs.h:129`; `AnswersAreOwn`).
- An unknown resource is answered OK when there is no notify callback; a pending
  resource without data callback is never aborted; a refused CONNECT gives a
  positive result.
- A device whose parameters do not fit one packet never connects: the publication
  in `LiveBooster_Connect` fails each time (`src/Docs/ConfigurationParameters.md:26` has
  "The number of parameters is not limited").  `DeviceMessages` with `ParamRoom = 1`.
- An answer that is too short for its fields is read as a success, since the length
  of its one-digit remaining length is left in the result
  (`MQTTConnectClient.c:130`: "1 is success, 0 is failure").
- A command with a malformed argument leaks its block.
- A topic filter `a/#` does not match `a`, and `+` needs a level of at least one
  character; MQTT has both match.

Bounds.  A FIFO of 4 cells has all the cases of the index arithmetic: empty, full,
wrapped, and a get that copies in two pieces.  Two requests let one arrive in
every phase of another, and follow its end; a body of 2 bytes is read in one
piece, in two, short, or with one byte too many; size 0 is the boundary
`http_start` refuses.  In `MqttSession` the times keep the order of the code
(1 s, 1 s, 20 s, 30 s) and nothing else of them matters; two topics make one
subscription wait while the handler of the other already runs.  `MaxLost`
bounds the history: that a dead link accepts only so many packets is the bounded
buffer of the modem.  Messages are not bounded, and a call need not return
while they go on: the answer to one restarts 20 s of waiting, also in `MQTTYield`, and
with slow handlers each ends in a ping that restarts its second.  `CallsReturn`
therefore has an assumption of its own, that from some time on no message arrives any
more; without it TLC shows a call that never ends.  In `HeraclesTcp` three
connections let each client lose and replace its own while the other holds one, and
a FIFO smaller than what is waiting makes every read a sequence of fetches.  Two
messages let an update replace another, a command follow a leak, and a command take the
id of another; a packet has room for two of the three parameters an update may name.  In `JsonText`
the room is such that each kind of message is cut at each of its functions.
`MqttFraming` has the real sizes, since its boundaries are what matters there; two
packets under way make one that is read too far, or not far enough, show in the next.
A write is the first byte of a packet, half of what is left, all of it, or more.

Fairness.  The library runs to completion inside a call, so its steps are weakly
fair; so are the ticks of the clock, strongly in `MqttSession`, where a step of the network may
always come first: time passes however many packets come.  The applications call `LiveBooster_Cycle` in
a loop, which is strong fairness of the step that enters it (the session may
come and go in between), and in `ResourceDownload` they reconnect until it
succeeds.  Nothing is assumed of the server, of the network, or of what the
callbacks return, but what `CallsReturn` says of messages.  In `DeviceMessages` a connection and a publication that are tried
again and again succeed at last (strong fairness): the applications try for ever, and
without it nothing can be acknowledged.  In `HeraclesTcp` the thread and the clock go
on, and a read ends once its time is over.

## Proofs

All for every value of the constants that the assumptions allow.

`GsmFifoProofs`: `TypeCorrect`; `FreeSizeIsExact`; and `Implements`, the refinement
of `BoundedQueue`, from type correctness and lemmas on what one step does to the
content of the array: a put appends to it, a piece of a get takes its beginning
away, whichever way the indices wrap.  The assumptions are that `FIFO_SIZE` is
positive and that a get asks for a natural number.

`ResourceDownloadProofs`: the checked invariants are not inductive alone.  `Inv` adds
to them
- `FutureIsBlank`: nothing is recorded of a request that has not arrived;
- `StoredIsCurrent`: what `SetUpdatedRsc` holds belongs to the last request stored;
- `ThreadIsWithin`: what the place of the thread in the code implies (in the data
  callback a transfer is connected, in the notify callback all bytes are read).

One lemma for each action shows that it keeps `Inv`; `InvHolds` follows, and from it
type correctness, that complete means intact, that the digest is that of the
bytes delivered, that a connection has its owner, that a refused request is never
transferred, and the action property that one transfer runs at a time.  The
assumptions are those `ResourceDownload` states on its constants.

In the same module, `DeviceImplementsTransfer`, the refinement of
`ResourceTransfer`.  `TransferInv` says where the recorded phases of the abstract
transfer agree with `SetUpdatedRsc`; with `Inv` each action takes one step of the
abstract specification or none (`PhaseIs`, `Untouched`).

`MqttSessionProofs`: `TypesHold`, `SessionIsAgreed`, `PingsStayInStep`,
`ErrorsDisconnect`, `ConnectedStaysOpen`.  That the device believes itself connected
says nothing of what is under way, so the proof follows the packets.
`AgreementInv` has that at most one CONNACK exists in a connection and tells the
truth, that nothing else comes before it, that a SUBACK under way is the answer to
the subscription `waitfor` is at, and that a handler has its grant.  `PingInv` adds
that a second ping needs the answer to the first (`PingsApart`), which in turn needs
that no ping is due before the CONNACK has come or `waitfor` has given up
(`Opening`: the two timers run together, and the keep-alive is not the shorter
one).  `SessionIsAgreed` is for an unsigned char; with a signed one it is false, as TLC
shows.  `ConnectedStaysOpen` is for a device that has parameters or resources
(`Announces`): without any, `LiveBooster_Connect` publishes nothing after its last
subscription, and does not notice that an answer given while it waited has closed the
session.

`HeraclesTcpProofs`: `TypeCorrect`, for whatever the modem does wrong;
`EntriesAreOwn`, if it answers the first AT of an init, since the MQTT client then
always has the first entry (`Entries`); `NoByteIsLost`, `NeverCrashes`,
`LinksAreOwn`, if it does nothing wrong.  The inductive invariant of these, `KeptInv`,
has that connections and entries go together (`Linked`), that no notice is left
when the bytes are asked for (`NoticeRead`), and that what the caller has read, its
FIFO and the modem hold the bytes of the connection one behind the other
(`InOrder`).  The hypotheses are on `Faults`; each fault left out breaks the property, as
said above.

`DeviceMessagesProofs`: `AcknowledgementsTell`, `AnswersHold`, `LossIsKnown`,
`HandlesAreKept`, `TypeCorrect` and `ValuesTravel`.  An acknowledgement is published
later than the update it is for, so `ParamInv` has that no handler changes a value
without taking over the acknowledgement (`ToAck`, `Acked`).  It shows the values in
force only if a binary value survives Base64 in both directions, which is
`ValuesTravel`: in a group of three bytes the shifts of the code and the digits of the
standard are the same arithmetic, a padding character is a digit without bits of the
value, and the first zero the decoder makes is behind the last byte.  The hypothesis
`CharsPositive` of these theorems is that where a char is signed only the first byte of
a group of three is beyond 0x7F; with `<<65>>` and `<<1, 200>>` as `Binaries`, TLC finds
an acknowledgement that tells of another value than the one in force.  `AnswersHold` is
about the answers with an id that was never taken from an argument of another command;
for those that were it is false (`AnswersAreOwn`).

`MqttPacketProofs`: from lemmas on digits, bytes and strings, `RequestTravels` and
`ReplyTravels`: what the serializers of one side write, the deserializers of the
other read back field by field, for every packet the assumptions allow and not
only those of the run; of SUBACKs these are the ones with one code.

`MqttFramingProofs`: `TypeCorrect` (the receive buffer is never overrun, whatever comes),
`SentIsRead`, `OpenMeansFramed`, `ArriveAsSent`, `OnlyLongIsRefused`.  `SendInv` has
that the server holds the part of the packet that was written; `StreamInv` that the
bytes read and under way are exactly the packets that are due (`Framed`), and where in
the first of them each phase of `readPacket` is.  This holds until a read gives up
inside a packet (`late`); after that only sizes are claimed (`Measured`).
`ArriveAsSent` is for an unsigned char: a signed one changes the code of a SUBACK.
`HandlersAreRight` is `HandlersMatch` for any filters of MQTT and any topic that
arrives.  `Literal` and `ThroughLevel` have where the loop of `isTopicMatched` is in the
topic at the end of one level of the filter, `LevelByLevel` that it then is at the end of
the same level of the topic as long as every level was met, and at no character for
good (`Lost`) once one was not.  That a packet the client takes is whole (`FrameInv`),
however its length was cut, makes the topic a sequence of bytes.

`JsonTextProofs`: `TypeCorrect`, `WhatIsSentIsWhole`, `OnlyTheTooLongIsRefused`.  `IInv` has
that the buffer holds `meant`, or that it and `meant` both are full (`Agree`): what
`snprintf` once cut stays too long for a packet.  Of `meant` it has that a reader of
JSON has read it without an error, down to the depth that is open (`Partial`), and that
the calls the encoder still makes close exactly that depth (`Closes`), so that the last
of them leaves one whole object.  There is a lemma for what each function of
`LiveBooster_json_api.c` prints and one for each encoder.

`JsonText` and the topics of `MqttFraming` are about sequences of any length, and their
proofs need induction: `Induction` is for sets of numbers, from the well-foundedness of
`<`.  A recursive function of the model is shown to exist, one argument after the other,
before its definition is unfolded.

Only model-checked is what must happen in the end: `CallsReturn`, `SilenceIsDetected`,
`AcceptedIsSettled`, `GetTerminates`, `UpdateSettles`.  Liveness under fairness is beyond
the prover.

## Not modelled

- MD5 and the JSON parser, third-party code: two bodies have the same digest only if
  they are equal, and a decoder takes from the parser what kind of message it has.
- The applications and the ports to Arduino, Mbed and Linux: examples; their main
  loop and their callbacks are the environment of the modules.
- SIM, network registration and GPRS in `HeraclesModem__Init`: the MQTT client ignores
  the result.  A modem that stops in the middle of an answer, which stops the device.
- QoS 2, retained messages, `MQTTPacket_readnb`, `MQTTFormat.c`: not used by the library.
- Escaping in JSON strings, values that are not base64.  The failures of the encoders
  that are not about length: a missing name or value, an array of no elements, a type they
  do not know; and the branch for AVR boards, which prints a float without its comma
  (`LiveBooster_json_api.c:269`).
- A PUBLISH with a packet id but no room for it: the code reads behind the packet
  (`MQTTDeserializePublish.c:60`), `ReadPublish` has an empty payload.
- The wrap of `millis()`: the modules keep times left, not instants.

## Plan

1. Done: all modules above; the proofs of every invariant a run checks, of the action
   properties and of the refinements.
2. Session, configuration and resources composed over one deadline.
