# Verification of rtxx

rtxx is an RTMP publishing client in C, a port of the SRS librtmp client to FreeRTOS and lwIP. An
application creates a context for a URL, shakes hands, connects to an app, publishes a stream and
then writes audio, video and script messages, usually from one task per medium. All sources are in
`src/rtmp/src`; the `.bak` files are older copies and `src/rtmp/target` holds an installed build. The
repository has no tests and no documents, so what it says of itself is in comments and assertions.

This directory holds TLA+ modules of its components, TLC configurations that check them on small
instances, and proofs that hold for every value of the constants.

## The system

| component | state | operations | modelled in |
|---|---|---|---|
| receive buffer `SrsFastStream` (`rtmp_socket_to_buffer.c`) | one block, read pointer `p`, end pointer `end` | `grow`, `read_1byte`, `read_slice`, `skip`, `set_buffer` | `FastStream` |
| blocking socket (`rtmp_socket.c`) | descriptor, mutex, timeouts, byte counters | `read`, `writev`, `connect`, `read_fully`, `write` | `SendPath` (mutex, recv, writev), `Session` (the others) |
| send path (`rtmp_protocol.c`, `snx_rtmp.c`) | `out_chunk_size`, `video_header`, header cache | `write_packet`, `write_packet_2`, `send_and_free_packet` | `SendPath` |
| chunk reader (`rtmp_protocol.c`, `rtmp_chunk.c`) | a chunk stream per cid, `in_chunk_size` | `recv_message` and what it calls | `ChunkReader` |
| H.264 publishing (`rtmp_h264.c`) | SPS, PPS and flags per context; three static flags | `snx_h264_write_raw_frames` | `H264Publish` |
| AAC publishing (`rtmp_aac.c`) | configuration of the sequence header per context; position in the caller's buffer | `snx_audio_write_raw_frame`, `snx_aac_adts_frame_size` | `AacPublish` |
| session (`snx_rtmp.c`, `rtmp_client.c`) | context: socket, stream id, timeouts | create, set_timeout, handshake, connect_app, publish, destroy | `Session` |
| handshake (`rtmp_simple_handshake.c`) | C0C1, S0S1S2, C2 buffers | `srs_simple_handshake_with_server` | `Session` |
| acknowledgement window (`rtmp_protocol.c`) | window, bytes acknowledged | `response_acknowledgement_message` | `Session` (when it is due) |
| URL (`snx_rtmp.c`) | host, port, app, stream of a context | `srs_parse_rtmp_url` | `RtmpUrl` |
| commands and AMF0 (`rtmp_cmd.c`, `rtmp_amf.c`) | the fields of a packet, the object of connect | init, get_size, encode, decode, uinit | `Commands` |
| bounded buffer `SrsBuffer` (`rtmp_mbuffer.c`) | a cursor | require, read, write | `Commands`, `AacPublish` (as far as they use it) |
| key-value store (`kvs.c`) | array of pairs, size, capacity | create, put, get, remove, clear and destroy | `KVStore` |
| helpers (`rtmp_utils.*`, `rtmp_string.h`, `version.c`) | none | printing, copies, error codes | not modelled |

How they interact: the application's tasks call the publishing functions, these call
`srs_rtmp_write_packet` (audio, script, H.264 header) or `srs_rtmp_write_packet_2` (H.264 slices),
which take the socket's mutex and send chunks with `writev`. `connect_app` and `publish_stream` send
command packets through the same mutex and read responses with the chunk reader, which pulls bytes
through the receive buffer; each `recv` takes the same mutex. The reader may answer with an
acknowledgement while it is inside a receive call. A command packet is made from the parts of the URL,
connect's object by way of a key-value store, and encoded into a bounded buffer of the size that the packet
says it needs.

What is hard about it: tasks interleave on one connection; a mutex is given by hand on every path;
sends may fail, be short or return nothing, and receives may time out half way through a chunk;
messages of several chunk streams interleave while the chunk size changes; static variables outlive
the connection they belong to; parameter sets may come in any order; an allocation may fail where nobody
looks, and URLs may be longer than the arrays they are copied to; buffers of the application may be cut anywhere.
`PROJECT.json` lists these
hazards line by line with the properties that cover them.

What makes each component correct, in a sentence:

* receive buffer: it is a byte queue, in spite of moves, short reads, failed reads and put-backs.
* send path: whatever tasks do, whole messages reach the server, and the mutex is always given back.
* chunk reader: each chunk stream is a queue of messages, and every message sent is handed out.
* H.264: slices follow a header with their parameter sets, in order, and success means written.
* AAC: frames follow one header that describes them, and the pieces of a buffer lie end to end.
* session: a call may only succeed after the ones it needs, and a retry starts from a clean state.
* acknowledgement: the server hears of the received bytes before its window is used up.
* URL and commands: what the server is told is what the URL says, and a packet fills its buffer exactly.
* key-value store: it is a map, and it stays inside its memory.

## Modules

| module | what it is |
|---|---|
| `FastStream` | the receive buffer; a pointer is an offset, a byte is its position in the stream, the socket may return any part of what was asked for or fail |
| `ByteQueue` | what the chunk reader relies on: bytes arrive, are taken in order, and the last slice may be put back |
| `SendPath` | tasks calling the four functions that use the mutex, chunk by chunk and send by send, against a server that reassembles chunks |
| `WholeWrites` | what the writing tasks rely on: a message is received whole and once, at one moment between call and return |
| `ChunkReader` | the reader's five waits (basic header, message header, extended timestamp, empty message, payload) against a server that interleaves messages |
| `MessageStreams` | what a caller of `recv_message` relies on: a queue of messages per chunk stream |
| `H264Publish` | calls on several contexts, NALU by NALU, with the writes as the points where tasks give way |
| `Session` | a context from create to destroy: calls in any order and repeated, packet by packet and read by read, against a server that may reject, chat and hang up |
| `Negotiation` | what an application relies on: a call succeeds when the server has granted it, grants stay, no stream is taken twice, a new connection starts from nothing |
| `AacPublish` | calls with buffers of ADTS frames and with other formats, frame by frame, over several connections with failing writes |
| `KVStore` | the array behind `kvs.h`, with growth and failed allocations |
| `StringMap` | what a user of `kvs.h` relies on: a map that returns what was there before |
| `RtmpUrl` | what becomes of a URL given in parts, as operators |
| `Commands` | the commands of a session from the URL to the values in the buffer, with the store inside connect's packet, and the way back from the response to createStream |
| `MC...` | instances for TLC |
| `...Proofs` | theorems and their proofs: `FastStreamProofs`, `SendPathProofs`, `ChunkReaderProofs`, `H264PublishProofs`, `AacPublishProofs`, `SessionProofs`, `KVStoreProofs`, `CommandsProofs` |

Composition: `ChunkReader` waits on an abstract byte sequence with the operations of `ByteQueue`,
which `FastStream` is shown to implement. `H264Publish` and `AacPublish` use a write that succeeds or fails;
`SendPath` says what such a write does on the wire, and is shown to implement `WholeWrites`. `Commands` is composed of `RtmpUrl` and `KVStore`: it extends
both, and the actions of the store are conjuncts of its own actions.
`Session` receives whole messages, which is what `MessageStreams` promises, except the handshake, which does not
go through the chunk reader.

Definitions named "Seeded fault" stand in front of the definition they falsify. They take no part in
any specification: putting one in place of the other has to break the property named for it in
`PROJECT.json`, which shows that the property depends on that line of the code.

### FastStream

State: `buffer`, `nb_buffer`, `p`, `end` are the C fields. `mode`, `required` and `room` are the locals of
a `grow` that is inside its receive loop; `ret` is what it returned. `arrived` and `out` are history: bytes
received, and the slice that was read last. `GrowEnough`, `GrowInPlace`, `GrowMoving` and `GrowAborts` are
the four ways through the first half of `grow`, `Recv` and `RecvFails` its loop. `set_buffer` never runs
inside `grow`.

### SendPath

State: `sem` is the FreeRTOS binary semaphore; `pc`, `call`, `cur`, `off` are each task's place and locals;
`video_header` is the context's field, written in `Call`, before the mutex is taken. `pending`, `partial`,
`garbled`, `delivered` (in order) are the server's; `okd` are the messages whose write returned success.
A chunk is two `send` calls, `SendHeader` and `SendPayload`, with
`SendShort`, `SendZero`, `SendFails` and `SendMisread` as what may happen instead: the last is the chunk stream id of a
packet that nobody set, written as a basic header that the server reads as a longer one. A message that `create_msg` refuses
(no memory, unknown type) changes nothing, so that such a call is a stuttering step of `Call`. `SendDone` is the end of the loop and
the give, or, for an empty message on the `messages` path, the missing give. `srs_rtmp_write_packet` and
the sends of packets work on their own message; `write_packet_2` reads `video_header` under the mutex but
fills it before, so two video tasks on one context are not supported by the code; `OneVideoWriter` names
that assumption. The reading task is what the mutex around `recv` provides for: in this commit only
`connect_app` and `publish_stream` read, since `srs_rtmp_client_recv_message` is declared and not compiled.

`ImplementsWholeWrites` is the refinement: what a task asks for is the message of its call, what is received is
`delivered`, and nothing is promised after a failed or short send or with two video tasks. It implies that a
write that returned success has been delivered (`SuccessIsDelivered`, a theorem;
`send_short` shows what becomes of it when the socket takes less). An empty message is nothing to receive, so it is no part of the promise.

Fairness: a task that holds the mutex goes on, `WF(Inside(t))`. The only calls between take and give are
`send` and `recv`, and `connect_server` sets a timeout for both. An application that turns one of them off with
`set_timeout` and 0 gives this up: a task may then wait for the server for ever with the mutex in hand, and
`MutexReleased` says nothing of it. Nothing is assumed of a task that waits for
the mutex or has not called, since the semaphore promises no order.

### ChunkReader

State: `chunk` is `cs_cache` with the fields that control reading (`msg_count` as `seen`, `extended_timestamp`,
`timestamp_delta`, `timestamp`, `payload_length`, whether there is a `msg`, and its payload); `in_chunk_size`;
`at` holds the locals of the call. `wire` is sent and unread, `size`, `out`, `nsent`, `sent`, `conforming` are the
server's. A step is everything between two `grow`s. The server starts messages with all four header
types, interleaves them, uses timestamps that need an extension or wrap around at 31 bits, and changes
its chunk size in both directions. It may also leave the protocol, which the reader has to detect
(`ServerErrs`), and a `grow` may fail at any point (`GrowFails`): then the next call reads a basic header,
wherever it is. Properties about understanding hold for a server that keeps to the protocol and while no
`grow` failed inside a chunk; a failure between chunks is harmless, and that is checked.

A message header leaves out what the one before it on its chunk stream said, and a piece of payload has the length that both
sides think chunks have. `InStep` says that both sides think the same of all of it whenever nothing is on its way. In an
instant when something is, they rightly differ.

The reader looks for an extended timestamp by comparing four bytes with the one it knows, and where the server does not
repeat it, these are payload. So payload has values here: each message repeats one byte of `Bytes`, named by the timestamp
that it spells, and `PutsBack` compares what it read. With a server that repeats timestamps such payload does no harm, which
the run checks. With one that does not, the reader takes payload that spells the timestamp for it; the properties
have the condition `Unmistakable`, which leaves that out.

A header is one item of the wire and not 11, 7 or 3 bytes, so that a `grow` for it waits for the whole, as
in the code; payload and extended timestamps are byte by byte, since the code looks for one where the
other may be. Basic headers have one byte, which is enough for the ids in the cache (`Cids`).
The model ends where the reader reads on at a wrong place (mode `lost`) or has
returned a protocol error (`refused`). `MessageStreams` is checked as a refinement.

Fairness: `WF(Read)`, the reader takes what is there. The server and failures are not fair.

### H264Publish

State: the `h264_` fields of each context and the three static flags. A NALU is known by its place in the
order in which all tasks feed them, so that "the first SPS" is a number. A task gives way where it
blocks, in the two writes and between calls. `TakeSlice` includes the counting of `sps_pps_count_flag`, with
or without a header; `TakeSliceHeaderDue` is the way to the header with the assertion on the SPS.
`WriteFails` may stand for any error of `write_packet`. A reconnect is a second context used after the first.

### AacPublish

State: `aac_specific_config` is the context's field, empty while `av_len` is 0; `call` and `p` are the arguments and the
position of `aac_raw_stream`, `codec` the frame that was taken last; `wire` has the audio messages of the
connection, `out`, `ret` and `lost` are history. A buffer is its size and the places where a header begins, with the header's
fields; the numbers that the code shifts and masks are put together from them, so that the lengths are the
code's arithmetic. `Demux...` is one turn of the loop up to its first write, with each way it may end; the writes
are where the task waits. `DemuxAborts` is the assertion that a negative payload size meets. The configuration is
kept before the header is written, so that a header that failed is never sent again: `HeaderFirst` holds on connections
where no write failed. A change of profile or rate in the middle of a stream is not announced, and no property says
that it is.

Fairness: `WF(Step)`. A call waits only in writes, and these end with what was sent or with the send timeout, which the application
has not turned off.

### KVStore and StringMap

State: `pairs` is the array as far as it is allocated, `size`, `capacity` and `expand_rate` are the fields. `short` and
`wild` are history: an allocation failed; the array was used outside its memory. `Put` has a disjunct for each way
through `kvs_put` and its growth: `capacity` is set before `realloc` and its failure is not looked at, so that a
later put is `PutOutside`. The client makes tables of 20 and 5 places, puts eleven keys and never removes one; the other
calls of `kvs.h` are made in the `commands` run by a driver that is part of the instance and not of the client.
`map` of `StringMap` is what `kvs_get` would return for each key, `lost` is `wild`.

### RtmpUrl and Commands

A URL is given in parts, its path as the texts between the slashes, and `Parsed` says what each kind of URL gives: the app
ends at the fourth, third or second slash, a query with `slist=` is the name of the stream, a port that is too large or not
there is 0. App, stream and tcUrl are sequences of texts too, so that putting a path together again is putting sequences
together; how many characters a text has is the constant `Length`. In `Commands`,
`packet` is the packet that is made, `todo` what is left to put or to encode, `buf` the cursor with the values written. `Fill`,
`Measure`, `EncodePair` are the three uses of the store in connect's packet: its keys lead to the fields by name. The sizes
are those of `get_size`, computed apart from the encoding as in the code. `reply` is the message that answers
createStream, cut anywhere and AMF0 or AMF3; the `Decode...` actions are the ways through `do_decode_message`. Places
where the program ends or goes on with garbage are `dead` (a NULL pointer) and `garbage` (a pointer nobody set).

App and stream are copied into arrays of 256 bytes and tcUrl is put together in a static one of 128, all without a test.
The place `overrun` is where a copy would leave its array (`ResolveOverruns`, `ConnectOverruns`); the model follows it no further.
So `CompleteUrlWorks`, that a session with a complete URL comes to read nothing through NULL and to write nothing behind
an array, has the condition `Fits`, which is about sums: "rtmp://", host, port and app have to be less than 128
characters together.

The model made some of the code's habits visible: a URL without app or stream, a host of 256 characters or more, and
`connect_app` before the handshake all end in a NULL string; a response of another command leaves the packet's type
unset; a command name that cannot be read leaves a pointer that is freed.

### Session

State: `timeout`, `stream_id` and `fd` are the context's and the socket's fields, `hs` stands for `SrsHandshakeBytes` (which
buffers are allocated, how much of S0S1S2 is in), `ack` for `in_ack_size` and the socket's `rbytes`, `msg` for the message
that `expect_message` looks at. `pc` names what the task does next; the places of `Then` are the packets. Data is
reduced to kinds, times to limits: a timeout of 0 is none, as in lwIP, and `NoTimeout`, the application's "leave it alone",
puts an uninitialized value into the socket until `connect_server` sets a default (`Option`, `Timed`). `Settings` are the pairs an application
passes to `set_timeout`. A response is known by its transaction id and by `_result` or `_error`, a byte count counts
messages. `toServer`, `toClient`, `srv` and the `Server...` actions are external: a server that takes what comes in order,
answers late, and stops at what it does not understand, including a short or failed send, of a command or the handshake. What is left
of S0S1S2 when a handshake gives up half way is read by the next call as chunks (`ReceiveLeftover`), and a window size that is not
positive or a message that cannot be decoded ends the call (`Reject`). `told`, `guessed` and
`cut` are history.

Undefined behaviour of the code is a choice here: the result of `parse_uri`, which returns nothing (`Resolve`); the
packet type that `do_decode_message` leaves unset for other commands (`UntypedDropped`, `UntypedTaken`), where a stream id
taken from such a packet is any value of `Garbage`; and the free
through a NULL pointer when a receive fails (`RecvFails`). What TLC found on the way: nothing in the handshake's
own code keeps a second call from taking a half-read S0S1S2 for a whole one; `ShakenMeansWhole` holds because `connect`
on a connected socket fails, so that a failed handshake cannot be repeated without destroying the context.

`ImplementsNegotiation` is the refinement: calls that returned success, the stream of the context, and what the server has
granted on this connection (`Negotiation`). A success whose packet type was read uninitialized is a `Guess` there, of which
only the handshake is known; a server that refuses a short send is not counted as refusing. It says in one what
`AppMeansAnswered` and `PublishMeansStream` (a theorem) say of states, and more of steps: an answer that came
late is taken by one call at most, since the streams taken go up.

Fairness: `WF(Bounded /\ Inside)`. A call is one task's; it waits only in sends and receives, and these end if the socket has a
limit for them. Where it has none (`Bounded` is false), nothing is assumed: the call may wait for the server for ever.
`WaitsAreTimed` and `CallsReturn` are about applications that set both timeouts to a limit or leave them to the
defaults (`Limited`). For others they are false, and not only where one would expect it: with a send timeout of 0
and a receive timeout that was never set, `connect_server` gives the 0 to `recv`, while the context says
the default (`snx_rtmp.c:305`). `CallsReturn` also depends on the server not sending unrelated messages for ever, which
`MaxChatter` excludes: `expect_message` has no deadline of its own.

## Runs

| run | bounds | states | what it shows |
|---|---|---|---|
| `fast_stream` | block of 3, up to 4; requests up to 5; 9 bytes | 51 000 | the buffer's six properties; every boundary between free, unread and required sizes occurs, requests larger than the block too |
| `send_path` | 3 tasks, 4 calls, messages of 1 and 2 chunks, all faults | 526 000 | mutex, framing and `WholeWrites`; each task is preempted at every point by each other one, twice |
| `send_empty` | 2 calls, a message of length 0 | small | **violated**: the mutex is lost |
| `send_short` | 2 calls, short sends only | small | **violated**: success without delivery |
| `chunk_reader` | control and 2 media streams, 3 messages, chunk sizes 1 to 3, 2-byte extension, payload that spells a timestamp | 429 000 | reading; a message in two chunks interleaves with two others while the size grows, shrinks or is too small |
| `chunk_tail` | 2 streams, no repeated timestamps | small | **violated**: the tail of a message is not received |
| `h264` | 2 contexts, 5 NALUs | 4.8 million | publishing; 5 NALUs are both parameter sets, two slices and one disturbance |
| `h264_sets` | the same | small | **violated**: slices dropped although both sets were fed |
| `session` | 4 calls, 1 unrequested message per connection, a window and an invalid one, timeouts with one turned off and one never set | 635 000 | what success of a call means, `Negotiation`, and that calls return; 4 calls are the three of a session and one repeated or out of order, or a change of timeouts |
| `session_control` | 2 calls | small | **violated**: a user control message meets an assertion |
| `commands` | 22 URLs, every cut of 21 responses, a driver's stores of 1 or 2 places that grow by 1 or 2 up to 4 entries | 93 000 | from the URL to the values and back; there is a URL for every shape the parser tells apart, and one at and one over the end of each array it is copied to; the driver's store is exactly full, has a hole, grows, or fails to grow, twice |
| `aac` | 3 calls, buffers of up to two frames, 3 sounds | 224 000 | ADTS; every test of the demux is met on both sides, a call follows a failed one, and one follows a reconnect |

`MaxCalls`, `MaxMessages`, `MaxBytes`, `MaxRequest`, `MaxNalus`, `MaxAhead`, `MaxChatter` and `MaxPlaces` bound the runs in the guards of the
actions; they have no counterpart in the code. The other constants are the code's, made small. Deadlock
is not checked: all systems stop when their bound is used up, and a task that waits for a lost mutex is
what `MutexNotLost` and `MutexReleased` are about. Contexts of `h264` are interchangeable, which the run uses as
a symmetry.

The five violations are disagreements between the code and its comments or assertions; `PROJECT.json` quotes both.
In short: an empty message never gives the mutex back (`rtmp_protocol.c:1228`); a short `send` is continued
from the wrong address (`rtmp_socket.c:199`); the reader waits for a timestamp the server need not send
(`rtmp_protocol.c:841`); and whether the H.264 header is still due is decided by a static flag that the first slice
of the program uses up (`rtmp_h264.c:641`); and a user control message fails the assertion that control messages have
a packet (`rtmp_protocol.c:1026`).

## Proofs

`FastStreamProofs`, for every block size, request and number of bytes:

* `TypeCorrect`, `UnreadStaysInOrder`, `RecvAlwaysFits` and `PutBackIsSound` prove the invariants of the run. The
  inductive invariant is their conjunction with what relates `room` and `end` while a `grow` reads.
* `RefusalsAreJustified` proves the action property from it.
* `Refinement` proves that the buffer implements `ByteQueue`: initial states map to initial states, and each
  action is a step of the queue or leaves it alone.

`SendPathProofs`, for any set of tasks, messages, chunk size and number of calls:

* `MutexIsNeverLost` is proved under `NoEmptyMessages`, the hypothesis that no caller passes a message
  without payload to `srs_rtmp_write_packet`; `send_empty` shows that it is needed. The other theorems
  do without it: `Exclusive` says which part of the invariant survives a lost mutex, that two tasks are never inside.
* `ChunksNeverMix` and `SuccessMeansDelivered` need more than the mutex: the inductive invariant `IInv` adds
  `Flow`, what each task has sent of its message, and `Server`, which ties the chunk the server waits for and
  the message it assembles to the task that holds the mutex, and says that nothing is under assembly
  when no task does, unless a send went wrong. `IInv` was also checked by TLC.
* `WritesAreMoments` is the refinement of `WholeWrites`. It adds to `IInv` that the tasks inside a call have different messages
  (`Calling`) and that a task whose message the server has got is at the end of its loop (`Finished`): so the last payload
  of a message is the step that receives it, no other step receives anything, and a call that has not come so far cannot
  return, except by failing. TLC checked this invariant too.
* `TypeCorrect` is the type invariant.

`ChunkReaderProofs`, for any chunk streams, sizes, timestamps and number of messages:

* `TypeCorrect`. The inductive invariant adds that the reader is inside a chunk only of a stream with
  a message under assembly, that the header of a first chunk finds no payload, and that the chunk sizes in the
  server's messages are sizes. Nothing is assumed of the order in which the server sends, of its keeping to the
  protocol, or of where a `grow` fails.

The rest holds until the server breaks the protocol or a `grow` fails inside a chunk, with a server that repeats extended
timestamps or payload that spells none (`Undisturbed`), for the same constants:

* `ServerIsUnderstood` proves that such a server is never misread. What the two ends know of each other is in `Sync`, which tells
  the server's side as a story: all it has ever sent, the places in it between two chunks, and what the server was at each of
  them (its chunk size, its messages, what it had sent whole). From one place to the next lies one chunk that follows the
  rules (`Follows`) and is laid out as such (`Laid`). The reader has taken a known number of items; between two chunks it is at
  a place and has of every stream what the server had there (`Synced`), inside a chunk it knows the part that it has
  taken (`AtHeader`, `AtExt`, `AtPayload`). So the chunk sizes of the two ends agree where a chunk is read, although the
  server may be far ahead. No variable of the model holds the story: `Sync` says that there is one, each step of the server
  makes it longer, and each step of the reader moves along it.
* `BothSidesAgree` is `Sync` where the reader is at the last place of the story: what it has of every stream is what the server is
  now.
* `StreamsInOrder` is the refinement of `MessageStreams`. What was handed out at a place is what the server had sent whole
  there, which is a prefix of what it has sent now, so the message that is handed out is the next of its stream.

`H264PublishProofs`, for any set of contexts and number of NALUs:

* `SlicesFollowOneHeader` rests on `OneSps`: as the flags are static, one context of the program has an SPS, and it
  alone gets to the header; and on `Announced`, which relates the flag in the context, the wire and the
  place of the call.
* `SuccessMeansPublished` rests on `Promises`, which says of a call that has not dropped anything that the slices it
  took are on the wire, except the one in the write. `TypeCorrect` is the type invariant.
* `OrderlyMeansPublished` rests on `InOrder`: what the first two NALUs leave in the flags and the context, and that no
  context has met a slice before the third NALU.
* `NoneIsMissing` rests on `Continuing`: a connection with something on its wire has its header announced, so nothing of it
  is held back again, and what is missing at the end of its wire is what a call has in hand.

`AacPublishProofs`, for any buffers and sounds:

* `FramesFollowOneHeader` and `PiecesTileTheBuffer`, with the types, are one inductive invariant, together with where the frame
  taken last lies (`Taking`) and when a header is out (`Announced`). The arithmetic of the ADTS header is in
  lemmas of its own: what shifts and masks take out, and that the two functions that read the length agree.
* `WholeBuffersAreSent` rests on `Sending`: in a whole buffer the call is at a frame or behind the last, and has a header since
  the first.
* `HeadersDescribe` rests on `Telling`, which follows what was read of an ADTS header to the sequence header on the wire, and on the
  arithmetic of the two config bytes and of the tag.

`SessionProofs`, for any timeouts, windows, number of calls and chatter:

* `TypeCorrect`, `RecvHasTimeout`, `HandshakesAreWhole`, `AppsAreAnswered` and `StreamsAreCreated`. The invariant has a part for each: `Typed`,
  `Timely` (which settings of the context mean a limit in the socket: a limit for sending does in any order of calls,
  one for receiving only if sending has one or is unset too), `Shaking` (how much of
  S0S1S2 can be in, given what the server sent) and `Answering` with `Publishing` (which answers can be under way, given what
  was asked). Each is preserved by every action, given the types.
* `SuccessIsGranted` is the refinement of `Negotiation`. It adds `Taking`: the answers with a stream come in the order in which the
  server created the streams, and each one under way is of a later stream than the one in the context. TLC checked it as well.

`KVStoreProofs`, for any keys, values, capacity and growth:

* `StoreIsTyped` and `InsideUnlessShort`. The invariant needs that the array has as many places as `capacity` says, one of them free, or else that an
  allocation failed.
* `StoreIsMap` is the refinement of `StringMap`. It rests on the uniqueness of keys, which makes the first place with a key
  the only one, so that a put or remove changes one key's value and no other's.

`CommandsProofs`, for any URLs, text lengths and replies of the server:

* `CommandsInvariance` is the inductive invariant, `KVInv` for the store and `CommandInv` for the rest. `CommandInv` says of each
  place what has been done there: how much of the URL is in the context (`ContextInv`); while the object is filled, that the
  first slots of the store are the first pairs of the object, in order, and `todo` the others (`FillInv`); while a packet is
  encoded, that the bytes left in the buffer are the sum of what the values in `todo` cost (`EncodeInv`); and what every
  packet sent consists of (`SentInv`). TLC checked the parts of it on the instance of the `commands` run.
* `SizesAreExact` is the part on the buffer: `get_size` adds up sizes and `encode` writes values, each in its own function of the
  code. That they agree for connect also needs the store: `get_size` asks it for the texts and `encode` for every key, and they
  find the fields because eleven puts of different keys into twenty places fill eleven slots.
* `UrlIsSent` takes `SentInv` back to the URL: what the two names of a path say, one behind the other, is the path, by lemmas on
  subsequences. `CompleteUrlsWork` is about the same names: a complete URL has none that is `Null`, and one that fits
  meets no end of an array, wherever host, port and app come from when tcUrl is put together. Of a URL that does not fit no packet is made
  in the model, so that `UrlIsSent` says nothing of it.
* `ReplyUnderstood` reads a response value by value, as the code does twice, once for its name and transaction and once from the
  start again. It needs no invariant but that there is a reply, which may have any values in any number.
* `CommandsUseMap` is the store's theorem for this specification: the actions on the store are conjuncts of actions here, so
  that `StoreSteps` of `KVStoreProofs` applies. `CommandsStayInside` is stronger than that of the store: eleven keys in twenty
  places never leave the array, whatever allocation fails. What the run checks of the driver's use, `ImplementsMap` and
  `OutsideOnlyWhenShort`, are `StoreIsMap` and `InsideUnlessShort` of `KVStoreProofs`, for a user that makes any call.
  `TypesAreKept` is the type invariant.

The constants' assumptions are `SizesAssumption`, `SendAssumption`, `ReaderAssumption`, `H264Assumption`, `AacAssumption`, `SessionAssumption`,
`StoreAssumption`, `CommandsAssumption` with `ObjectAssumption` (the object's keys and fields are keys and values of the
store) and `LengthAssumption` (texts have a length); TLC evaluates them in the runs. In `CommandsAssumption`, that a text and its
query put together are a text says nothing of the code: the prover does not know it of strings.

Model-checked and not proved: the liveness properties `MutexReleased`, `AllReceived`, `CallsReturn` and `CallReturns`, which are out
of the prover's reach. Every other property of a passing run is a theorem.

## Plan

Done: all components with state, and the theorems above. Left: a server with extended timestamp deltas for `ChunkReader`.


## Not modelled

Layout and text: the bytes of chunk headers and FLV tags, the byte order of `SrsBuffer`, names of errors and tag types
(`snx_human_...`), logging, name resolution.

Code that is not compiled or not called: what is in `#if 0`, batches of more than one message, the merged read, the server's
side of the handshake, the SetChunkSize command behind `if(false)`, AMF0 types that no packet of a session uses.

Limits: what follows when a URL overruns the arrays it is copied to (that and when it does is modelled); frames that are
larger than the frame buffer of `rtmp_h264.c` (line 228: by the size of one frame an assertion fails or does not); chunk
stream ids without a place in the cache (`rtmp_protocol.c:506`: they are read through NULL, and what follows depends on
the memory there; `ReaderAssumption` keeps the server from them); failed allocations other than those of the key-value store.

What a server would have to do first: extended timestamp deltas (`rtmp_protocol.c:894`), which `ChunkReader`'s server does
not send; the sequence number in an acknowledgement (`rtmp_protocol.c:1480`), which is never encoded: `Session` has
an acknowledgement that means nothing to the server.

The splitting of a buffer at annexb start codes: the NALUs are taken as given, and an SPS has at least the four bytes
that are read of it (`rtmp_h264.c:83`).

Two tasks that publish the same medium on one context, which the code does not provide for; and data races on
the static flags between two instructions of one function: tasks give way where they block.
