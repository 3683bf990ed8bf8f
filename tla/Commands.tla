------------------------------ MODULE Commands -------------------------------
(***************************************************************************)
(* The commands a publishing session sends, from the URL to the bytes:     *)
(* srs_parse_rtmp_url (RtmpUrl), the packets of rtmp_cmd.c with connect's  *)
(* object in a key-value store (KVStore), srs_protocol_encode, the AMF0    *)
(* values of rtmp_amf.c, the cursor of rtmp_mbuffer.c; and how the         *)
(* response to createStream is decoded.                                    *)
(*                                                                         *)
(* One task, one context, calls that may fail and be repeated; in which    *)
(* order calls succeed is Session's, the bytes on the wire are SendPath's. *)
(* A value is one item of the buffer with the bytes it takes.              *)
(*                                                                         *)
(* A call that stops the process is at the place dead, one that goes on    *)
(* with what nobody has set at garbage, and one that has written behind an *)
(* array at overrun: nothing is said of what follows any of them.          *)
(***************************************************************************)
EXTENDS RtmpUrl, KVStore, TLC

CONSTANTS
  Urls,        \* what snx_rtmp_create may be given
  Replies,     \* what the server may answer to createStream
  Garbage      \* what may be read where a packet should be

(* An AMF0 value of a message, with its type as the only field.  An object *)
(* stands for every type that is not asked for.                            *)
AmfValues ==
  [string : STRING] \cup [number : Int] \cup [null : {0}] \cup [object : {0}] \cup [byte : {0}]

ASSUME CommandsAssumption ==
  /\ Null \notin STRING /\ Null \notin Seq(STRING)
  /\ Urls \subseteq [scheme : BOOLEAN, host : STRING, port : Nat \cup {Absent},
                    path : Seq(STRING), slist : STRING]
  /\ \A u \in Urls :
       u.slist # "" => u.path # << >> /\ u.path[Len(u.path)] \o u.slist \in STRING
  /\ Replies \subseteq [amf3 : BOOLEAN, fields : Seq(AmfValues)] /\ Garbage \subseteq Int

VARIABLES
  url,        \* the URL of the context, or Null
  context,    \* what was parsed of it
  ip,         \* the host, once resolved
  pc,         \* what the task does: "idle", or the step it is at in making a packet
  packet,     \* the packet that is made
  todo,       \* what is left to put into the store, or to encode
  buf,        \* SrsBuffer: position, size, values written, state, and whether
              \* a value was refused without anybody looking
  reply,      \* the message createStream is answered with
  stream_id,
  sent        \* the values of each kind of packet sent

session == <<url, context, ip, stream_id>>
making == <<packet, todo, buf>>
vars == <<session, pc, making, kvsVars, reply, sent>>

-----------------------------------------------------------------------------
(* SrsBuffer.                                                              *)
Initialized(n) == [p |-> 0, nb |-> n, st |-> "ok", data |-> << >>, missing |-> FALSE]

Require(b, n) == n <= b.nb - b.p

(* srs_buffer_write_...: no room is an assertion.                          *)
Asserted(b, n) ==
  IF b.st # "ok" THEN b
  ELSE IF Require(b, n) THEN [b EXCEPT !.p = @ + n] ELSE [b EXCEPT !.st = "aborted"]

(* The same behind a test that returns an error.                           *)
Checked(b, n) ==
  IF b.st = "ok" /\ ~Require(b, n) THEN [b EXCEPT !.st = "error"] ELSE Asserted(b, n)

Holding(b, value) == IF b.st = "ok" THEN [b EXCEPT !.data = Append(@, value)] ELSE b

(* AMF0.  The length of a text is written without a test.                  *)
WriteUtf8(b, s) == Holding(Checked(Asserted(b, 2), Length(s)), s)
WriteString(b, s) == WriteUtf8(Checked(b, 1), s)
WriteNumber(b, n) == Holding(Checked(Checked(b, 1), 8), n)
WriteBoolean(b, v) == Holding(Checked(Checked(b, 1), 1), v)
WriteNull(b) == Holding(Checked(b, 1), "null")
WriteObject(b) == Holding(Checked(b, 1), "{")
WriteEnd(b) == Holding(Checked(Checked(b, 2), 1), "}")
WriteInt(b, n) == Holding(Checked(b, 4), n)

SizeUtf8(s) == 2 + Length(s)
SizeStr(s) == 1 + SizeUtf8(s)
SizeNumber == 1 + 8
SizeNull == 1
SizeEnd == 2 + 1
SizeBoolean == 1 + 1

-----------------------------------------------------------------------------
(* The packets: init, get_size and what encode writes, in order.           *)

(* A text without slashes.                                                 *)
Word(s) == <<s>>

Text(v) == [t |-> "string", v |-> v]
Number(v) == [t |-> "number", v |-> v]
NullValue == [t |-> "null", v |-> "null"]

(* The type by which a field of connect's object is written.               *)
Pair(key, type) == [t |-> type, key |-> key]

(* connect_app_object_write and the order in which connect_app puts.       *)
ObjectPairs ==
  << Pair("app", "text"), Pair("flashVer", "text"), Pair("swfUrl", "text"), Pair("tcUrl", "text"),
     Pair("fpad", "flag"), Pair("capabilities", "count"), Pair("audioCodecs", "count"),
     Pair("videoCodecs", "count"), Pair("videoFunction", "count"), Pair("pageUrl", "text"),
     Pair("objectEncoding", "count") >>

Field ==
  [app |-> "app_value", flashVer |-> "flashver_value", swfUrl |-> "swfurl_alue",
   tcUrl |-> "tcurl_value", fpad |-> "fpad_value", capabilities |-> "capabilities_value",
   audioCodecs |-> "audiocodecs_value", videoCodecs |-> "videocodecs_value",
   videoFunction |-> "videofunction_value", pageUrl |-> "pageUrl_value",
   objectEncoding |-> "objectEncoding_value"]

(* The store may hold them.                                                *)
ASSUME ObjectAssumption ==
  \A i \in DOMAIN ObjectPairs : ObjectPairs[i].key \in Keys /\ Field[ObjectPairs[i].key] \in Values

TcUrlBuffer == 128

TcUrl(host, port, app) == <<"rtmp:", "", host \o ":" \o ToString(port)>> \o app

ConnectPacket ==
  [type |-> "connect", command_name |-> Word("connect"), transaction_id |-> 1,
   app_value |-> context.app, flashver_value |-> Word("WIN 15,0,0,239"),
   swfurl_alue |-> Word(""), tcurl_value |-> TcUrl(ip, context.port, context.app),
   fpad_value |-> FALSE, capabilities_value |-> 239, audiocodecs_value |-> 3575,
   videocodecs_value |-> 252, videofunction_value |-> 1, pageUrl_value |-> Word(""),
   objectEncoding_value |-> 0]

SetWindowPacket == [type |-> "set_window", ackowledgement_window_size |-> 2500000]
ReleasePacket(s) ==
  [type |-> "release", command_name |-> Word("releaseStream"), transaction_id |-> 2, stream_name |-> s]
FcPublishPacket(s) ==
  [type |-> "fcpublish", command_name |-> Word("FCPublish"), transaction_id |-> 3, stream_name |-> s]
(* fmle_publish overwrites the transaction id 2 of init.                   *)
CreatePacket == [type |-> "create", command_name |-> Word("createStream"), transaction_id |-> 4]
PublishPacket(s) ==
  [type |-> "publish", command_name |-> Word("publish"), transaction_id |-> 0, stream_name |-> s,
   stype |-> Word("live")]

(* The texts of the packets.                                               *)
Words ==
  {"connect", "WIN 15,0,0,239", "", "releaseStream", "FCPublish", "createStream", "publish", "live"}
    \cup {ObjectPairs[i].key : i \in DOMAIN ObjectPairs}

Addressed == {c \in {Parsed(u) : u \in Urls} : c.host # Null /\ c.app # Null}

Texts ==
  {Word(s) : s \in Words} \cup ({Parsed(u).stream : u \in Urls} \ {Null})
    \cup {c.app : c \in Addressed} \cup {TcUrl(c.host, c.port, c.app) : c \in Addressed}

ASSUME LengthAssumption == \A t \in Texts : Length(t) \in Nat

(* What encode writes, and how many bytes get_size allocates for it.       *)
ConnectFields(pkt) ==
  <<Text(pkt.command_name), Number(pkt.transaction_id), [t |-> "object"]>>
    \o ObjectPairs \o <<[t |-> "end"]>>
SetWindowFields(pkt) == <<[t |-> "int", v |-> pkt.ackowledgement_window_size]>>
CreateFields(pkt) == <<Text(pkt.command_name), Number(pkt.transaction_id), NullValue>>
NameFields(pkt) == CreateFields(pkt) \o <<Text(pkt.stream_name)>>
PublishFields(pkt) == NameFields(pkt) \o <<Text(pkt.stype)>>

SizeOfType(type, value) ==
  CASE type = "text" -> SizeStr(value) [] type = "flag" -> SizeBoolean [] OTHER -> SizeNumber

(* A key of connect's object and its value, when the store has the key.    *)
PairSize(pkt, i) ==
  SizeUtf8(Word(ObjectPairs[i].key))
    + SizeOfType(ObjectPairs[i].t, pkt[Found(ObjectPairs[i].key)])

(* Seeded fault: the end of the object is not counted.                     *)
ObjectSizeOpen(pkt) ==
  1 + PairSize(pkt, 1) + PairSize(pkt, 2) + PairSize(pkt, 3) + PairSize(pkt, 4)
    + PairSize(pkt, 5) + PairSize(pkt, 6) + PairSize(pkt, 7) + PairSize(pkt, 8)
    + PairSize(pkt, 9) + PairSize(pkt, 10) + PairSize(pkt, 11)

(* connect_app_object_total_size.                                          *)
ObjectSize(pkt) ==
  1 + PairSize(pkt, 1) + PairSize(pkt, 2) + PairSize(pkt, 3) + PairSize(pkt, 4)
    + PairSize(pkt, 5) + PairSize(pkt, 6) + PairSize(pkt, 7) + PairSize(pkt, 8)
    + PairSize(pkt, 9) + PairSize(pkt, 10) + PairSize(pkt, 11)
    + SizeEnd

ConnectSize(pkt) == SizeStr(pkt.command_name) + SizeNumber + ObjectSize(pkt)
CreateSize(pkt) == SizeStr(pkt.command_name) + SizeNumber + SizeNull
NameSize(pkt) == CreateSize(pkt) + SizeStr(pkt.stream_name)
PublishSize(pkt) == NameSize(pkt) + SizeStr(pkt.stype)

Write(b, f) ==
  CASE f.t = "string" -> WriteString(b, f.v)
    [] f.t = "number" -> WriteNumber(b, f.v)
    [] f.t = "null" -> WriteNull(b)
    [] f.t = "int" -> WriteInt(b, f.v)
    [] f.t = "object" -> WriteObject(b)
    [] f.t = "end" -> WriteEnd(b)

(* connect_app_object_write does not look at what the writes return.       *)
Ignoring(b) == IF b.st = "error" THEN [b EXCEPT !.st = "ok", !.missing = TRUE] ELSE b

WritePair(b, f, value) ==
  LET named == Ignoring(WriteUtf8(b, Word(f.key)))
  IN Ignoring(CASE f.t = "text" -> WriteString(named, value)
                [] f.t = "flag" -> WriteBoolean(named, value)
                [] f.t = "count" -> WriteNumber(named, value))

-----------------------------------------------------------------------------
Kinds == {"connect", "set_window", "release", "fcpublish", "create", "publish"}
NoPacket == [type |-> "none"]
NoReply == [amf3 |-> FALSE, fields |-> << >>]

Init ==
  /\ url = Null /\ context = Blank /\ ip = Null /\ stream_id = 0
  /\ pc = "idle" /\ packet = NoPacket /\ todo = << >> /\ buf = Initialized(0)
  /\ KVInit
  /\ reply = NoReply
  /\ sent = [k \in Kinds |-> << >>]

(* The application.                                                        *)
NewContext(u) ==
  /\ pc = "idle" /\ url = Null /\ ~there /\ ~wild
  /\ url' = u
  /\ UNCHANGED <<context, ip, stream_id, pc, making, kvsVars, reply, sent>>

Destroy ==
  /\ pc = "idle" /\ url # Null
  /\ url' = Null /\ context' = Blank /\ ip' = Null /\ stream_id' = 0
  /\ reply' = NoReply /\ sent' = [k \in Kinds |-> << >>]
  /\ packet' = NoPacket /\ todo' = << >> /\ buf' = Initialized(0)
  /\ UNCHANGED <<pc, kvsVars>>

(* srs_rtmp_dns_resolve, the first step of the handshake: parse_uri        *)
(* returns no value, and any but 0 ends the call.  A host that was not     *)
(* parsed is copied through NULL.                                          *)
ResolveStops ==
  /\ pc = "idle" /\ url # Null /\ ~Overruns(url)
  /\ context' = Parsed(url)
  /\ UNCHANGED <<url, ip, stream_id, pc, making, kvsVars, reply, sent>>

Resolve ==
  /\ pc = "idle" /\ url # Null /\ ~Overruns(url)
  /\ context' = Parsed(url)
  /\ IF Parsed(url).host = Null
     THEN pc' = "dead" /\ UNCHANGED ip
     ELSE ip' = Parsed(url).host /\ UNCHANGED pc
  /\ UNCHANGED <<url, stream_id, making, kvsVars, reply, sent>>

ResolveOverruns ==
  /\ pc = "idle" /\ url # Null /\ Overruns(url)
  /\ pc' = "overrun"
  /\ UNCHANGED <<session, making, kvsVars, reply, sent>>

-----------------------------------------------------------------------------
(* The tcUrl is put together in a static array of TcUrlBuffer bytes, with  *)
(* no test of its length.                                                  *)
TcUrlOverruns == Length(TcUrl(ip, context.port, context.app)) >= TcUrlBuffer

ConnectOverruns ==
  /\ pc = "idle" /\ url # Null
  /\ ip # Null /\ context.app # Null /\ TcUrlOverruns
  /\ pc' = "overrun"
  /\ UNCHANGED <<session, making, kvsVars, reply, sent>>

(* connect_app's packet: its store is created, filled, asked for the       *)
(* sizes, and asked for the values.                                        *)
ConnectApp ==
  /\ pc = "idle" /\ url # Null
  /\ ip # Null /\ context.app # Null /\ ~TcUrlOverruns
  /\ packet' = ConnectPacket /\ todo' = ObjectPairs /\ pc' = "fill"
  /\ Create(20, 5) \/ CreateFails
  /\ UNCHANGED <<session, buf, reply, sent>>

(* Without a host or an app the tcUrl is put together through NULL.        *)
ConnectNothing ==
  /\ pc = "idle" /\ url # Null
  /\ ip = Null \/ context.app = Null
  /\ pc' = "dead"
  /\ UNCHANGED <<session, making, kvsVars, reply, sent>>

Fill ==
  /\ pc = "fill" /\ todo # << >>
  /\ LET k == Head(todo).key IN Put(k, Field[k]) \/ OnNull
  /\ todo' = Tail(todo)
  /\ UNCHANGED <<session, pc, packet, buf, reply, sent>>

(* kvs_get's result is read through, whatever it is.                       *)
Measure ==
  /\ pc = "fill" /\ todo = << >> /\ there
  /\ Get("pageUrl")
  /\ buf' = Initialized(ConnectSize(packet))
  /\ todo' = ConnectFields(packet) /\ pc' = "encode"
  /\ UNCHANGED <<session, packet, reply, sent>>

MeasureNothing ==
  /\ pc = "fill" /\ todo = << >> /\ ~there
  /\ pc' = "dead"
  /\ UNCHANGED <<session, making, kvsVars, reply, sent>>

-----------------------------------------------------------------------------
(* The other packets, each at the place pc names.                          *)
PublishStream ==
  /\ pc = "idle" /\ url # Null
  /\ pc' = IF context.stream = Null THEN "dead" ELSE "release"
  /\ UNCHANGED <<session, making, kvsVars, reply, sent>>

Encoding(pkt, bytes, fields) ==
  /\ packet' = pkt /\ todo' = fields /\ buf' = Initialized(bytes) /\ pc' = "encode"
  /\ UNCHANGED <<session, kvsVars, reply, sent>>

MakeSetWindow ==
  pc = "set_window" /\ Encoding(SetWindowPacket, 4, SetWindowFields(SetWindowPacket))
MakeRelease ==
  /\ pc = "release"
  /\ LET p == ReleasePacket(context.stream) IN Encoding(p, NameSize(p), NameFields(p))
MakeFcPublish ==
  /\ pc = "fcpublish"
  /\ LET p == FcPublishPacket(context.stream) IN Encoding(p, NameSize(p), NameFields(p))
MakeCreate ==
  pc = "create" /\ Encoding(CreatePacket, CreateSize(CreatePacket), CreateFields(CreatePacket))
MakePublish ==
  /\ pc = "publish"
  /\ LET p == PublishPacket(context.stream) IN Encoding(p, PublishSize(p), PublishFields(p))

(* One value of encode.                                                    *)
EncodeValue ==
  /\ pc = "encode" /\ buf.st = "ok" /\ todo # << >> /\ "key" \notin DOMAIN Head(todo)
  /\ LET b == Write(buf, Head(todo))
     IN buf' = IF Head(todo).t \in {"object", "end"} THEN Ignoring(b) ELSE b
  /\ todo' = Tail(todo)
  /\ UNCHANGED <<session, pc, packet, kvsVars, reply, sent>>

EncodePair ==
  /\ pc = "encode" /\ buf.st = "ok" /\ todo # << >> /\ "key" \in DOMAIN Head(todo)
  /\ Get(Head(todo).key)
  /\ buf' = WritePair(buf, Head(todo), packet[Found(Head(todo).key)])
  /\ todo' = Tail(todo)
  /\ UNCHANGED <<session, pc, packet, reply, sent>>

-----------------------------------------------------------------------------
(* What follows a packet that was sent.                                    *)
After ==
  [connect |-> "set_window", set_window |-> "idle",
   release |-> "fcpublish", fcpublish |-> "create", create |-> "reply", publish |-> "idle"]

(* The packet's uinit, which is called on both ways.                       *)
Uninit == IF there THEN ClearDestroy ELSE UNCHANGED kvsVars

Send ==
  /\ pc = "encode" /\ todo = << >> /\ buf.st = "ok"
  /\ sent' = [sent EXCEPT ![packet.type] = buf.data]
  /\ pc' = After[packet.type]
  /\ Uninit
  /\ packet' = NoPacket /\ todo' = << >> /\ buf' = Initialized(0)
  /\ UNCHANGED <<session, reply>>

(* The send or the encoding failed, and the call returns.                  *)
SendFails ==
  /\ pc = "encode" /\ (todo = << >> \/ buf.st = "error") /\ buf.st # "aborted"
  /\ pc' = "idle"
  /\ Uninit
  /\ packet' = NoPacket /\ todo' = << >> /\ buf' = Initialized(0)
  /\ UNCHANGED <<session, reply, sent>>

-----------------------------------------------------------------------------
(* The response to createStream.  A message is its AMF0 values, as many as *)
(* are whole, behind one byte more when it is an AMF3 command; a value is  *)
(* a record with its type as the only field.                               *)

Reading(i) == [i |-> i, st |-> "ok", v |-> Null]

(* A value of the wanted type, or a decoding error.                        *)
ReadValue(r, type) ==
  IF r.st = "ok" /\ r.i <= Len(reply.fields) /\ type \in DOMAIN reply.fields[r.i]
  THEN [r EXCEPT !.i = @ + 1, !.v = reply.fields[r.i][type]]
  ELSE [r EXCEPT !.st = "error", !.v = Null]

ReadNumber(r) == ReadValue(r, "number")
ReadNull(r) == ReadValue(r, "null")

(* A text of no characters leaves what was there.                          *)
ReadString(r) ==
  LET s == ReadValue(r, "string") IN IF s.v = "" THEN [s EXCEPT !.v = Null] ELSE s

(* Seeded fault: the byte in front of an AMF3 command is read again.       *)
StartOfMessage == 1

StartOfCommand == IF reply.amf3 THEN 2 ELSE 1

(* What do_decode_message reads first.                                     *)
NameRead == ReadString(Reading(IF reply.amf3 THEN 2 ELSE 1))
IdRead == ReadNumber(NameRead)
Named == NameRead.st = "ok" /\ NameRead.v # Null
IsResponse == Named /\ NameRead.v \in {"_result", "_error"}

(* srs_createstreamres_packet_decode, from the start again.                *)
ResponseRead ==
  LET name == ReadString(Reading(StartOfCommand))
  IN IF name.st = "ok" /\ name.v # "_result" THEN [name EXCEPT !.st = "error"]
     ELSE ReadNumber(ReadNull(ReadNumber(name)))

Receive ==
  /\ pc = "reply"
  /\ reply' \in Replies
  /\ pc' = "decode"
  /\ UNCHANGED <<session, making, kvsVars, sent>>

(* The message is freed.                                                   *)
DecodeIs(to) ==
  /\ pc = "decode" /\ pc' \in to /\ reply' = NoReply
  /\ UNCHANGED <<url, context, ip, making, kvsVars, sent>>

(* An unread name is a pointer nobody has set, which is freed or compared. *)
DecodeNoName ==
  /\ ~Named
  /\ DecodeIs({"idle", "garbage"}) /\ UNCHANGED stream_id

(* connect's response is passed over.                                      *)
DecodeOther ==
  /\ IsResponse /\ IdRead.st = "ok" /\ IdRead.v = 1
  /\ DecodeIs({"reply"}) /\ UNCHANGED stream_id

(* Any other command or response has no packet and a type nobody has set.  *)
(* When it is the one expected, the stream is read through NULL, where     *)
(* something is found or the process ends.                                 *)
DecodeUntyped ==
  /\ Named
  /\ IsResponse => IdRead.st = "ok" /\ IdRead.v \notin {1, 4}
  /\ \/ DecodeIs({"reply", "garbage"}) /\ UNCHANGED stream_id
     \/ DecodeIs({"publish"}) /\ stream_id' \in Garbage

DecodeFails ==
  /\ IsResponse
  /\ IdRead.st = "error" \/ (IdRead.v = 4 /\ ResponseRead.st = "error")
  /\ DecodeIs({"idle"}) /\ UNCHANGED stream_id

DecodeStream ==
  /\ IsResponse /\ IdRead.st = "ok" /\ IdRead.v = 4 /\ ResponseRead.st = "ok"
  /\ DecodeIs({"publish"}) /\ stream_id' = ResponseRead.v

Next ==
  \/ \E u \in Urls : NewContext(u)
  \/ Destroy \/ ResolveStops \/ Resolve \/ ResolveOverruns
  \/ ConnectOverruns \/ ConnectApp \/ ConnectNothing \/ Fill \/ Measure \/ MeasureNothing
  \/ PublishStream
  \/ MakeSetWindow \/ MakeRelease \/ MakeFcPublish \/ MakeCreate \/ MakePublish
  \/ EncodeValue \/ EncodePair \/ Send \/ SendFails
  \/ Receive
  \/ DecodeNoName \/ DecodeOther \/ DecodeUntyped \/ DecodeFails \/ DecodeStream

Spec == Init /\ [][Next]_vars

-----------------------------------------------------------------------------
Places ==
  {"idle", "dead", "garbage", "overrun", "fill", "encode", "set_window", "release", "fcpublish", "create", "publish",
   "reply", "decode"}

TypeOK ==
  /\ StoreOK
  /\ url \in Urls \cup {Null} /\ ip \in {Null} \cup {u.host : u \in Urls}
  /\ context \in {Blank} \cup {Parsed(u) : u \in Urls}
  /\ pc \in Places
  /\ packet.type \in Kinds \cup {"none"} /\ DOMAIN sent = Kinds
  /\ buf.p \in 0 .. buf.nb /\ buf.st \in {"ok", "error", "aborted"}
  /\ reply \in Replies \cup {NoReply}

(* The size a packet is given by get_size is what encode writes: no value  *)
(* is refused for want of room, no assertion of the cursor fails, and no   *)
(* byte of the payload is left over, for any URL whose packets are made.   *)
FillsExactly ==
  pc = "encode" => buf.st = "ok" /\ ~buf.missing /\ (todo = << >> => buf.p = buf.nb)

(* The value sent behind a key of connect's object.                        *)
SentFor(key) ==
  LET i == CHOOSE j \in DOMAIN ObjectPairs : ObjectPairs[j].key = key
  IN IF sent["connect"][2 * i + 2] = Word(key) THEN sent["connect"][2 * i + 3] ELSE Word("?")

(* What the server is told is what the URL says: the app of connect and    *)
(* the name in each of the three commands that have one put the path       *)
(* together again, and the tcUrl names host, port and that app.  A URL     *)
(* that is too long for the arrays it is copied into is never sent in part *)
(* by what is modelled: the place overrun comes before the packet.         *)
ServerSeesUrl ==
  url # Null /\ url.slist = "" =>
    /\ sent["connect"] # << >> =>
         SentFor("tcUrl") =
           TcUrl(url.host, IF url.port = Absent \/ url.port > MaxPort THEN 0 ELSE url.port,
                 SentFor("app"))
    /\ \A k \in {"release", "fcpublish", "publish"} :
         sent["connect"] # << >> /\ sent[k] # << >> =>
           SentFor("app") \o sent[k][4] = url.path

(* A URL with a host, an app and a name for the stream.                    *)
Complete(u) ==
  /\ u.scheme /\ u.host # "" /\ Len(u.host) <= MaxHost
  /\ u.slist # "" \/ (Len(u.path) > 1 /\ u.path[Len(u.path)] # "")

(* Its app and its stream are shorter than the arrays of the parser, and   *)
(* host, port and app together than the one of the tcUrl.                  *)
Fits(u) ==
  /\ ~Overruns(u)
  /\ Length(TcUrl(u.host, Port(u), App(u))) < TcUrlBuffer

(* With a complete URL that fits, nothing is read through NULL and nothing *)
(* is written behind an array on the way from the URL to the packets,      *)
(* unless memory ran out or the name was never resolved; in what order the *)
(* calls are made, how often, and which of them fail does not matter.      *)
CompleteUrlWorks ==
  pc \in {"dead", "overrun"} /\ Complete(url) /\ Fits(url) => pc = "dead" /\ (short \/ ip = Null)

ResponseTo(id) ==
  << [string |-> "_result"], [number |-> 4], [null |-> 0], [number |-> id] >>

Payload(r) == IF r.amf3 /\ r.fields # << >> THEN Tail(r.fields) ELSE r.fields

(* Messages whose name and transaction can be read and are known.          *)
Known(r) ==
  LET f == Payload(r)
  IN /\ Len(f) >= 2 /\ DOMAIN f[1] = {"string"} /\ DOMAIN f[2] = {"number"}
     /\ f[1].string \in {"_result", "_error"} /\ f[2].number \in {1, 4}

(* A whole _result of createStream, whatever follows it.                   *)
IsResult(f) ==
  Len(f) >= 4 /\ "number" \in DOMAIN f[4] /\ SubSeq(f, 1, 4) = ResponseTo(f[4].number)

(* Of the responses that are known, publish_stream goes on with a whole    *)
(* _result of createStream only, AMF0 or AMF3, and with the id in it.      *)
ReplyIsUnderstood ==
  [][pc = "decode" /\ Known(reply) =>
       /\ pc' = "publish" <=> IsResult(Payload(reply))
       /\ pc' = "publish" => stream_id' = Payload(reply)[4].number]_vars
=============================================================================
