----------------------------- MODULE ChunkReader -----------------------------
(***************************************************************************)
(* srs_protocol_recv_message (rtmp_protocol.c) and what it calls: the      *)
(* reader takes basic headers, message headers, extended timestamps and    *)
(* payload from the input buffer and reassembles the messages, which the   *)
(* server interleaves by chunk stream and cuts by a chunk size it changes  *)
(* with SetChunkSize.                                                      *)
(*                                                                         *)
(* wire is what the server has sent and the reader has not taken; grow(n)  *)
(* waits until n bytes of it are there (FastStream implements this queue). *)
(* A message header and a basic header are one item each, an extended      *)
(* timestamp is ExtSize of them and payload one per byte, so that the      *)
(* reader can look for a timestamp where there is payload, and find one    *)
(* where the payload spells it.  The server is external.  Chunk stream 2   *)
(* carries SetChunkSize, the others media.                                 *)
(***************************************************************************)
EXTENDS Integers, Sequences, Functions

CONSTANTS
  Cids,        \* chunk streams the server uses
  CacheSize,   \* SRS_PERF_CHUNK_STREAM_CACHE
  Lengths,     \* payload_length of media messages
  Times,       \* timestamps and deltas the server puts into headers
  Threshold,   \* RTMP_EXTENDED_TIMESTAMP
  TimeMod,     \* 2^31: timestamps are masked with 0x7fffffff
  ExtSize,     \* bytes of an extended timestamp: 4
  InitialSize, \* SRS_CONSTS_RTMP_PROTOCOL_CHUNK_SIZE
  ChunkSizes,  \* sizes the server changes to
  MinSize,     \* SRS_CONSTS_RTMP_MIN_CHUNK_SIZE
  RepeatsExt,  \* whether the server repeats the extended timestamp in fmt 3
  Bytes,       \* payload of media: each message repeats one byte, which is named
               \* by the timestamp that ExtSize of it read as
  MaxMessages, \* bound: the messages the server sends
  MaxAhead     \* bound: the server sends on when no more than this is unread

Control == 2  \* RTMP_CID_ProtocolControl

ASSUME ReaderAssumption ==
  /\ Cids \subseteq 2 .. CacheSize - 1
  /\ CacheSize \in Nat
  /\ Lengths \subseteq Nat /\ Bytes \subseteq Nat
  /\ TimeMod \in Nat /\ Threshold \in 1..TimeMod
  /\ Times \subseteq 0 .. TimeMod - 1
  /\ ExtSize \in Nat \ {0}
  /\ MinSize \in Nat \ {0} /\ InitialSize \in Nat \ {0} /\ ChunkSizes \subseteq Nat \ {0}
  /\ RepeatsExt \in BOOLEAN
  /\ MaxMessages \in Nat /\ MaxAhead \in Nat

VARIABLES
  wire,           \* sent and not taken
  size,           \* server: its chunk size
  out,            \* server: the message on each chunk stream
  nsent,          \* server: messages begun
  sent,           \* server: whole nonempty messages, by chunk stream
  conforming,     \* the server has kept to the protocol
  mode,           \* the grow the reader waits in, or why the model follows it no further
  at,             \* the chunk being read: cid, fmt, is_first_chunk_of_msg
  chunk,          \* cs_cache
  in_chunk_size,
  got,            \* messages recv_message returned, by chunk stream
  failed          \* a grow failed inside a chunk

server == <<size, out, nsent, sent, conforming>>
vars == <<wire, server, mode, at, chunk, in_chunk_size, got, failed>>

NoAt == [cid |-> 0, fmt |-> 0, first |-> FALSE]

Init ==
  /\ wire = << >>
  /\ size = InitialSize
  /\ out = [c \in Cids |-> [used |-> FALSE, ext |-> FALSE, delta |-> 0, ts |-> 0,
                            body |-> << >>, put |-> 0]]
  /\ nsent = 0
  /\ sent = [c \in Cids |-> << >>]
  /\ conforming = TRUE
  /\ mode = "basic"
  /\ at = NoAt
  /\ chunk = [c \in Cids |-> [seen |-> FALSE, ext |-> FALSE, delta |-> 0, ts |-> 0,
                              len |-> 0, msg |-> FALSE, body |-> << >>]]
  /\ in_chunk_size = InitialSize
  /\ got = [c \in Cids |-> << >>]
  /\ failed = FALSE

Least(a, b) == IF a < b THEN a ELSE b

-----------------------------------------------------------------------------
(* The server.                                                             *)

Basic(c, fmt) == <<[t |-> "basic", cid |-> c, fmt |-> fmt]>>
Header(field, len) == <<[t |-> "header", field |-> Least(field, Threshold), len |-> len]>>
Ext(ts) == [k \in 1..ExtSize |-> [t |-> "ext", k |-> k, ts |-> ts]]
Body(id, len, v) == [k \in 1..len |-> [t |-> "unit", id |-> id, k |-> k, v |-> v]]

Active(c) == out[c].put < Len(out[c].body)

(* Put the rest of a chunk behind its header h: o is the message, of which *)
(* one more piece goes out.                                                *)
Puts(c, h, o) ==
  LET n == Least(size, Len(o.body) - o.put)
      whole == o.put + n = Len(o.body)
  IN /\ Len(wire) <= MaxAhead
     /\ wire' = wire \o h \o SubSeq(o.body, o.put + 1, o.put + n)
     /\ out' = [out EXCEPT ![c] = [o EXCEPT !.put = o.put + n]]
     /\ sent' = IF whole /\ o.body # << >>
                THEN [sent EXCEPT ![c] = Append(@, [ts |-> o.ts, body |-> o.body])]
                ELSE sent
     /\ size' = IF whole /\ c = Control THEN o.body[1].v ELSE size
  /\ UNCHANGED <<mode, at, chunk, in_chunk_size, got, failed>>

(* The first chunk of a message.  fmt 0 carries a timestamp, fmt 1 and 2 a *)
(* delta, fmt 3 repeats the last of either; only absolute timestamps are   *)
(* extended.                                                               *)
Starts(c, fmt, len, t, v) ==
  LET o == [used |-> TRUE, ext |-> t >= Threshold, delta |-> t,
            ts |-> IF fmt = 0 THEN t ELSE (out[c].ts + t) % TimeMod,
            body |-> Body(nsent + 1, len, v), put |-> 0]
  IN /\ conforming /\ nsent < MaxMessages /\ ~Active(c)
     /\ fmt = 0 \/ out[c].used \/ (fmt = 1 /\ c = Control)
     /\ fmt # 0 => t < Threshold
     /\ fmt \in {2, 3} => len = Len(out[c].body)
     /\ fmt = 3 => t = out[c].delta
     /\ nsent' = nsent + 1
     /\ conforming' = (c # Control \/ v >= MinSize)
     /\ Puts(c, Basic(c, fmt) \o (IF fmt = 3 THEN << >> ELSE Header(t, len))
                \o (IF o.ext THEN Ext(t) ELSE << >>), o)

ServerStarts ==
  \E c \in Cids, fmt \in 0..3, t \in Times :
    IF c = Control THEN \E v \in ChunkSizes : Starts(c, fmt, 1, t, v)
                   ELSE \E len \in Lengths, v \in Bytes : Starts(c, fmt, len, t, v)

ServerContinues(c) ==
  /\ conforming /\ Active(c)
  /\ Puts(c, Basic(c, 3) \o (IF out[c].ext /\ RepeatsExt THEN Ext(out[c].ts) ELSE << >>), out[c])
  /\ UNCHANGED <<nsent, conforming>>

(* A server that does not keep to the protocol, apart from a chunk size    *)
(* that is too small: a fresh stream that does not start with fmt 0, a     *)
(* message begun inside another, or one whose length changes on the way.   *)
ServerErrs(c) ==
  /\ conforming
  /\ conforming' = FALSE
  /\ \/ \E fmt \in IF c = Control THEN 2..3 ELSE 1..3 :
          ~out[c].used /\ wire' = wire \o Basic(c, fmt)
     \/ Active(c) /\ wire' = wire \o Basic(c, 0)
     \/ Active(c) /\ wire' = wire \o Basic(c, 1) \o Header(0, Len(out[c].body) + 1)
  /\ UNCHANGED <<size, out, nsent, sent, mode, at, chunk, in_chunk_size, got, failed>>

-----------------------------------------------------------------------------
(* The reader.  In each mode it waits in one grow; what it does with the   *)
(* bytes, up to the next grow, is one step.                                *)

Ch == chunk[at.cid]

(* Seeded fault: an extended stream is taken to stay fresh.                *)
RefusesFresher(ch, c, fmt) ==
  \/ (~ch.seen \/ ch.ext) /\ fmt # 0 /\ ~(c = Control /\ fmt = 1)
  \/ ch.msg /\ fmt = 0

(* read_message_header's two checks of the chunk type.                     *)
Refuses(ch, c, fmt) ==
  \/ ~ch.seen /\ fmt # 0 /\ ~(c = Control /\ fmt = 1)
  \/ ch.msg /\ fmt = 0

(* Seeded fault: the timestamp is not masked.                              *)
NotMasked(ch) == [ch EXCEPT !.seen = TRUE]

(* The end of read_message_header: the mask and msg_count.                 *)
HeaderDone(ch) == [ch EXCEPT !.seen = TRUE, !.ts = @ % TimeMod]

(* Seeded fault: fmt 3 moves the timestamp on every chunk.                 *)
OnFmt3Always(ch) == IF ch.ext THEN ch ELSE HeaderDone([ch EXCEPT !.ts = @ + ch.delta, !.msg = TRUE])

(* A basic header of fmt 3: the timestamp moves on the first chunk only.   *)
OnFmt3(ch) ==
  LET moved == IF ~ch.msg /\ ~ch.ext THEN ch.ts + ch.delta ELSE ch.ts
  IN IF ch.ext THEN [ch EXCEPT !.msg = TRUE]
               ELSE HeaderDone([ch EXCEPT !.ts = moved, !.msg = TRUE])

ReadBasic(c, fmt) ==
  /\ mode = "basic"
  /\ wire # << >> /\ SubSeq(wire, 1, 1) = Basic(c, fmt)
  /\ wire' = Tail(wire)
  /\ IF Refuses(chunk[c], c, fmt)
     THEN mode' = "refused" /\ UNCHANGED <<at, chunk>>
     ELSE /\ at' = [cid |-> c, fmt |-> fmt, first |-> ~chunk[c].msg]
          /\ chunk' = [chunk EXCEPT ![c] = IF fmt = 3 THEN OnFmt3(@) ELSE [@ EXCEPT !.msg = TRUE]]
          /\ mode' = IF fmt < 3 THEN "header" ELSE IF chunk[c].ext THEN "ext" ELSE "payload"
  /\ UNCHANGED <<server, in_chunk_size, got, failed>>

(* fmt 0, 1 and 2.                                                         *)
ReadHeader ==
  LET h == wire[1]
      ext == h.field >= Threshold
      ts == IF ext THEN Ch.ts ELSE IF at.fmt = 0 THEN h.field ELSE Ch.ts + h.field
      ch == [Ch EXCEPT !.delta = h.field, !.ext = ext, !.ts = ts]
      len == IF at.fmt < 2 THEN h.len ELSE Ch.len
  IN /\ mode = "header"
     /\ wire # << >> /\ h.t = "header"
     /\ wire' = Tail(wire)
     /\ IF ~at.first /\ len # Ch.len
        THEN mode' = "refused" /\ chunk' = [chunk EXCEPT ![at.cid] = ch]
        ELSE /\ mode' = IF ext THEN "ext" ELSE "payload"
             /\ chunk' = [chunk EXCEPT ![at.cid] =
                  IF ext THEN [ch EXCEPT !.len = len] ELSE HeaderDone([ch EXCEPT !.len = len])]
     /\ UNCHANGED <<server, at, in_chunk_size, got, failed>>

(* The next ExtSize bytes are a timestamp, or payload that reads as one.   *)
(* Bytes of different items together never do.                             *)
ExtThere == Len(wire) >= ExtSize
IsExt(ts) == SubSeq(wire, 1, ExtSize) = Ext(ts)
LooksLike(ts) == ts \in Bytes /\ \A k \in 1..ExtSize : wire[k].t = "unit" /\ wire[k].v = ts

(* In a continued chunk, bytes whose value is not the timestamp of the     *)
(* message are put back.                                                   *)
PutsBack == ~at.first /\ Ch.ts > 0 /\ ~IsExt(Ch.ts) /\ ~LooksLike(Ch.ts)

ReadExt ==
  /\ mode = "ext"
  /\ ExtThere
  /\ IF PutsBack
     THEN /\ mode' = "payload"
          /\ chunk' = [chunk EXCEPT ![at.cid] = HeaderDone(@)]
          /\ UNCHANGED wire
     ELSE /\ wire' = SubSeq(wire, ExtSize + 1, Len(wire))
          /\ IF wire[1].t = "ext" /\ IsExt(wire[1].ts)
             THEN /\ mode' = "payload"
                  /\ chunk' = [chunk EXCEPT ![at.cid] = HeaderDone([@ EXCEPT !.ts = wire[1].ts])]
             ELSE mode' = "lost" /\ UNCHANGED chunk
  /\ UNCHANGED <<server, at, in_chunk_size, got, failed>>

Piece == Least(Ch.len - Len(Ch.body), in_chunk_size)

(* Seeded fault: the next message goes on where the last one ended.        *)
KeepsBody(ch) == [ch EXCEPT !.msg = FALSE]

(* The message is handed out and chunk->msg reset.                         *)
Released(ch) == [ch EXCEPT !.msg = FALSE, !.body = << >>]

(* An empty message is handed out at once, and recv_message drops it.      *)
ReadEmpty ==
  /\ mode = "payload"
  /\ Ch.len = 0
  /\ chunk' = [chunk EXCEPT ![at.cid] = Released(@)]
  /\ mode' = "basic"
  /\ UNCHANGED <<wire, server, at, in_chunk_size, got, failed>>

(* Seeded fault: SetChunkSize is not acted on.                             *)
SizeIgnored(c, body) == in_chunk_size

(* on_recv_message: a SetChunkSize is acted on, or the call that received  *)
(* it returns an error instead of the message.                             *)
SizeAfter(c, body) == IF c = Control THEN body[1].v ELSE in_chunk_size
TooSmall(c, body) == c = Control /\ body[1].v < MinSize

ReadPayload ==
  LET body == Ch.body \o SubSeq(wire, 1, Piece) IN
  /\ mode = "payload"
  /\ Ch.len > 0
  /\ Len(wire) >= Piece
  /\ wire' = SubSeq(wire, Piece + 1, Len(wire))
  /\ IF \E k \in 1..Piece : wire[k].t # "unit"
     THEN mode' = "lost" /\ UNCHANGED <<chunk, got, in_chunk_size>>
     ELSE IF Len(body) < Ch.len
     THEN /\ mode' = "basic"
          /\ chunk' = [chunk EXCEPT ![at.cid].body = body]
          /\ UNCHANGED <<got, in_chunk_size>>
     ELSE /\ chunk' = [chunk EXCEPT ![at.cid] = Released(@)]
          /\ IF TooSmall(at.cid, body)
             THEN mode' = "refused" /\ UNCHANGED <<got, in_chunk_size>>
             ELSE /\ mode' = "basic"
                  /\ got' = [got EXCEPT ![at.cid] = Append(@, [ts |-> Ch.ts, body |-> body])]
                  /\ in_chunk_size' = SizeAfter(at.cid, body)
  /\ UNCHANGED <<server, at, failed>>

(* A grow fails or times out: recv_message returns and the next call       *)
(* starts at a basic header, wherever in a chunk that is; on the way out   *)
(* it frees through a NULL pointer, which may end the program.  An empty   *)
(* message is handed out without a grow.                                   *)
GrowFails ==
  /\ mode \in {"basic", "header", "ext", "payload"}
  /\ mode = "payload" => Ch.len > 0
  /\ mode' \in {"basic", "dead"}
  /\ failed' = (failed \/ mode # "basic")
  /\ UNCHANGED <<wire, server, at, chunk, in_chunk_size, got>>

(* What the bytes mean to a reader that is not at a chunk boundary is not  *)
(* modelled further.                                                       *)
LoseSync ==
  /\ wire # << >>
  /\ \/ mode = "basic" /\ wire[1].t # "basic"
     \/ mode = "header" /\ wire[1].t # "header"
  /\ mode' = "lost"
  /\ UNCHANGED <<wire, server, at, chunk, in_chunk_size, got, failed>>

Read ==
  \/ \E c \in Cids, fmt \in 0..3 : ReadBasic(c, fmt)
  \/ ReadHeader
  \/ ReadExt
  \/ ReadEmpty
  \/ ReadPayload

Next ==
  \/ ServerStarts
  \/ \E c \in Cids : ServerContinues(c) \/ ServerErrs(c)
  \/ Read
  \/ GrowFails
  \/ LoseSync

(* The reader goes on as long as the bytes it waits for are there.         *)
Spec == Init /\ [][Next]_vars /\ WF_vars(Read)

-----------------------------------------------------------------------------
Units == [t : {"unit"}, id : 1..MaxMessages, k : Nat, v : ChunkSizes \cup Bytes]
Items ==
  [t : {"basic"}, cid : Cids, fmt : 0..3] \cup [t : {"header"}, field : Nat, len : Nat]
    \cup [t : {"ext"}, k : 1..ExtSize, ts : 0 .. TimeMod - 1] \cup Units
Messages == [ts : 0 .. TimeMod - 1, body : Seq(Units)]

TypeOK ==
  /\ wire \in Seq(Items)
  /\ size \in {InitialSize} \cup ChunkSizes
  /\ in_chunk_size \in {InitialSize} \cup ChunkSizes \cup (Bytes \ {0})
  /\ out \in [Cids -> [used : BOOLEAN, ext : BOOLEAN, delta : Nat, ts : 0 .. TimeMod - 1,
                       body : Seq(Units), put : Nat]]
  /\ nsent \in 0..MaxMessages
  /\ sent \in [Cids -> Seq(Messages)] /\ got \in [Cids -> Seq(Messages)]
  /\ conforming \in BOOLEAN /\ failed \in BOOLEAN
  /\ mode \in {"basic", "header", "ext", "payload", "refused", "lost", "dead"}
  /\ at \in [cid : Cids \cup {0}, fmt : 0..3, first : BOOLEAN]
  /\ chunk \in [Cids -> [seen : BOOLEAN, ext : BOOLEAN, delta : Nat, ts : Nat, len : Nat,
                         msg : BOOLEAN, body : Seq(Units)]]
  /\ mode # "refused" => \A c \in Cids : chunk[c].ts < TimeMod

(* A server that does not repeat the extended timestamp is understood only *)
(* as long as no payload spells one; it never spells one with zeros.       *)
Unmistakable == RepeatsExt \/ Bytes \subseteq {0}

Undisturbed == conforming /\ ~failed /\ Unmistakable

(* A server that keeps to the protocol is understood: whatever interleaves *)
(* with whatever, whenever the chunk size changes and whatever the payload *)
(* spells, none of its chunks is refused and the reader never takes the    *)
(* bytes of one item for those of another.  A grow that times out between  *)
(* two chunks does no harm.                                                *)
NeverMisread == Undisturbed => mode \notin {"refused", "lost"}

(* What the reader keeps of a chunk stream is what the server does.        *)
Agrees(ch, o) ==
  /\ ch.seen = o.used /\ ch.ext = o.ext
  /\ ~o.ext => ch.delta = o.delta
  /\ ch.ts = o.ts /\ ch.len = Len(o.body)
  /\ ch.msg <=> o.put < Len(o.body)
  /\ ch.body = IF o.put < Len(o.body) THEN SubSeq(o.body, 1, o.put) ELSE << >>

(* Headers leave out what the last one on their chunk stream said, and     *)
(* pieces have the length both sides think chunks have.  Whenever nothing  *)
(* is on its way, the two sides agree on all of it: the chunk size, each   *)
(* stream's timestamp, delta and length, and how much of which message is  *)
(* there - however messages and SetChunkSizes were interleaved, and with   *)
(* grows that failed between chunks.                                       *)
InStep ==
  Undisturbed /\ wire = << >> /\ mode = "basic" =>
    in_chunk_size = size /\ got = sent /\ \A c \in Cids : Agrees(chunk[c], out[c])

(* Message by message, each chunk stream hands out what the server sent on *)
(* it, once, in order, with the bytes and the timestamp it was sent with.  *)
Streams == INSTANCE MessageStreams WITH broken <- ~Undisturbed
ImplementsStreams == Streams!Spec

(* Every message the server has sent whole is handed out, unless a chunk   *)
(* is cut by a failed grow or the program ends.                            *)
Count(messages) == FoldFunction(LAMBDA q, n : n + Len(q), 0, messages)

AllReceived ==
  \A n \in 1..MaxMessages :
    Count(sent) >= n ~> (Count(got) >= n \/ ~Undisturbed \/ mode = "dead")
=============================================================================
