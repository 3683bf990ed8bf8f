------------------------------- MODULE SendPath -------------------------------
(***************************************************************************)
(* The tasks that share one RTMP connection: audio and video writers and   *)
(* the task that reads the server's messages and answers them.  All of     *)
(* them go through the mutex of SrsBlockSyncSocket (rtmp_socket.c), which  *)
(* is taken and given by hand in each of the four functions that use it:   *)
(*   "messages"  srs_protocol_do_send_messages      (srs_rtmp_write_packet)*)
(*   "video"     srs_protocol_do_send_messages_2  (srs_rtmp_write_packet_2)*)
(*   "packet"    srs_protocol_do_simple_send       (commands, acknowledge) *)
(*   "recv"      srs_hijack_io_read                                        *)
(* A message goes out as chunks, each as two send() calls, header and      *)
(* payload.  The server is external: it reassembles the chunks by chunk    *)
(* stream, as the protocol says.  Payload is counted in abstract units.    *)
(***************************************************************************)
EXTENDS Integers, FiniteSets, Sequences

CONSTANTS
  Tasks,      \* tasks using the connection
  MayCall,    \* the kinds of call each task makes
  Cids,       \* chunk stream ids, from 2 on (RTMP_CID_...)
  Cid,        \* the chunk stream of each task's audio or video messages
  ChunkSize,  \* out_chunk_size, in units
  Lengths,    \* message lengths for each kind of sending call
  SendMay,    \* what may go wrong in a send: "error", "short", "zero", "cid"
  MaxCalls    \* bound: the calls made by all tasks together

Kinds == {"messages", "video", "packet", "recv"}

ASSUME SendAssumption ==
  /\ MayCall \in [Tasks -> SUBSET Kinds]
  /\ Cids \subseteq Nat \ {0}
  /\ Cid \in [Tasks -> Cids]
  /\ ChunkSize \in Nat \ {0}
  /\ Lengths \in [Kinds \ {"recv"} -> SUBSET Nat]
  /\ 0 \notin Lengths["packet"]   \* do_send_and_free_packet returns before
  /\ SendMay \subseteq {"error", "short", "zero", "cid"}
  /\ MaxCalls \in Nat

VARIABLES
  sem,           \* the binary semaphore: 1 given, 0 taken
  pc,            \* where each task is
  call,          \* the message each task was called with
  cur,           \* the message behind p .. pend of each task
  off,           \* p - payload of each task
  video_header,  \* context->video_header, one per connection
  ncalls,        \* calls made so far, by all tasks
  pending,       \* server: the chunk whose payload it waits for
  partial,       \* server: the message under assembly on each chunk stream
  garbled,       \* server: what came is not what whole messages consist of
  delivered,     \* server: the messages it got whole, in order
  okd,           \* messages with payload whose call returned ERROR_SUCCESS
  faulty         \* a send() failed, was short or took nothing, or sent a misread header

conn == <<pending, partial, garbled, delivered>>
vars == <<sem, pc, call, cur, off, video_header, ncalls, conn, okd, faulty>>

Ids == 1..MaxCalls       \* a message is the number of the call it was passed to
NoId == 0
NoCid == 0
NoMessage == [id |-> NoId, kind |-> "none", cid |-> NoCid, len |-> 0]
NoChunk == [cid |-> NoCid, need |-> 0]
NoPartial == [id |-> NoId, len |-> 0, got |-> 0]
Empty == [c \in Cids |-> NoPartial]

Init ==
  /\ sem = 1
  /\ pc = [t \in Tasks |-> "idle"]
  /\ call = [t \in Tasks |-> NoMessage]
  /\ cur = [t \in Tasks |-> NoMessage]
  /\ off = [t \in Tasks |-> 0]
  /\ video_header = NoMessage
  /\ ncalls = 0
  /\ pending = NoChunk
  /\ partial = Empty
  /\ garbled = FALSE
  /\ delivered = << >>
  /\ okd = {}
  /\ faulty = FALSE

-----------------------------------------------------------------------------
(* The server's side of the wire.                                          *)

(* The bytes are not those of a message: what was under assembly is lost.  *)
Garbles ==
  /\ garbled' = TRUE
  /\ pending' = NoChunk
  /\ partial' = Empty
  /\ UNCHANGED delivered

ChunkOf(left) == IF left < ChunkSize THEN left ELSE ChunkSize

(* A chunk header: fmt 0 opens a message of length len, fmt 3 continues.   *)
HeaderArrives(c, first, len) ==
  IF garbled \/ pending # NoChunk \/ (first <=> partial[c].len > 0)
  THEN Garbles
  ELSE LET m == IF first THEN [id |-> NoId, len |-> len, got |-> 0] ELSE partial[c]
       IN /\ partial' = [partial EXCEPT ![c] = m]
          /\ pending' = [cid |-> c, need |-> ChunkOf(m.len - m.got)]
          /\ UNCHANGED <<garbled, delivered>>

(* Units from .. from + n - 1 of message id.                               *)
PayloadArrives(id, from, n) ==
  LET c == pending.cid IN
  IF \/ garbled \/ pending = NoChunk \/ pending.need # n
     \/ partial[c].got # from \/ (from > 0 /\ partial[c].id # id)
  THEN Garbles
  ELSE LET whole == from + n = partial[c].len
       IN /\ partial' = [partial EXCEPT ![c] =
               IF whole THEN NoPartial ELSE [id |-> id, len |-> @.len, got |-> from + n]]
          /\ pending' = NoChunk
          /\ delivered' = IF whole THEN Append(delivered, id) ELSE delivered
          /\ UNCHANGED garbled

-----------------------------------------------------------------------------
(* srs_rtmp_write_packet, srs_rtmp_write_packet_2 and the protocol's own   *)
(* sends, up to the mutex.  write_packet_2 fills the connection's          *)
(* video_header before it takes the mutex.  The chunk stream of an         *)
(* acknowledgement is an uninitialized local.  A call that create_msg      *)
(* refuses returns before any of this changes, which is a stuttering step. *)
Call(t, k, c, len) ==
  /\ pc[t] = "idle"
  /\ k \in MayCall[t]
  /\ k \in {"messages", "video"} => c = Cid[t]
  /\ ncalls < MaxCalls
  /\ ncalls' = ncalls + 1
  /\ pc' = [pc EXCEPT ![t] = "take"]
  /\ LET m == [id |-> ncalls + 1, kind |-> k, cid |-> c, len |-> len]
     IN /\ call' = [call EXCEPT ![t] = m]
        /\ video_header' = IF k = "video" THEN m ELSE video_header
  /\ UNCHANGED <<sem, cur, off, conn, okd, faulty>>

(* Seeded fault: the take does not wait.                                   *)
TakeAnyway(t) ==
  /\ pc[t] = "take"
  /\ sem' = 0
  /\ pc' = [pc EXCEPT ![t] = IF call[t].kind = "recv" THEN "recv" ELSE "header"]
  /\ cur' = [cur EXCEPT ![t] = IF call[t].kind = "video" THEN video_header ELSE call[t]]
  /\ UNCHANGED <<call, off, video_header, ncalls, conn, okd, faulty>>

(* xSemaphoreTake, and what follows it up to the loop.                     *)
Take(t) ==
  /\ pc[t] = "take"
  /\ sem = 1
  /\ sem' = 0
  /\ pc' = [pc EXCEPT ![t] = IF call[t].kind = "recv" THEN "recv" ELSE "header"]
  /\ cur' = [cur EXCEPT ![t] = IF call[t].kind = "video" THEN video_header ELSE call[t]]
  /\ UNCHANGED <<call, off, video_header, ncalls, conn, okd, faulty>>

(* xSemaphoreGive on a binary semaphore, and the return.                   *)
Leave(t) ==
  /\ pc' = [pc EXCEPT ![t] = "idle"]
  /\ call' = [call EXCEPT ![t] = NoMessage]
  /\ cur' = [cur EXCEPT ![t] = NoMessage]
  /\ off' = [off EXCEPT ![t] = 0]

(* recv returned, with bytes, by the timeout or because the peer closed.   *)
RecvReturns(t) ==
  /\ pc[t] = "recv"
  /\ sem' = 1
  /\ Leave(t)
  /\ UNCHANGED <<video_header, ncalls, conn, okd, faulty>>

-----------------------------------------------------------------------------
(* The chunk loop: writev sends the header, then the payload.              *)

Left(t) == cur[t].len - off[t]

(* The message whose fields go into the chunk header.                      *)
HeaderFields(t) == IF cur[t].kind = "video" THEN video_header ELSE cur[t]

(* p == payload, read from video_header on the video path.                 *)
First(t) == off[t] = 0 /\ HeaderFields(t) = cur[t]

SendHeader(t) ==
  /\ pc[t] = "header" /\ Left(t) > 0
  /\ HeaderArrives(HeaderFields(t).cid, First(t), HeaderFields(t).len)
  /\ pc' = [pc EXCEPT ![t] = "payload"]
  /\ UNCHANGED <<sem, call, cur, off, video_header, ncalls, okd, faulty>>

(* Seeded fault: a chunk is sent whole even when less is left.             *)
FullChunk(t) == ChunkSize

PieceOf(t) == ChunkOf(Left(t))

(* Seeded fault: p is not advanced.                                        *)
NotAdvanced(t) == off' = off

Advanced(t) == off' = [off EXCEPT ![t] = @ + PieceOf(t)]

SendPayload(t) ==
  /\ pc[t] = "payload"
  /\ PayloadArrives(cur[t].id, off[t], PieceOf(t))
  /\ Advanced(t)
  /\ pc' = [pc EXCEPT ![t] = "header"]
  /\ UNCHANGED <<sem, call, cur, video_header, ncalls, okd, faulty>>

(* send() took a part: the rest is sent again from the start of the piece, *)
(* so the right number of wrong bytes goes out and the chunk counts as     *)
(* sent.                                                                   *)
SendShort(t) ==
  /\ "short" \in SendMay
  /\ \/ /\ pc[t] = "header" /\ Left(t) > 0
        /\ pc' = [pc EXCEPT ![t] = "payload"]
        /\ UNCHANGED off
     \/ /\ pc[t] = "payload"
        /\ pc' = [pc EXCEPT ![t] = "header"]
        /\ Advanced(t)
  /\ Garbles
  /\ faulty' = TRUE
  /\ UNCHANGED <<sem, call, cur, video_header, ncalls, okd>>

(* An acknowledgement's uninitialized chunk stream id has 0 or 1 in its    *)
(* low six bits: the server takes its basic header for one of two or three *)
(* bytes.                                                                  *)
SendMisread(t) ==
  /\ "cid" \in SendMay
  /\ pc[t] = "header" /\ Left(t) > 0 /\ cur[t].kind = "packet"
  /\ pc' = [pc EXCEPT ![t] = "payload"]
  /\ Garbles
  /\ faulty' = TRUE
  /\ UNCHANGED <<sem, call, cur, off, video_header, ncalls, okd>>

(* send() returned 0: writev ends there, having counted the piece, and the *)
(* loop goes on with the next chunk.                                       *)
SendZero(t) ==
  /\ "zero" \in SendMay
  /\ pc[t] = "payload" \/ (pc[t] = "header" /\ Left(t) > 0)
  /\ pc' = [pc EXCEPT ![t] = "header"]
  /\ Advanced(t)
  /\ faulty' = TRUE
  /\ UNCHANGED <<sem, call, cur, video_header, ncalls, conn, okd>>

(* Seeded fault: the error path returns with the mutex taken.              *)
SendFailsHolding(t) ==
  /\ pc[t] = "payload" \/ (pc[t] = "header" /\ Left(t) > 0)
  /\ UNCHANGED conn \/ Garbles
  /\ sem' = sem
  /\ Leave(t)
  /\ faulty' = TRUE
  /\ UNCHANGED <<video_header, ncalls, okd>>

(* send() failed, at once or after a part: the mutex is given and the      *)
(* error returned; what is on the wire stays there.                        *)
SendFails(t) ==
  /\ "error" \in SendMay
  /\ pc[t] = "payload" \/ (pc[t] = "header" /\ Left(t) > 0)
  /\ UNCHANGED conn \/ Garbles
  /\ sem' = 1
  /\ Leave(t)
  /\ faulty' = TRUE
  /\ UNCHANGED <<video_header, ncalls, okd>>

(* Seeded fault: the loop ends after one chunk.                            *)
ChunksEndEarly(t) == Left(t) = 0 \/ off[t] > 0

ChunksEnd(t) == Left(t) = 0

(* do_send_messages passes over an empty message with a continue that also *)
(* passes over the give.                                                   *)
PassesGive(t) == cur[t].kind = "messages" /\ cur[t].len = 0

SendDone(t) ==
  /\ pc[t] = "header"
  /\ ChunksEnd(t)
  /\ sem' = IF PassesGive(t) THEN sem ELSE 1
  /\ okd' = IF cur[t].len > 0 THEN okd \cup {call[t].id} ELSE okd
  /\ Leave(t)
  /\ UNCHANGED <<video_header, ncalls, conn, faulty>>

-----------------------------------------------------------------------------
(* The steps of a task that holds the mutex.                               *)
Inside(t) ==
  \/ RecvReturns(t)
  \/ SendHeader(t) \/ SendMisread(t) \/ SendPayload(t)
  \/ SendShort(t) \/ SendZero(t) \/ SendFails(t)
  \/ SendDone(t)

SendCall(t) ==
  \E k \in Kinds \ {"recv"} : \E c \in Cids, len \in Lengths[k] : Call(t, k, c, len)

RecvCall(t) == Call(t, "recv", NoCid, 0)

Next == \E t \in Tasks : SendCall(t) \/ RecvCall(t) \/ Take(t) \/ Inside(t)

(* A send or recv returns: connect_server sets both socket timeouts, and   *)
(* the caller has not set one of them to 0.                                *)
Spec == Init /\ [][Next]_vars /\ \A t \in Tasks : WF_vars(Inside(t))

-----------------------------------------------------------------------------
Messages ==
  [id : Ids \cup {NoId}, kind : Kinds \cup {"none"}, cid : Cids \cup {NoCid}, len : Nat]

TypeOK ==
  /\ sem \in {0, 1}
  /\ pc \in [Tasks -> {"idle", "take", "header", "payload", "recv"}]
  /\ call \in [Tasks -> Messages]
  /\ cur \in [Tasks -> Messages]
  /\ off \in [Tasks -> Nat]
  /\ \A t \in Tasks : off[t] <= cur[t].len
  /\ video_header \in Messages
  /\ ncalls \in 0..MaxCalls
  /\ pending \in [cid : Cids \cup {NoCid}, need : Int]
  /\ partial \in [Cids -> [id : Ids \cup {NoId}, len : Nat, got : Nat]]
  /\ garbled \in BOOLEAN /\ faulty \in BOOLEAN
  /\ delivered \in Seq(Ids) /\ okd \subseteq Ids

Holds(t) == pc[t] \in {"header", "payload", "recv"}

(* The mutex is free exactly when no task is between its take and its      *)
(* give, and only one task ever is: no return path, error, timeout or      *)
(* success, of the four functions keeps it or gives it twice.              *)
MutexNotLost ==
  /\ sem = 1 <=> \A t \in Tasks : ~Holds(t)
  /\ \A t, u \in Tasks : Holds(t) /\ Holds(u) => t = u

(* video_header is written outside the mutex: the code relies on a single  *)
(* video task.                                                             *)
OneVideoWriter ==
  \A t, u \in Tasks : "video" \in MayCall[t] /\ "video" \in MayCall[u] => t = u

(* As long as the socket takes every byte and no acknowledgement's header  *)
(* is misread, the server can parse what the tasks send between them:      *)
(* headers and payloads of different messages never mix, whoever is        *)
(* preempted where.                                                        *)
WireFramed == OneVideoWriter /\ ~faulty => ~garbled

Delivered == {delivered[i] : i \in DOMAIN delivered}

(* ... and a write that returned success has reached the server whole, as  *)
(* the message its caller passed.                                          *)
SuccessIsDelivered == OneVideoWriter /\ ~faulty => okd \subseteq Delivered

(* Whoever holds the mutex gives it back.                                  *)
MutexReleased == sem = 0 ~> sem = 1

(* What the comment on writev promises: a success was written.             *)
SuccessIsWritten == okd \subseteq Delivered

(* Whatever tasks do at the same time, the call of each is one moment to   *)
(* the server: its message is received whole, once, and between call and   *)
(* return, in one order for all.                                           *)
Asked == [t \in Tasks |-> IF call[t].len > 0 THEN call[t].id ELSE NoId]
Line == INSTANCE WholeWrites
          WITH asked <- Asked, received <- delivered, lost <- faulty \/ ~OneVideoWriter
ImplementsWholeWrites == Line!Spec
=============================================================================
