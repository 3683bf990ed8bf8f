--------------------------- MODULE SendPathProofs ---------------------------
(***************************************************************************)
(* Proofs about SendPath, for every set of tasks, chunk size and message   *)
(* length: the mutex is never lost unless a message is empty; and while    *)
(* the socket takes every byte the server can parse what the tasks send,   *)
(* gets every message whose write returned success, and gets each message  *)
(* at one moment of its call (WholeWrites).                                *)
(***************************************************************************)
EXTENDS SendPath, TLAPS

(* srs_rtmp_write_packet is never called with an empty message: the case   *)
(* in which do_send_messages passes over its give.                         *)
NoEmptyMessages == 0 \notin Lengths["messages"]

(* One task at most is inside, and none when the mutex is free; that the   *)
(* mutex is free when none is needs the hypothesis.                        *)
Exclusive ==
  /\ sem = 1 => \A t \in Tasks : ~Holds(t)
  /\ \A t, u \in Tasks : Holds(t) /\ Holds(u) => t = u
  /\ NoEmptyMessages /\ (\A t \in Tasks : ~Holds(t)) => sem = 1

(* What a task is doing at each point of its call.                         *)
Flow(t) ==
  /\ pc[t] \in {"idle", "take"} => off[t] = 0 /\ cur[t] = NoMessage
  /\ pc[t] # "idle" => call[t].id \in Ids /\ call[t].kind \in MayCall[t]
  /\ pc[t] = "take" /\ call[t].kind # "recv" => call[t].cid \in Cids
  /\ pc[t] = "take" /\ call[t].kind = "messages" /\ NoEmptyMessages => call[t].len > 0
  /\ pc[t] = "take" /\ call[t].kind = "video" =>
       /\ video_header.kind = "video" /\ video_header.id \in Ids
       /\ video_header.cid \in Cids
       /\ OneVideoWriter => video_header = call[t]
  /\ pc[t] = "recv" => off[t] = 0
  /\ pc[t] \in {"header", "payload"} =>
       /\ cur[t].id \in Ids /\ cur[t].cid \in Cids /\ HeaderFields(t).cid \in Cids
       /\ cur[t].kind = call[t].kind
       /\ cur[t].kind = "messages" /\ NoEmptyMessages => cur[t].len > 0
       /\ OneVideoWriter => cur[t] = call[t] /\ HeaderFields(t) = cur[t]
  /\ pc[t] = "payload" => Left(t) > 0

(* The server has off[t] units of task t's message and nothing else.       *)
Assembled(t) ==
  [Empty EXCEPT ![cur[t].cid] =
     [id |-> IF off[t] = 0 THEN NoId ELSE cur[t].id, len |-> cur[t].len, got |-> off[t]]]

ServerSees(t) ==
  /\ pc[t] = "recv" => pending = NoChunk /\ partial = Empty
  /\ pc[t] = "header" =>
       /\ pending = NoChunk
       /\ partial = IF off[t] = 0 \/ Left(t) = 0 THEN Empty ELSE Assembled(t)
       /\ Left(t) = 0 /\ cur[t].len > 0 => cur[t].id \in Delivered
  /\ pc[t] = "payload" =>
       /\ pending = [cid |-> cur[t].cid, need |-> PieceOf(t)]
       /\ partial = Assembled(t)

Server ==
  OneVideoWriter /\ ~faulty =>
    /\ ~garbled
    /\ okd \subseteq Delivered
    /\ (\A t \in Tasks : ~Holds(t)) => pending = NoChunk /\ partial = Empty
    /\ \A t \in Tasks : Holds(t) => ServerSees(t)

IInv ==
  /\ TypeOK
  /\ Exclusive
  /\ \A t \in Tasks : Flow(t)
  /\ Server

-----------------------------------------------------------------------------
LEMMA InitIInv == Init => IInv
<1> SUFFICES ASSUME Init PROVE IInv
  OBVIOUS
<1>1. TypeOK
  <2>1. NoMessage \in Messages /\ NoMessage.len = 0
    BY DEF NoMessage, Messages, NoId, NoCid
  <2>2. NoChunk \in [cid : Cids \cup {NoCid}, need : Int]
    BY DEF NoChunk
  <2>3. Empty \in [Cids -> [id : Ids \cup {NoId}, len : Nat, got : Nat]]
    BY DEF Empty, NoPartial
  <2>4. 0 \in 0..MaxCalls
    BY SendAssumption
  <2>5. \A t \in Tasks : off[t] <= cur[t].len
    BY <2>1 DEF Init
  <2>6. /\ sem \in {0, 1} /\ ncalls \in 0..MaxCalls
        /\ pc \in [Tasks -> {"idle", "take", "header", "payload", "recv"}]
        /\ off \in [Tasks -> Nat]
        /\ garbled \in BOOLEAN /\ faulty \in BOOLEAN
        /\ okd \subseteq Ids
    BY <2>4 DEF Init
  <2>10. delivered \in Seq(Ids)
    BY DEF Init
  <2>7. call \in [Tasks -> Messages] /\ cur \in [Tasks -> Messages] /\ video_header \in Messages
    BY <2>1 DEF Init
  <2>8. pending \in [cid : Cids \cup {NoCid}, need : Int]
    BY <2>2 DEF Init
  <2>9. partial \in [Cids -> [id : Ids \cup {NoId}, len : Nat, got : Nat]]
    BY <2>3 DEF Init
  <2> QED
    BY <2>5, <2>6, <2>7, <2>8, <2>9, <2>10 DEF TypeOK
<1>2. Exclusive
  BY DEF Init, Exclusive, Holds
<1>3. \A t \in Tasks : Flow(t)
  BY DEF Init, Flow
<1>4. Server
  BY DEF Init, Server, Holds
<1> QED
  BY <1>1, <1>2, <1>3, <1>4 DEF IInv

(* What has been delivered, as a set.                                      *)
LEMMA DeliveredKept == delivered' = delivered => Delivered' = Delivered
  BY DEF Delivered

LEMMA DeliveredGrows ==
  ASSUME delivered \in Seq(Ids), NEW id \in Ids, delivered' = Append(delivered, id)
  PROVE  Delivered' = Delivered \cup {id}
<1>1. /\ DOMAIN delivered' = 1 .. Len(delivered) + 1
      /\ \A i \in 1 .. Len(delivered) : delivered'[i] = delivered[i]
      /\ delivered'[Len(delivered) + 1] = id
      /\ DOMAIN delivered = 1 .. Len(delivered) /\ Len(delivered) \in Nat
  OBVIOUS
<1>2. \A i \in DOMAIN delivered' : i \in DOMAIN delivered \/ i = Len(delivered) + 1
  BY <1>1
<1>3. Delivered' \subseteq Delivered \cup {id}
  BY <1>1, <1>2 DEF Delivered
<1>4. Delivered \cup {id} \subseteq Delivered'
  BY <1>1 DEF Delivered
<1> QED
  BY <1>3, <1>4

(* The lengths of pieces.                                                  *)
LEMMA PieceBounds ==
  ASSUME NEW left \in Nat
  PROVE  /\ ChunkOf(left) \in Nat
         /\ ChunkOf(left) <= left
         /\ left > 0 => ChunkOf(left) > 0
  BY SendAssumption DEF ChunkOf

LEMMA CallIInv ==
  ASSUME IInv, NEW t \in Tasks,
         NEW k \in Kinds, NEW c \in Cids \cup {NoCid}, NEW len \in Nat,
         k # "recv" => c \in Cids,
         k = "messages" /\ NoEmptyMessages => len > 0,
         Call(t, k, c, len)
  PROVE  IInv'
<1> DEFINE m == [id |-> ncalls + 1, kind |-> k, cid |-> c, len |-> len]
<1>1. /\ pc[t] = "idle" /\ pc' = [pc EXCEPT ![t] = "take"]
      /\ call' = [call EXCEPT ![t] = m]
      /\ video_header' = IF k = "video" THEN m ELSE video_header
      /\ ncalls' = ncalls + 1 /\ ncalls < MaxCalls /\ k \in MayCall[t]
      /\ UNCHANGED <<sem, cur, off, pending, partial, garbled, delivered, okd, faulty>>
  BY DEF Call, conn
<1>2. m \in Messages /\ m.id \in Ids /\ m.kind = k /\ m.cid = c /\ m.len = len
  BY <1>1, SendAssumption DEF IInv, TypeOK, Messages, Ids
<1> HIDE DEF m
<1>3. TypeOK'
  BY <1>1, <1>2, SendAssumption DEF IInv, TypeOK, Ids
<1>4. \A u \in Tasks : Holds(u)' <=> Holds(u)
  BY <1>1 DEF Holds, IInv, TypeOK
<1>5. Exclusive'
  BY <1>1, <1>4 DEF IInv, Exclusive
<1>6. ASSUME NEW u \in Tasks PROVE Flow(u)'
  <2>1. CASE u = t
    BY <2>1, <1>1, <1>2 DEF IInv, TypeOK, Flow
  <2>2. CASE u # t /\ k = "video"
    <3>1. call[u].kind = "video" /\ pc[u] # "idle" => ~OneVideoWriter
      BY <2>2, <1>1 DEF IInv, Flow, OneVideoWriter
    <3> QED
      BY <3>1, <2>2, <1>1, <1>2 DEF IInv, TypeOK, Flow, HeaderFields, Left, OneVideoWriter
  <2>3. CASE u # t /\ k # "video"
    BY <2>3, <1>1 DEF IInv, TypeOK, Flow, HeaderFields, Left, OneVideoWriter
  <2> QED
    BY <2>1, <2>2, <2>3
<1>7. ASSUME NEW u \in Tasks, Holds(u) PROVE ServerSees(u)' <=> ServerSees(u)
  BY <1>1, <1>7, DeliveredKept DEF IInv, TypeOK, Holds, ServerSees, Left, PieceOf, Assembled
<1>8. Server'
  BY <1>1, <1>4, <1>7, DeliveredKept DEF IInv, Server, OneVideoWriter
<1> QED
  BY <1>3, <1>5, <1>6, <1>8 DEF IInv

LEMMA TakeIInv ==
  ASSUME IInv, NEW t \in Tasks, Take(t)
  PROVE  IInv'
<1> DEFINE m == IF call[t].kind = "video" THEN video_header ELSE call[t]
<1>1. /\ pc[t] = "take" /\ sem = 1 /\ sem' = 0
      /\ pc' = [pc EXCEPT ![t] = IF call[t].kind = "recv" THEN "recv" ELSE "header"]
      /\ cur' = [cur EXCEPT ![t] = m]
      /\ UNCHANGED <<call, off, video_header, ncalls, pending, partial, garbled,
                     delivered, okd, faulty>>
  BY DEF Take, conn
<1>2. m \in Messages /\ m.len \in Nat /\ off[t] = 0
  BY <1>1 DEF IInv, TypeOK, Messages, Flow
<1>3. /\ m.kind = call[t].kind
      /\ call[t].kind # "recv" => m.id \in Ids /\ m.cid \in Cids
      /\ m.kind = "messages" /\ NoEmptyMessages => m.len > 0
      /\ OneVideoWriter => m = call[t]
  BY <1>1 DEF IInv, Flow
<1>4. \A u \in Tasks : ~Holds(u)
  BY <1>1 DEF IInv, Exclusive
<1>5. OneVideoWriter /\ m.kind = "video" => m = video_header
  BY <1>3
<1> HIDE DEF m
<1>6. TypeOK'
  BY <1>1, <1>2 DEF IInv, TypeOK
<1>7. Holds(t)' /\ \A u \in Tasks : u # t => ~Holds(u)'
  BY <1>1, <1>4 DEF Holds, IInv, TypeOK
<1>8. Exclusive'
  BY <1>1, <1>7 DEF Exclusive
<1>9. ASSUME NEW u \in Tasks PROVE Flow(u)'
  <2>1. CASE u = t
    BY <2>1, <1>1, <1>2, <1>3, <1>5
    DEF IInv, TypeOK, Flow, HeaderFields, OneVideoWriter
  <2>2. CASE u # t
    BY <2>2, <1>1 DEF IInv, TypeOK, Flow, HeaderFields, Left, OneVideoWriter
  <2> QED
    BY <2>1, <2>2
<1>10. Server'
  <2> SUFFICES ASSUME OneVideoWriter, ~faulty PROVE Server'
    BY <1>1 DEF Server, OneVideoWriter
  <2>1. ~garbled /\ okd \subseteq Delivered /\ pending = NoChunk /\ partial = Empty
    BY <1>4 DEF IInv, Server
  <2>2. cur'[t] = m /\ off'[t] = 0 /\ pc'[t] \in {"recv", "header"}
    BY <1>1, <1>2 DEF IInv, TypeOK
  <2>3. ServerSees(t)'
    BY <2>1, <2>2, <1>1, <1>2 DEF ServerSees, Left
  <2> QED
    BY <2>1, <2>3, <1>1, <1>7, DeliveredKept DEF Server
<1> QED
  BY <1>6, <1>8, <1>9, <1>10 DEF IInv

(* Leaving a call gives the mutex back and touches no other task.          *)
LEMMA LeaveIInv ==
  ASSUME IInv, NEW t \in Tasks, Holds(t), Leave(t),
         sem' = 1 \/ (sem' = sem /\ ~NoEmptyMessages),
         UNCHANGED <<video_header, ncalls>>,
         /\ pending' \in [cid : Cids \cup {NoCid}, need : Int]
         /\ partial' \in [Cids -> [id : Ids \cup {NoId}, len : Nat, got : Nat]]
         /\ garbled' \in BOOLEAN /\ faulty' \in BOOLEAN
         /\ delivered' \in Seq(Ids) /\ okd' \subseteq Ids
  PROVE  /\ TypeOK'
         /\ Exclusive'
         /\ \A u \in Tasks : Flow(u)'
         /\ \A u \in Tasks : ~Holds(u)'
<1>1. /\ pc' = [pc EXCEPT ![t] = "idle"] /\ call' = [call EXCEPT ![t] = NoMessage]
      /\ cur' = [cur EXCEPT ![t] = NoMessage] /\ off' = [off EXCEPT ![t] = 0]
      /\ video_header' = video_header /\ ncalls' = ncalls
  BY DEF Leave
<1>2. NoMessage \in Messages /\ NoMessage.len = 0
  BY DEF NoMessage, Messages, NoId, NoCid
<1>3. TypeOK'
  <2>1. \A u \in Tasks : off'[u] <= cur'[u].len
    BY <1>1, <1>2 DEF IInv, TypeOK
  <2>2. /\ pc' \in [Tasks -> {"idle", "take", "header", "payload", "recv"}]
        /\ off' \in [Tasks -> Nat]
        /\ call' \in [Tasks -> Messages] /\ cur' \in [Tasks -> Messages]
    BY <1>1, <1>2 DEF IInv, TypeOK
  <2>3. sem' \in {0, 1} /\ ncalls' \in 0..MaxCalls /\ video_header' \in Messages
    BY <1>1 DEF IInv, TypeOK
  <2> QED
    BY <2>1, <2>2, <2>3 DEF TypeOK
<1>4. \A u \in Tasks : ~Holds(u)'
  BY <1>1 DEF IInv, TypeOK, Exclusive, Holds
<1>5. Exclusive'
  BY <1>4 DEF Exclusive
<1>6. ASSUME NEW u \in Tasks PROVE Flow(u)'
  <2>1. CASE u = t
    BY <2>1, <1>1 DEF IInv, TypeOK, Flow
  <2>2. CASE u # t
    BY <2>2, <1>1 DEF IInv, TypeOK, Flow, HeaderFields, Left, OneVideoWriter
  <2> QED
    BY <2>1, <2>2
<1> QED
  BY <1>3, <1>4, <1>5, <1>6

LEMMA RecvReturnsIInv ==
  ASSUME IInv, NEW t \in Tasks, RecvReturns(t)
  PROVE  IInv'
<1>1. /\ pc[t] = "recv" /\ sem' = 1 /\ Leave(t) /\ Holds(t)
      /\ UNCHANGED <<video_header, ncalls, pending, partial, garbled, delivered, okd, faulty>>
  BY DEF RecvReturns, conn, Holds
<1>2. /\ TypeOK' /\ Exclusive'
      /\ \A u \in Tasks : Flow(u)'
      /\ \A u \in Tasks : ~Holds(u)'
  BY <1>1, LeaveIInv DEF IInv, TypeOK
<1>3. Server'
  BY <1>1, <1>2, DeliveredKept DEF IInv, Server, ServerSees, OneVideoWriter
<1> QED
  BY <1>2, <1>3 DEF IInv

-----------------------------------------------------------------------------
(* What the server's side keeps of its types.                              *)
LEMMA EmptyTypes ==
  /\ NoChunk \in [cid : Cids \cup {NoCid}, need : Int]
  /\ Empty \in [Cids -> [id : Ids \cup {NoId}, len : Nat, got : Nat]]
<1>1. NoChunk \in [cid : Cids \cup {NoCid}, need : Int]
  BY DEF NoChunk
<1>2. Empty \in [Cids -> [id : Ids \cup {NoId}, len : Nat, got : Nat]]
  BY DEF Empty, NoPartial
<1> QED
  BY <1>1, <1>2

(* A step of the loop that keeps the message and the mutex.                *)
LEMMA LoopIInv ==
  ASSUME IInv, NEW t \in Tasks, pc[t] \in {"header", "payload"}, Left(t) > 0,
         NEW where \in {"header", "payload"}, NEW o \in Nat,
         pc' = [pc EXCEPT ![t] = where], off' = [off EXCEPT ![t] = o],
         o <= cur[t].len, where = "payload" => o < cur[t].len,
         UNCHANGED <<sem, call, cur, video_header, ncalls>>,
         /\ pending' \in [cid : Cids \cup {NoCid}, need : Int]
         /\ partial' \in [Cids -> [id : Ids \cup {NoId}, len : Nat, got : Nat]]
         /\ garbled' \in BOOLEAN /\ faulty' \in BOOLEAN
         /\ delivered' \in Seq(Ids) /\ okd' \subseteq Ids
  PROVE  /\ TypeOK'
         /\ Exclusive'
         /\ \A u \in Tasks : Flow(u)'
         /\ \A u \in Tasks : Holds(u)' <=> u = t
<1>1. TypeOK'
  BY DEF IInv, TypeOK
<1>2. \A u \in Tasks : Holds(u)' <=> Holds(u)
  BY DEF IInv, TypeOK, Holds
<1>3. \A u \in Tasks : Holds(u)' <=> u = t
  BY <1>2 DEF IInv, Exclusive, Holds
<1>4. Exclusive'
  BY <1>2 DEF IInv, Exclusive
<1>5. ASSUME NEW u \in Tasks PROVE Flow(u)'
  <2>1. CASE u = t
    <3>1. cur[t].len \in Nat
      BY DEF IInv, TypeOK, Messages
    <3>2. pc'[t] = where /\ off'[t] = o /\ cur'[t] = cur[t] /\ call'[t] = call[t]
      BY DEF IInv, TypeOK
    <3> QED
      BY <2>1, <3>1, <3>2 DEF IInv, Flow, HeaderFields, Left, OneVideoWriter
  <2>2. CASE u # t
    BY <2>2 DEF IInv, TypeOK, Flow, HeaderFields, Left, OneVideoWriter
  <2> QED
    BY <2>1, <2>2
<1> QED
  BY <1>1, <1>3, <1>4, <1>5

(* What the step lemmas need of a task in the loop.                        *)
LEMMA InLoop ==
  ASSUME IInv, NEW t \in Tasks, pc[t] \in {"header", "payload"}
  PROVE  /\ cur[t] \in Messages /\ cur[t].len \in Nat /\ off[t] \in Nat
         /\ Left(t) \in Nat /\ Left(t) = cur[t].len - off[t]
         /\ cur[t].id \in Ids /\ cur[t].cid \in Cids
         /\ Holds(t)
         /\ PieceOf(t) \in Nat /\ PieceOf(t) <= Left(t)
         /\ Left(t) > 0 => PieceOf(t) > 0
<1>1. cur[t] \in Messages /\ cur[t].len \in Nat /\ off[t] \in Nat /\ off[t] <= cur[t].len
  BY DEF IInv, TypeOK, Messages
<1>2. Left(t) \in Nat /\ Left(t) = cur[t].len - off[t]
  BY <1>1 DEF Left
<1>3. cur[t].id \in Ids /\ cur[t].cid \in Cids /\ Holds(t)
  BY DEF IInv, Flow, Holds
<1> QED
  BY <1>1, <1>2, <1>3, PieceBounds DEF PieceOf

LEMMA SendShortIInv ==
  ASSUME IInv, NEW t \in Tasks, SendShort(t) \/ SendMisread(t)
  PROVE  IInv'
<1>1. /\ garbled' = TRUE /\ pending' = NoChunk /\ partial' = Empty /\ faulty' = TRUE
      /\ UNCHANGED <<sem, call, cur, video_header, ncalls, delivered, okd>>
  BY DEF SendShort, SendMisread, Garbles
<1>2. pc[t] \in {"header", "payload"} /\ Left(t) > 0
  BY DEF SendShort, SendMisread, IInv, Flow
<1>3. PICK w \in {"header", "payload"}, o \in Nat :
        /\ pc' = [pc EXCEPT ![t] = w] /\ off' = [off EXCEPT ![t] = o]
        /\ o <= cur[t].len
        /\ w = "payload" => o < cur[t].len
  <2>1. CASE pc[t] = "header" /\ pc' = [pc EXCEPT ![t] = "payload"] /\ UNCHANGED off
    <3>1. off' = [off EXCEPT ![t] = off[t]]
      BY <2>1 DEF IInv, TypeOK
    <3>2. off[t] \in Nat /\ off[t] <= cur[t].len /\ off[t] < cur[t].len
      BY <1>2, InLoop
    <3> QED
      BY <2>1, <3>1, <3>2
  <2>2. CASE pc[t] = "payload" /\ pc' = [pc EXCEPT ![t] = "header"] /\ Advanced(t)
    <3>1. off' = [off EXCEPT ![t] = off[t] + PieceOf(t)]
      BY <2>2 DEF Advanced
    <3>2. off[t] + PieceOf(t) \in Nat /\ off[t] + PieceOf(t) <= cur[t].len
      BY <1>2, InLoop
    <3> QED
      BY <2>2, <3>1, <3>2
  <2> QED
    BY <2>1, <2>2 DEF SendShort, SendMisread
<1>4. /\ pending' \in [cid : Cids \cup {NoCid}, need : Int]
      /\ partial' \in [Cids -> [id : Ids \cup {NoId}, len : Nat, got : Nat]]
      /\ garbled' \in BOOLEAN /\ faulty' \in BOOLEAN
      /\ delivered' \in Seq(Ids) /\ okd' \subseteq Ids
  BY <1>1, EmptyTypes DEF IInv, TypeOK
<1>5. TypeOK' /\ Exclusive' /\ \A u \in Tasks : Flow(u)'
  BY <1>1, <1>2, <1>3, <1>4, LoopIInv
<1>6. Server'
  BY <1>1 DEF Server
<1> QED
  BY <1>5, <1>6 DEF IInv

LEMMA SendZeroIInv ==
  ASSUME IInv, NEW t \in Tasks, SendZero(t)
  PROVE  IInv'
<1>1. /\ faulty' = TRUE /\ pc' = [pc EXCEPT ![t] = "header"]
      /\ off' = [off EXCEPT ![t] = off[t] + PieceOf(t)]
      /\ UNCHANGED <<sem, call, cur, video_header, ncalls,
                     pending, partial, garbled, delivered, okd>>
  BY DEF SendZero, Advanced, conn
<1>2. pc[t] \in {"header", "payload"} /\ Left(t) > 0
  BY DEF SendZero, IInv, Flow
<1>3. off[t] + PieceOf(t) \in Nat /\ off[t] + PieceOf(t) <= cur[t].len
  BY <1>2, InLoop
<1>4. TypeOK' /\ Exclusive' /\ \A u \in Tasks : Flow(u)'
  BY <1>1, <1>2, <1>3, LoopIInv DEF IInv, TypeOK
<1>5. Server'
  BY <1>1 DEF Server
<1> QED
  BY <1>4, <1>5 DEF IInv

LEMMA SendFailsIInv ==
  ASSUME IInv, NEW t \in Tasks, SendFails(t)
  PROVE  IInv'
<1>1. /\ faulty' = TRUE /\ sem' = 1 /\ Leave(t) /\ Holds(t)
      /\ UNCHANGED <<video_header, ncalls, okd>>
      /\ UNCHANGED <<pending, partial, garbled, delivered>> \/ Garbles
  BY DEF SendFails, Holds, conn
<1>2. /\ pending' \in [cid : Cids \cup {NoCid}, need : Int]
      /\ partial' \in [Cids -> [id : Ids \cup {NoId}, len : Nat, got : Nat]]
      /\ garbled' \in BOOLEAN /\ delivered' \in Seq(Ids) /\ okd' \subseteq Ids
  BY <1>1, EmptyTypes DEF Garbles, IInv, TypeOK
<1>3. TypeOK' /\ Exclusive' /\ \A u \in Tasks : Flow(u)'
  BY <1>1, <1>2, LeaveIInv
<1>4. Server'
  BY <1>1 DEF Server
<1> QED
  BY <1>3, <1>4 DEF IInv

-----------------------------------------------------------------------------
(* The server's types survive whatever arrives.                            *)
LEMMA HeaderTypes ==
  ASSUME IInv, NEW c \in Cids, NEW first \in BOOLEAN, NEW len \in Nat,
         HeaderArrives(c, first, len)
  PROVE  /\ pending' \in [cid : Cids \cup {NoCid}, need : Int]
         /\ partial' \in [Cids -> [id : Ids \cup {NoId}, len : Nat, got : Nat]]
         /\ garbled' \in BOOLEAN /\ delivered' = delivered
<1> DEFINE m == IF first THEN [id |-> NoId, len |-> len, got |-> 0] ELSE partial[c]
<1>1. m \in [id : Ids \cup {NoId}, len : Nat, got : Nat]
  BY DEF IInv, TypeOK
<1>2. ChunkOf(m.len - m.got) \in Int
  BY <1>1, SendAssumption DEF ChunkOf
<1>3. CASE Garbles
  BY <1>3, EmptyTypes DEF Garbles
<1>4. CASE /\ partial' = [partial EXCEPT ![c] = m]
           /\ pending' = [cid |-> c, need |-> ChunkOf(m.len - m.got)]
           /\ UNCHANGED <<garbled, delivered>>
  <2> HIDE DEF m
  <2> QED
    BY <1>1, <1>2, <1>4 DEF IInv, TypeOK
<1> QED
  BY <1>3, <1>4 DEF HeaderArrives

LEMMA PayloadTypes ==
  ASSUME IInv, NEW id \in Ids, NEW from \in Nat, NEW n \in Nat,
         PayloadArrives(id, from, n)
  PROVE  /\ pending' \in [cid : Cids \cup {NoCid}, need : Int]
         /\ partial' \in [Cids -> [id : Ids \cup {NoId}, len : Nat, got : Nat]]
         /\ garbled' \in BOOLEAN /\ delivered' \in Seq(Ids)
<1> DEFINE c == pending.cid
           whole == from + n = partial[c].len
           m == IF whole THEN NoPartial
                ELSE [id |-> id, len |-> partial[c].len, got |-> from + n]
<1>1. CASE Garbles
  BY <1>1, EmptyTypes DEF Garbles, IInv, TypeOK
<1>2. CASE /\ partial' = [partial EXCEPT ![c] = m]
           /\ pending' = NoChunk
           /\ delivered' = IF whole THEN Append(delivered, id) ELSE delivered
           /\ UNCHANGED garbled
  <2>1. c \in Cids => m \in [id : Ids \cup {NoId}, len : Nat, got : Nat]
    BY DEF IInv, TypeOK, NoPartial
  <2> HIDE DEF m
  <2>2. partial' \in [Cids -> [id : Ids \cup {NoId}, len : Nat, got : Nat]]
    BY <1>2, <2>1 DEF IInv, TypeOK
  <2> QED
    BY <1>2, <2>2, EmptyTypes DEF IInv, TypeOK
<1> QED
  BY <1>1, <1>2 DEF PayloadArrives

LEMMA SendHeaderIInv ==
  ASSUME IInv, NEW t \in Tasks, SendHeader(t)
  PROVE  IInv'
<1>1. /\ pc[t] = "header" /\ Left(t) > 0
      /\ HeaderArrives(HeaderFields(t).cid, First(t), HeaderFields(t).len)
      /\ pc' = [pc EXCEPT ![t] = "payload"]
      /\ UNCHANGED <<sem, call, cur, off, video_header, ncalls, okd, faulty>>
  BY DEF SendHeader
<1>2. HeaderFields(t).cid \in Cids /\ HeaderFields(t).len \in Nat /\ First(t) \in BOOLEAN
  BY <1>1 DEF IInv, TypeOK, Flow, HeaderFields, Messages, First
<1>3. /\ pending' \in [cid : Cids \cup {NoCid}, need : Int]
      /\ partial' \in [Cids -> [id : Ids \cup {NoId}, len : Nat, got : Nat]]
      /\ garbled' \in BOOLEAN /\ delivered' = delivered
  BY <1>1, <1>2, HeaderTypes
<1>4. off' = [off EXCEPT ![t] = off[t]] /\ off[t] \in Nat /\ off[t] < cur[t].len
  BY <1>1, InLoop DEF IInv, TypeOK
<1>5. /\ TypeOK' /\ Exclusive' /\ \A u \in Tasks : Flow(u)'
      /\ \A u \in Tasks : Holds(u)' <=> u = t
  BY <1>1, <1>3, <1>4, LoopIInv DEF IInv, TypeOK
<1>6. Server'
  <2> SUFFICES ASSUME OneVideoWriter, ~faulty PROVE Server'
    BY <1>1 DEF Server, OneVideoWriter
  <2>1. ~garbled /\ okd \subseteq Delivered /\ ServerSees(t)
    BY <1>1, InLoop DEF IInv, Server
  <2>2. HeaderFields(t) = cur[t] /\ (First(t) <=> off[t] = 0)
    BY <1>1 DEF IInv, Flow, First
  <2>3. /\ pending = NoChunk
        /\ off[t] = 0 => partial = Empty
        /\ off[t] # 0 => partial = Assembled(t)
    BY <2>1, <1>1 DEF ServerSees
  <2> DEFINE c == cur[t].cid
  <2>4. c \in Cids /\ cur[t].len \in Nat /\ cur[t].len > 0 /\ PieceOf(t) = ChunkOf(cur[t].len - off[t])
    BY <1>1, <1>4, InLoop DEF PieceOf, Left
  <2>5. /\ off[t] = 0 => partial[c].len = 0
        /\ off[t] # 0 => partial[c] = [id |-> cur[t].id, len |-> cur[t].len, got |-> off[t]]
    BY <2>3, <2>4 DEF Empty, NoPartial, Assembled
  <2> DEFINE m == IF off[t] = 0 THEN [id |-> NoId, len |-> cur[t].len, got |-> 0] ELSE partial[c]
  <2>6. /\ partial' = [partial EXCEPT ![c] = m]
        /\ pending' = [cid |-> c, need |-> ChunkOf(m.len - m.got)]
        /\ UNCHANGED <<garbled, delivered>>
    BY <1>1, <2>1, <2>2, <2>3, <2>4, <2>5 DEF HeaderArrives
  <2>7. /\ m = [id |-> IF off[t] = 0 THEN NoId ELSE cur[t].id, len |-> cur[t].len, got |-> off[t]]
        /\ m.len = cur[t].len /\ m.got = off[t]
    BY <2>5
  <2> HIDE DEF m
  <2>8. pending' = [cid |-> c, need |-> PieceOf(t)]
    BY <2>4, <2>6, <2>7
  <2>9. partial' = Assembled(t)
    BY <2>3, <2>6, <2>7 DEF Assembled, Empty
  <2>10. cur' = cur /\ off' = off /\ pc'[t] = "payload"
    BY <1>1 DEF IInv, TypeOK
  <2>11. ServerSees(t)'
    BY <2>8, <2>9, <2>10 DEF ServerSees, Assembled, PieceOf, Left
  <2> QED
    BY <2>1, <2>6, <2>11, <1>1, <1>5, DeliveredKept DEF Server
<1> QED
  BY <1>5, <1>6 DEF IInv

(* The payload of a chunk is what the server waits for.                    *)
LEMMA PayloadAccepted ==
  ASSUME IInv, OneVideoWriter, ~faulty, NEW t \in Tasks, SendPayload(t)
  PROVE  LET c == cur[t].cid
             got == off[t] + PieceOf(t)
         IN /\ partial' = [partial EXCEPT ![c] =
                  IF got = cur[t].len THEN NoPartial
                  ELSE [id |-> cur[t].id, len |-> cur[t].len, got |-> got]]
            /\ pending' = NoChunk /\ ~garbled'
            /\ delivered' = IF got = cur[t].len THEN Append(delivered, cur[t].id) ELSE delivered
<1> DEFINE c == cur[t].cid
           got == off[t] + PieceOf(t)
           m == [id |-> IF off[t] = 0 THEN NoId ELSE cur[t].id,
                 len |-> cur[t].len, got |-> off[t]]
<1>1. /\ pc[t] = "payload" /\ Left(t) > 0
      /\ PayloadArrives(cur[t].id, off[t], PieceOf(t))
  BY DEF SendPayload, IInv, Flow
<1>2. ~garbled /\ ServerSees(t)
  BY <1>1, InLoop DEF IInv, Server
<1>3. /\ c \in Cids /\ cur[t].len \in Nat /\ off[t] \in Nat /\ PieceOf(t) \in Nat
      /\ PieceOf(t) > 0
  BY <1>1, InLoop
<1>4. pending = [cid |-> c, need |-> PieceOf(t)] /\ partial = [Empty EXCEPT ![c] = m]
  BY <1>2, <1>1 DEF ServerSees, Assembled
<1>5. pending.cid = c /\ pending.need = PieceOf(t) /\ pending # NoChunk
  BY <1>3, <1>4 DEF NoChunk
<1>6. partial[c] = m
  BY <1>3, <1>4 DEF Empty
<1>7. m.len = cur[t].len /\ m.got = off[t] /\ (off[t] > 0 => m.id = cur[t].id)
  BY <1>3
<1> HIDE DEF m
<1> QED
  BY <1>1, <1>2, <1>5, <1>6, <1>7 DEF PayloadArrives

LEMMA SendPayloadIInv ==
  ASSUME IInv, NEW t \in Tasks, SendPayload(t)
  PROVE  IInv'
<1>1. /\ pc[t] = "payload" /\ Left(t) > 0
      /\ PayloadArrives(cur[t].id, off[t], PieceOf(t))
      /\ pc' = [pc EXCEPT ![t] = "header"]
      /\ off' = [off EXCEPT ![t] = off[t] + PieceOf(t)]
      /\ UNCHANGED <<sem, call, cur, video_header, ncalls, okd, faulty>>
  BY DEF SendPayload, Advanced, IInv, Flow
<1>2. /\ pending' \in [cid : Cids \cup {NoCid}, need : Int]
      /\ partial' \in [Cids -> [id : Ids \cup {NoId}, len : Nat, got : Nat]]
      /\ garbled' \in BOOLEAN /\ delivered' \in Seq(Ids)
  BY <1>1, InLoop, PayloadTypes
<1>3. off[t] + PieceOf(t) \in Nat /\ off[t] + PieceOf(t) <= cur[t].len
  BY <1>1, InLoop
<1>4. /\ TypeOK' /\ Exclusive' /\ \A u \in Tasks : Flow(u)'
      /\ \A u \in Tasks : Holds(u)' <=> u = t
  BY <1>1, <1>2, <1>3, LoopIInv DEF IInv, TypeOK
<1>5. Server'
  <2> SUFFICES ASSUME OneVideoWriter, ~faulty PROVE Server'
    BY <1>1 DEF Server, OneVideoWriter
  <2>1. ~garbled /\ okd \subseteq Delivered /\ ServerSees(t)
    BY <1>1, InLoop DEF IInv, Server
  <2> DEFINE c == cur[t].cid
             got == off[t] + PieceOf(t)
             m == [id |-> IF off[t] = 0 THEN NoId ELSE cur[t].id,
                   len |-> cur[t].len, got |-> off[t]]
  <2>2. /\ c \in Cids /\ cur[t].len \in Nat /\ off[t] \in Nat /\ PieceOf(t) \in Nat
        /\ PieceOf(t) > 0 /\ got \in Nat /\ got > 0 /\ got <= cur[t].len
    BY <1>1, <1>3, InLoop
  <2>3. pending = [cid |-> c, need |-> PieceOf(t)] /\ partial = [Empty EXCEPT ![c] = m]
    BY <2>1, <1>1 DEF ServerSees, Assembled
  <2> HIDE DEF m
  <2>4. /\ partial' = [partial EXCEPT ![c] =
              IF got = cur[t].len THEN NoPartial
              ELSE [id |-> cur[t].id, len |-> cur[t].len, got |-> got]]
        /\ pending' = NoChunk /\ ~garbled'
        /\ delivered' = IF got = cur[t].len THEN Append(delivered, cur[t].id) ELSE delivered
    BY PayloadAccepted
  <2>5. Delivered' = IF got = cur[t].len THEN Delivered \cup {cur[t].id} ELSE Delivered
    BY <2>4, <1>1, InLoop, DeliveredKept, DeliveredGrows DEF IInv, TypeOK
  <2>6. cur' = cur /\ off'[t] = got /\ pc'[t] = "header"
    BY <1>1 DEF IInv, TypeOK
  <2>7. Left(t)' = cur[t].len - got
    BY <2>6 DEF Left
  <2>8. ServerSees(t)'
    <3>1. CASE got = cur[t].len
      <4>1. partial' = Empty /\ cur[t].id \in Delivered'
        BY <3>1, <2>3, <2>4, <2>5 DEF Empty
      <4> QED
        BY <3>1, <4>1, <2>2, <2>4, <2>6, <2>7 DEF ServerSees
    <3>2. CASE got # cur[t].len
      <4>1. partial' = [Empty EXCEPT ![c] = [id |-> cur[t].id, len |-> cur[t].len, got |-> got]]
        <5> DEFINE r == [id |-> cur[t].id, len |-> cur[t].len, got |-> got]
        <5>1. partial' = [partial EXCEPT ![c] = r]
          BY <3>2, <2>4
        <5> HIDE DEF r
        <5>2. partial' = [Empty EXCEPT ![c] = r]
          BY <5>1, <2>3 DEF Empty
        <5> QED
          BY <5>2 DEF r
      <4>2. Assembled(t)' = [Empty EXCEPT ![c] = [id |-> cur[t].id, len |-> cur[t].len, got |-> got]]
        <5>1. off'[t] # 0 /\ off'[t] = got /\ cur'[t] = cur[t]
          BY <2>2, <2>6
        <5> HIDE DEF got
        <5> QED
          BY <5>1 DEF Assembled
      <4>3. Left(t)' # 0 /\ off'[t] # 0
        BY <3>2, <2>2, <2>6, <2>7
      <4> QED
        BY <4>1, <4>2, <4>3, <2>4, <2>6 DEF ServerSees
    <3> QED
      BY <3>1, <3>2
  <2> QED
    BY <2>1, <2>4, <2>8, <2>5, <1>1, <1>4 DEF Server
<1> QED
  BY <1>4, <1>5 DEF IInv

LEMMA SendDoneIInv ==
  ASSUME IInv, NEW t \in Tasks, SendDone(t)
  PROVE  IInv'
<1>1. /\ pc[t] = "header" /\ Left(t) = 0 /\ Leave(t)
      /\ sem' = IF PassesGive(t) THEN sem ELSE 1
      /\ okd' = IF cur[t].len > 0 THEN okd \cup {call[t].id} ELSE okd
      /\ UNCHANGED <<video_header, ncalls, pending, partial, garbled, delivered, faulty>>
  BY DEF SendDone, ChunksEnd, conn
<1>2. /\ NoEmptyMessages => ~PassesGive(t)
      /\ call[t].id \in Ids /\ Holds(t)
  BY <1>1, InLoop DEF IInv, Flow, PassesGive, Holds
<1>3. /\ TypeOK' /\ Exclusive'
      /\ \A u \in Tasks : Flow(u)'
      /\ \A u \in Tasks : ~Holds(u)'
  BY <1>1, <1>2, LeaveIInv DEF IInv, TypeOK
<1>4. Server'
  <2> SUFFICES ASSUME OneVideoWriter, ~faulty PROVE Server'
    BY <1>1 DEF Server, OneVideoWriter
  <2>1. ~garbled /\ okd \subseteq Delivered /\ ServerSees(t)
    BY <1>1, <1>2 DEF IInv, Server
  <2>2. pending = NoChunk /\ partial = Empty /\ (cur[t].len > 0 => cur[t].id \in Delivered)
    BY <2>1, <1>1 DEF ServerSees
  <2>3. cur[t] = call[t]
    BY <1>1 DEF IInv, Flow
  <2> QED
    BY <1>1, <1>3, <2>1, <2>2, <2>3, DeliveredKept DEF Server
<1> QED
  BY <1>3, <1>4 DEF IInv

-----------------------------------------------------------------------------
LEMMA StepIInv ==
  ASSUME IInv, [Next]_vars
  PROVE  IInv'
<1>1. CASE UNCHANGED vars
  BY <1>1
  DEF vars, conn, IInv, TypeOK, Exclusive, Holds, Flow, HeaderFields, Left, Server,
      ServerSees, Assembled, PieceOf, OneVideoWriter, Delivered
<1>2. ASSUME NEW t \in Tasks, SendCall(t) PROVE IInv'
  <2>1. PICK k \in Kinds \ {"recv"} : \E c \in Cids, len \in Lengths[k] : Call(t, k, c, len)
    BY <1>2 DEF SendCall
  <2>2. PICK c \in Cids, len \in Lengths[k] : Call(t, k, c, len)
    BY <2>1
  <2>3. len \in Nat /\ (k = "messages" /\ NoEmptyMessages => len > 0)
    BY SendAssumption DEF NoEmptyMessages
  <2> QED
    BY <2>2, <2>3, CallIInv
<1>3. ASSUME NEW t \in Tasks, RecvCall(t) PROVE IInv'
  BY <1>3, CallIInv DEF RecvCall, Kinds
<1>4. ASSUME NEW t \in Tasks, Take(t) PROVE IInv'
  BY <1>4, TakeIInv
<1>5. ASSUME NEW t \in Tasks, Inside(t) PROVE IInv'
  BY <1>5, RecvReturnsIInv, SendHeaderIInv, SendPayloadIInv, SendShortIInv,
     SendZeroIInv, SendFailsIInv, SendDoneIInv DEF Inside
<1> QED
  BY <1>1, <1>2, <1>3, <1>4, <1>5 DEF Next

LEMMA Inductive == Spec => []IInv
<1>1. IInv /\ [Next]_vars => IInv'
  BY StepIInv
<1> QED
  BY <1>1, InitIInv, PTL DEF Spec

(* Every variable keeps its type, and no task sends more of a message than *)
(* there is.                                                               *)
THEOREM TypeCorrect == Spec => []TypeOK
<1>1. IInv => TypeOK
  BY DEF IInv
<1> QED
  BY <1>1, Inductive, PTL

(* As long as nobody writes an empty audio or sequence-header message, the *)
(* four hand-written take/give pairs are one mutex that every return path  *)
(* gives back (rtmp_socket.c:95-120, rtmp_protocol.c:1211-1332,1658-1705). *)
THEOREM MutexIsNeverLost == ASSUME NoEmptyMessages PROVE Spec => []MutexNotLost
<1>1. IInv => MutexNotLost
  BY DEF IInv, Exclusive, MutexNotLost
<1> QED
  BY <1>1, Inductive, PTL

(* With one video task and a socket that takes every byte, what any number *)
(* of tasks send is a stream of whole chunks to the server.                *)
THEOREM ChunksNeverMix == Spec => []WireFramed
<1>1. IInv => WireFramed
  BY DEF IInv, Server, WireFramed
<1> QED
  BY <1>1, Inductive, PTL

(* ... and a write that returned success has been received whole.          *)
THEOREM SuccessMeansDelivered == Spec => []SuccessIsDelivered
<1>1. IInv => SuccessIsDelivered
  BY DEF IInv, Server, SuccessIsDelivered
<1> QED
  BY <1>1, Inductive, PTL
-----------------------------------------------------------------------------
(* A call is one moment to the server.                                     *)

(* The tasks' calls are different ones.                                    *)
Calling ==
  /\ \A t \in Tasks : pc[t] = "idle" => call[t] = NoMessage
  /\ \A t \in Tasks : pc[t] # "idle" => call[t].id \in 1 .. ncalls
  /\ \A t \in Tasks : call[t].kind = "recv" => call[t].len = 0
  /\ \A t \in Tasks : pc[t] = "recv" => call[t].kind = "recv"
  /\ \A t, u \in Tasks : pc[t] # "idle" /\ pc[u] # "idle" /\ call[t].id = call[u].id => t = u

(* What the server has got was sent to its end.                            *)
Finished ==
  OneVideoWriter /\ ~faulty =>
    /\ Delivered \subseteq 1 .. ncalls
    /\ \A t \in Tasks :
         pc[t] # "idle" /\ call[t].id \in Delivered => pc[t] = "header" /\ Left(t) = 0

Once == IInv /\ Calling /\ Finished

Moment == Calling' /\ Finished' /\ [Line!Next]_(Line!vars)

LEMMA OnceBegins == Init => Calling /\ Finished /\ Line!Init
<1> SUFFICES ASSUME Init PROVE Calling /\ Finished /\ Line!Init
  OBVIOUS
<1>1. Calling
  BY DEF Init, Calling, NoMessage
<1>2. Delivered = {}
  BY DEF Init, Delivered
<1>3. Finished
  BY <1>2 DEF Init, Finished
<1>4. Asked = [t \in Tasks |-> NoId]
  BY DEF Init, Asked, NoMessage
<1>5. Line!Init
  BY <1>4 DEF Init, Line!Init, OneVideoWriter
<1> QED
  BY <1>1, <1>3, <1>5

(* Steps that neither begin nor end a call.                                *)
LEMMA CallingKept ==
  ASSUME Calling, UNCHANGED <<call, ncalls>>,
         \A t \in Tasks : pc'[t] = "idle" <=> pc[t] = "idle",
         \A t \in Tasks : pc'[t] = "recv" => call[t].kind = "recv"
  PROVE  Calling' /\ Asked' = Asked
  BY DEF Calling, Asked

LEMMA CallingLeft ==
  ASSUME IInv, Calling, NEW t \in Tasks, Leave(t), ncalls' = ncalls
  PROVE  /\ Calling'
         /\ Asked' = [Asked EXCEPT ![t] = NoId]
         /\ pc' = [pc EXCEPT ![t] = "idle"]
         /\ \A u \in Tasks : u # t =>
              pc'[u] = pc[u] /\ call'[u] = call[u] /\ cur'[u] = cur[u] /\ off'[u] = off[u]
<1>1. /\ pc' = [pc EXCEPT ![t] = "idle"] /\ call' = [call EXCEPT ![t] = NoMessage]
      /\ cur' = [cur EXCEPT ![t] = NoMessage] /\ off' = [off EXCEPT ![t] = 0]
  BY DEF Leave
<1>2. /\ pc'[t] = "idle" /\ call'[t] = NoMessage
      /\ \A u \in Tasks : u # t =>
           pc'[u] = pc[u] /\ call'[u] = call[u] /\ cur'[u] = cur[u] /\ off'[u] = off[u]
  BY <1>1 DEF IInv, TypeOK
<1>3. NoMessage.len = 0 /\ NoMessage.kind = "none"
  BY DEF NoMessage
<1>4. Calling'
  BY <1>2, <1>3 DEF Calling
<1>5. Asked' = [Asked EXCEPT ![t] = NoId]
  <2>1. ~(call'[t].len > 0)
    BY <1>2, <1>3
  <2>2. Asked' = [u \in Tasks |-> IF u = t THEN NoId ELSE Asked[u]]
    BY <1>2, <2>1 DEF Asked
  <2> QED
    BY <2>2 DEF Asked
<1> QED
  BY <1>1, <1>2, <1>4, <1>5

(* After a send that went wrong nothing is promised.                       *)
LEMMA FaultyMoment ==
  ASSUME Calling', faulty' = TRUE
  PROVE  Moment
<1>1. Finished'
  BY DEF Finished
<1>2. Line!Next
  BY DEF Line!Next, Line!Lost
<1> QED
  BY <1>1, <1>2 DEF Moment

(* Without the conditions nothing is either.                               *)
LEMMA LooseMoment ==
  ASSUME Calling', ~OneVideoWriter
  PROVE  Moment
<1>1. Finished'
  BY DEF Finished, OneVideoWriter
<1>2. Line!Next
  BY DEF Line!Next, Line!Lost, OneVideoWriter
<1> QED
  BY <1>1, <1>2 DEF Moment

LEMMA CallMoment ==
  ASSUME Once, NEW t \in Tasks,
         NEW k \in Kinds, NEW c \in Cids \cup {NoCid}, NEW len \in Nat,
         k = "recv" => len = 0,
         Call(t, k, c, len)
  PROVE  Moment
<1> DEFINE m == [id |-> ncalls + 1, kind |-> k, cid |-> c, len |-> len]
<1>1. /\ pc[t] = "idle" /\ pc' = [pc EXCEPT ![t] = "take"]
      /\ call' = [call EXCEPT ![t] = m]
      /\ ncalls' = ncalls + 1 /\ ncalls < MaxCalls
      /\ UNCHANGED <<cur, off, delivered, faulty>>
  BY DEF Call, conn
<1>2. m.id = ncalls + 1 /\ m.kind = k /\ m.len = len
  OBVIOUS
<1> HIDE DEF m
<1>3. /\ pc'[t] = "take" /\ call'[t] = m /\ call[t] = NoMessage
      /\ \A u \in Tasks : u # t => pc'[u] = pc[u] /\ call'[u] = call[u]
  BY <1>1 DEF Once, IInv, TypeOK, Calling
<1>4. ncalls \in Nat /\ ncalls + 1 \in Ids /\ ncalls + 1 # NoId
  BY <1>1, SendAssumption DEF Once, IInv, TypeOK, Ids, NoId
<1>5. \A u \in Tasks : pc[u] # "idle" => call[u].id # ncalls + 1 /\ call[u].id \in 1 .. ncalls + 1
  BY <1>4 DEF Once, Calling
<1>6. Calling'
  <2>1. \A u \in Tasks : pc'[u] = "idle" => call'[u] = NoMessage
    BY <1>3 DEF Once, Calling
  <2>2. \A u \in Tasks : pc'[u] # "idle" => call'[u].id \in 1 .. ncalls'
    BY <1>1, <1>2, <1>3, <1>4, <1>5
  <2>3. \A u \in Tasks : call'[u].kind = "recv" => call'[u].len = 0
    BY <1>2, <1>3 DEF Once, Calling
  <2>4. \A u \in Tasks : pc'[u] = "recv" => call'[u].kind = "recv"
    BY <1>3 DEF Once, Calling
  <2>5. \A u, v \in Tasks :
          pc'[u] # "idle" /\ pc'[v] # "idle" /\ call'[u].id = call'[v].id => u = v
    BY <1>2, <1>3, <1>5 DEF Once, Calling
  <2> QED
    BY <2>1, <2>2, <2>3, <2>4, <2>5 DEF Calling
<1>7. CASE OneVideoWriter /\ ~faulty
  <2>1. Delivered' = Delivered /\ Delivered \subseteq 1 .. ncalls
    BY <1>1, <1>7, DeliveredKept DEF Once, Finished
  <2>2. ncalls + 1 \notin Delivered /\ Delivered \subseteq 1 .. ncalls + 1
    BY <2>1, <1>4
  <2>3. Finished'
    <3>1. \A u \in Tasks : u # t => Left(u)' = Left(u)
      BY <1>1 DEF Left
    <3>2. \A u \in Tasks : pc'[u] # "idle" /\ call'[u].id \in Delivered =>
            u # t /\ pc[u] # "idle" /\ call[u].id \in Delivered
      BY <1>2, <1>3, <2>2
    <3>3. \A u \in Tasks : pc'[u] # "idle" /\ call'[u].id \in Delivered =>
            pc'[u] = "header" /\ Left(u)' = 0
      BY <1>3, <1>7, <3>1, <3>2 DEF Once, Finished
    <3> QED
      BY <1>1, <2>1, <2>2, <3>3 DEF Finished
  <2>4. \A u \in Tasks : Asked[u] = IF call[u].len > 0 THEN call[u].id ELSE NoId
    BY DEF Asked
  <2>5. Asked[t] = NoId /\ \A u \in Tasks : Asked[u] # ncalls + 1
    <3>1. NoMessage.len = 0
      BY DEF NoMessage
    <3>2. \A u \in Tasks : pc[u] = "idle" => call[u] = NoMessage
      BY DEF Once, Calling
    <3> QED
      BY <1>3, <1>4, <1>5, <2>4, <3>1, <3>2
  <2>6. Asked' = [Asked EXCEPT ![t] = IF len > 0 THEN ncalls + 1 ELSE NoId]
    BY <1>2, <1>3 DEF Asked
  <2>7. CASE len > 0
    <3>1. ncalls + 1 \notin Line!Received
      BY <2>2 DEF Line!Received, Delivered
    <3>2. Line!Ask(t, ncalls + 1)
      BY <1>1, <2>5, <2>6, <2>7, <3>1 DEF Line!Ask, OneVideoWriter
    <3> QED
      BY <1>4, <1>6, <2>3, <3>2 DEF Moment, Line!Next
  <2>8. CASE ~(len > 0)
    <3>1. Asked' = Asked
      BY <2>5, <2>6, <2>8 DEF Asked
    <3> QED
      BY <1>1, <1>6, <2>3, <3>1 DEF Moment, Line!vars, OneVideoWriter
  <2> QED
    BY <2>7, <2>8
<1> QED
  BY <1>1, <1>6, <1>7, FaultyMoment, LooseMoment DEF Once, IInv, TypeOK
LEMMA TakeMoment ==
  ASSUME Once, NEW t \in Tasks, Take(t)
  PROVE  Moment
<1>1. /\ pc[t] = "take"
      /\ pc' = [pc EXCEPT ![t] = IF call[t].kind = "recv" THEN "recv" ELSE "header"]
      /\ UNCHANGED <<call, off, ncalls, delivered, faulty>>
      /\ \A u \in Tasks : u # t => cur'[u] = cur[u]
  BY DEF Take, conn, Once, IInv, TypeOK
<1>2. /\ pc'[t] = IF call[t].kind = "recv" THEN "recv" ELSE "header"
      /\ \A u \in Tasks : u # t => pc'[u] = pc[u]
  BY <1>1 DEF Once, IInv, TypeOK
<1>3. Calling' /\ Asked' = Asked
  <2>1. \A u \in Tasks : pc'[u] = "idle" <=> pc[u] = "idle"
    BY <1>1, <1>2
  <2>2. \A u \in Tasks : pc'[u] = "recv" => call[u].kind = "recv"
    BY <1>2 DEF Once, Calling
  <2> QED
    BY <1>1, <2>1, <2>2, CallingKept DEF Once
<1>4. Finished'
  <2> SUFFICES ASSUME OneVideoWriter, ~faulty PROVE Finished'
    BY <1>1 DEF Finished, OneVideoWriter
  <2>1. Delivered' = Delivered
    BY <1>1, DeliveredKept
  <2>2. \A u \in Tasks : u # t => Left(u)' = Left(u)
    BY <1>1 DEF Left
  <2>3. call[t].id \notin Delivered
    BY <1>1 DEF Once, Finished
  <2> QED
    BY <1>1, <1>2, <2>1, <2>2, <2>3 DEF Once, Finished
<1> QED
  BY <1>1, <1>3, <1>4 DEF Moment, Line!vars, OneVideoWriter

LEMMA RecvReturnsMoment ==
  ASSUME Once, NEW t \in Tasks, RecvReturns(t)
  PROVE  Moment
<1>1. pc[t] = "recv" /\ Leave(t) /\ UNCHANGED <<ncalls, delivered, faulty>>
  BY DEF RecvReturns, conn
<1>2. /\ Calling' /\ Asked' = [Asked EXCEPT ![t] = NoId] /\ pc'[t] = "idle"
      /\ \A u \in Tasks : u # t =>
           pc'[u] = pc[u] /\ call'[u] = call[u] /\ cur'[u] = cur[u] /\ off'[u] = off[u]
  BY <1>1, CallingLeft DEF Once, IInv, TypeOK
<1>3. Asked' = Asked
  <2>1. ~(call[t].len > 0)
    BY <1>1 DEF Once, Calling
  <2>2. Asked[t] = NoId
    BY <2>1 DEF Asked
  <2> QED
    BY <1>2, <2>2 DEF Asked
<1>4. Finished'
  <2>1. \A u \in Tasks : u # t => Left(u)' = Left(u)
    BY <1>2 DEF Left
  <2> QED
    BY <1>1, <1>2, <2>1, DeliveredKept DEF Once, Finished, OneVideoWriter
<1> QED
  BY <1>1, <1>2, <1>3, <1>4 DEF Moment, Line!vars, OneVideoWriter

LEMMA SendHeaderMoment ==
  ASSUME Once, NEW t \in Tasks, SendHeader(t)
  PROVE  Moment
<1>1. /\ pc[t] = "header" /\ Left(t) > 0 /\ pc' = [pc EXCEPT ![t] = "payload"]
      /\ UNCHANGED <<call, cur, off, ncalls, faulty>>
  BY DEF SendHeader
<1>2. delivered' = delivered
  <2>1. HeaderFields(t).cid \in Cids /\ HeaderFields(t).len \in Nat /\ First(t) \in BOOLEAN
    BY <1>1 DEF Once, IInv, TypeOK, Flow, HeaderFields, Messages, First
  <2> QED
    BY <2>1, HeaderTypes DEF SendHeader, Once
<1>3. pc'[t] = "payload" /\ \A u \in Tasks : u # t => pc'[u] = pc[u]
  BY <1>1 DEF Once, IInv, TypeOK
<1>4. Calling' /\ Asked' = Asked
  <2>1. \A u \in Tasks : pc'[u] = "idle" <=> pc[u] = "idle"
    BY <1>1, <1>3
  <2>2. \A u \in Tasks : pc'[u] = "recv" => call[u].kind = "recv"
    BY <1>3 DEF Once, Calling
  <2> QED
    BY <1>1, <2>1, <2>2, CallingKept DEF Once
<1>5. Finished'
  <2> SUFFICES ASSUME OneVideoWriter, ~faulty PROVE Finished'
    BY <1>1 DEF Finished, OneVideoWriter
  <2>1. Delivered' = Delivered /\ \A u \in Tasks : Left(u)' = Left(u)
    BY <1>1, <1>2, DeliveredKept DEF Left
  <2>2. Left(t) # 0
    BY <1>1, InLoop DEF Once
  <2>3. call[t].id \notin Delivered
    BY <1>1, <2>2 DEF Once, Finished
  <2> QED
    BY <1>1, <1>3, <2>1, <2>3 DEF Once, Finished
<1> QED
  BY <1>1, <1>2, <1>4, <1>5 DEF Moment, Line!vars, OneVideoWriter

(* The last payload of a message is the moment.                            *)
LEMMA SendPayloadMoment ==
  ASSUME Once, NEW t \in Tasks, SendPayload(t)
  PROVE  Moment
<1>1. /\ pc[t] = "payload" /\ pc' = [pc EXCEPT ![t] = "header"]
      /\ off' = [off EXCEPT ![t] = off[t] + PieceOf(t)]
      /\ UNCHANGED <<call, cur, ncalls, faulty>>
  BY DEF SendPayload, Advanced
<1>2. /\ pc'[t] = "header" /\ off'[t] = off[t] + PieceOf(t)
      /\ \A u \in Tasks : u # t => pc'[u] = pc[u] /\ off'[u] = off[u]
  BY <1>1 DEF Once, IInv, TypeOK
<1>3. Calling' /\ Asked' = Asked
  <2>1. \A u \in Tasks : pc'[u] = "idle" <=> pc[u] = "idle"
    BY <1>1, <1>2
  <2>2. \A u \in Tasks : pc'[u] = "recv" => call[u].kind = "recv"
    BY <1>2 DEF Once, Calling
  <2> QED
    BY <1>1, <2>1, <2>2, CallingKept DEF Once
<1>4. CASE OneVideoWriter /\ ~faulty
  <2>1. /\ cur[t] = call[t] /\ call[t].id \in Ids /\ call[t].id \in 1 .. ncalls
        /\ cur[t].len \in Nat /\ off[t] \in Nat /\ PieceOf(t) \in Nat /\ PieceOf(t) > 0
        /\ off[t] + PieceOf(t) <= cur[t].len /\ Left(t) = cur[t].len - off[t]
    <3>1. cur[t] = call[t] /\ call[t].id \in 1 .. ncalls /\ Left(t) > 0
      BY <1>1, <1>4 DEF Once, IInv, Flow, Calling
    <3> QED
      BY <1>1, <3>1, InLoop DEF Once
  <2>2. call[t].id \notin Delivered
    BY <1>1, <1>4 DEF Once, Finished
  <2>3. /\ Left(t)' = cur[t].len - (off[t] + PieceOf(t))
        /\ \A u \in Tasks : u # t => Left(u)' = Left(u)
    BY <1>1, <1>2 DEF Left
  <2>4. \A u \in Tasks : u # t /\ pc[u] # "idle" => call[u].id # call[t].id
    BY <1>1 DEF Once, Calling
  <2>5. CASE off[t] + PieceOf(t) = cur[t].len
    <3>1. delivered' = Append(delivered, call[t].id)
      BY <1>4, <2>1, <2>5, PayloadAccepted DEF Once
    <3>2. Delivered' = Delivered \cup {call[t].id}
      BY <2>1, <3>1, DeliveredGrows DEF Once, IInv, TypeOK
    <3>3. Left(t)' = 0
      BY <2>1, <2>3, <2>5
    <3>4. Finished'
      BY <1>1, <1>2, <1>4, <2>1, <2>3, <2>4, <3>2, <3>3 DEF Once, Finished
    <3>5. Asked[t] = call[t].id /\ Asked[t] # NoId
      BY <2>1, <2>5 DEF Asked, Ids, NoId
    <3>6. Line!Received = Delivered
      BY DEF Line!Received, Delivered
    <3>7. Line!Receive(t)
      BY <1>1, <1>3, <2>2, <3>1, <3>5, <3>6 DEF Line!Receive, OneVideoWriter
    <3> QED
      BY <1>3, <3>4, <3>7 DEF Moment, Line!Next
  <2>6. CASE off[t] + PieceOf(t) # cur[t].len
    <3>1. delivered' = delivered
      BY <1>4, <2>6, PayloadAccepted DEF Once
    <3>2. Finished'
      BY <1>1, <1>2, <1>4, <2>2, <2>3, <3>1, DeliveredKept DEF Once, Finished
    <3> QED
      BY <1>1, <1>3, <3>1, <3>2 DEF Moment, Line!vars, OneVideoWriter
  <2> QED
    BY <2>5, <2>6
<1> QED
  BY <1>1, <1>3, <1>4, FaultyMoment, LooseMoment DEF Once, IInv, TypeOK

LEMMA SendShortMoment ==
  ASSUME Once, NEW t \in Tasks, SendShort(t) \/ SendMisread(t) \/ SendZero(t)
  PROVE  Moment
<1>1. /\ pc[t] \in {"header", "payload"} /\ faulty' = TRUE /\ UNCHANGED <<call, ncalls>>
      /\ pc' = [pc EXCEPT ![t] = "header"] \/ pc' = [pc EXCEPT ![t] = "payload"]
  BY DEF SendShort, SendMisread, SendZero
<1>2. pc'[t] \in {"header", "payload"} /\ \A u \in Tasks : u # t => pc'[u] = pc[u]
  BY <1>1 DEF Once, IInv, TypeOK
<1>3. \A u \in Tasks : pc'[u] = "idle" <=> pc[u] = "idle"
  BY <1>1, <1>2
<1>4. \A u \in Tasks : pc'[u] = "recv" => call[u].kind = "recv"
  BY <1>2 DEF Once, Calling
<1>5. Calling'
  BY <1>1, <1>3, <1>4, CallingKept DEF Once
<1> QED
  BY <1>1, <1>5, FaultyMoment

LEMMA SendFailsMoment ==
  ASSUME Once, NEW t \in Tasks, SendFails(t)
  PROVE  Moment
<1>1. Leave(t) /\ ncalls' = ncalls /\ faulty' = TRUE
  BY DEF SendFails
<1>2. Calling'
  BY <1>1, CallingLeft DEF Once
<1> QED
  BY <1>1, <1>2, FaultyMoment

(* The loop's end is the return of a message that was received.            *)
LEMMA SendDoneMoment ==
  ASSUME Once, NEW t \in Tasks, SendDone(t)
  PROVE  Moment
<1>1. /\ pc[t] = "header" /\ Left(t) = 0 /\ Leave(t)
      /\ UNCHANGED <<ncalls, delivered, faulty>>
  BY DEF SendDone, ChunksEnd, conn
<1>2. /\ Calling' /\ Asked' = [Asked EXCEPT ![t] = NoId] /\ pc'[t] = "idle"
      /\ \A u \in Tasks : u # t =>
           pc'[u] = pc[u] /\ call'[u] = call[u] /\ cur'[u] = cur[u] /\ off'[u] = off[u]
  BY <1>1, CallingLeft DEF Once, IInv, TypeOK
<1>3. Finished'
  <2>1. \A u \in Tasks : u # t => Left(u)' = Left(u)
    BY <1>2 DEF Left
  <2> QED
    BY <1>1, <1>2, <2>1, DeliveredKept DEF Once, Finished, OneVideoWriter
<1>4. CASE OneVideoWriter /\ ~faulty
  <2>1. cur[t] = call[t] /\ ServerSees(t)
    BY <1>1, <1>4, InLoop DEF Once, IInv, Flow, Server
  <2>2. CASE call[t].len > 0
    <3>1. call[t].id \in Delivered
      BY <1>1, <2>1, <2>2 DEF ServerSees
    <3>2. Line!Received = Delivered /\ Asked[t] = call[t].id
      BY <2>2 DEF Line!Received, Delivered, Asked
    <3>3. Line!Return(t)
      BY <1>1, <1>2, <3>1, <3>2 DEF Line!Return, OneVideoWriter
    <3> QED
      BY <1>2, <1>3, <3>3 DEF Moment, Line!Next
  <2>3. CASE ~(call[t].len > 0)
    <3>1. Asked[t] = NoId
      BY <2>3 DEF Asked
    <3>2. Asked' = Asked
      BY <1>2, <3>1 DEF Asked
    <3> QED
      BY <1>1, <1>2, <1>3, <3>2 DEF Moment, Line!vars, OneVideoWriter
  <2> QED
    BY <2>2, <2>3
<1> QED
  BY <1>1, <1>2, <1>4, FaultyMoment, LooseMoment DEF Once, IInv, TypeOK

LEMMA MomentStep ==
  ASSUME Once, [Next]_vars
  PROVE  Moment
<1>1. CASE UNCHANGED vars
  <2>1. Calling' /\ Finished'
    BY <1>1 DEF vars, conn, Once, Calling, Finished, Delivered, Left, OneVideoWriter
  <2> QED
    BY <1>1, <2>1 DEF vars, conn, Moment, Line!vars, Asked, OneVideoWriter
<1>2. ASSUME NEW t \in Tasks, SendCall(t) PROVE Moment
  <2>1. PICK k \in Kinds \ {"recv"} : \E c \in Cids, len \in Lengths[k] : Call(t, k, c, len)
    BY <1>2 DEF SendCall
  <2>2. PICK c \in Cids, len \in Lengths[k] : Call(t, k, c, len)
    BY <2>1
  <2>3. len \in Nat
    BY SendAssumption
  <2> QED
    BY <2>2, <2>3, CallMoment
<1>3. ASSUME NEW t \in Tasks, RecvCall(t) PROVE Moment
  BY <1>3, CallMoment DEF RecvCall, Kinds
<1>4. ASSUME NEW t \in Tasks, Take(t) PROVE Moment
  BY <1>4, TakeMoment
<1>5. ASSUME NEW t \in Tasks, Inside(t) PROVE Moment
  BY <1>5, RecvReturnsMoment, SendHeaderMoment, SendPayloadMoment, SendShortMoment,
     SendFailsMoment, SendDoneMoment DEF Inside
<1> QED
  BY <1>1, <1>2, <1>3, <1>4, <1>5 DEF Next

(* For any set of tasks, messages and interleaving, a write is one moment  *)
(* to the server: its message is received whole, once, and between call    *)
(* and return, as long as the socket takes every byte.                     *)
THEOREM WritesAreMoments == Spec => ImplementsWholeWrites
<1>1. Init => Once /\ Line!Init
  BY InitIInv, OnceBegins DEF Once
<1>2. Once /\ [Next]_vars => Once' /\ [Line!Next]_(Line!vars)
  BY StepIInv, MomentStep DEF Once, Moment
<1> QED
  BY <1>1, <1>2, PTL DEF Spec, ImplementsWholeWrites, Line!Spec
=============================================================================
