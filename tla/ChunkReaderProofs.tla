-------------------------- MODULE ChunkReaderProofs --------------------------
(***************************************************************************)
(* Proofs about ChunkReader, for any chunk streams, sizes, timestamps and  *)
(* number of messages.                                                     *)
(*                                                                         *)
(* Whatever the server does: the types, and that there is room for payload *)
(* where it is copied to.                                                  *)
(*                                                                         *)
(* A server that keeps to the protocol and can be understood: it is never  *)
(* misread, both sides keep the same of each chunk stream, and each stream *)
(* hands out its messages in order.  The argument tells the server's side  *)
(* as a story: all it has ever sent, the places between its chunks, and    *)
(* what it was at each of them.  The reader is at such a place and knows   *)
(* what the server was there, or it is inside the chunk behind one, of     *)
(* which it has taken a known part.                                        *)
(***************************************************************************)
EXTENDS ChunkReader, SequenceTheorems, TLAPS

Chunks ==
  [seen : BOOLEAN, ext : BOOLEAN, delta : Nat, ts : Nat, len : Nat, msg : BOOLEAN,
   body : Seq(Units)]
Outs ==
  [used : BOOLEAN, ext : BOOLEAN, delta : Nat, ts : 0 .. TimeMod - 1, body : Seq(Units),
   put : Nat]
Sizes == {InitialSize} \cup ChunkSizes
InSizes == Sizes \cup (Bytes \ {0})
Waits == {"header", "ext", "payload"}

(* The server has put no more of a message than there is of it, and what   *)
(* it sends as a chunk size is one.                                        *)
Sane(c, o) ==
  /\ o.put <= Len(o.body)
  /\ c = Control => \A i \in DOMAIN o.body : o.body[i].v \in ChunkSizes

(* Inside a chunk there is a message under assembly, without payload when  *)
(* the header of its first chunk is awaited.                               *)
Inside ==
  /\ mode \in Waits => at.cid \in Cids /\ chunk[at.cid].msg
  /\ mode = "header" /\ at.first => chunk[at.cid].body = << >>

(* A stream that has no message under assembly holds no payload, and one   *)
(* that has holds less than the whole message.                             *)
Roomy(ch) ==
  /\ ~ch.msg => ch.body = << >>
  /\ ch.body # << >> => Len(ch.body) < ch.len

IInv ==
  /\ TypeOK
  /\ \A c \in Cids : Sane(c, out[c])
  /\ Inside
  /\ \A c \in Cids : Roomy(chunk[c])

-----------------------------------------------------------------------------
LEMMA Numbers ==
  /\ Sizes \subseteq Nat \ {0} /\ InSizes \subseteq Nat \ {0} /\ TimeMod \in Nat \ {0} /\ Threshold \in Nat /\ 0 \in 0 .. TimeMod - 1
  /\ ExtSize \in Nat \ {0} /\ MinSize \in Nat \ {0} /\ MaxMessages \in Nat
  /\ Cids \subseteq Nat /\ Units \subseteq Items
<1>1. Units \subseteq Items
  BY DEF Items
<1> QED
  BY <1>1, ReaderAssumption DEF Sizes, InSizes

LEMMA LeastIs == \A a, b \in Nat : Least(a, b) \in Nat /\ Least(a, b) <= a /\ Least(a, b) <= b
  BY DEF Least

LEMMA Modulo == \A n \in Nat : n % TimeMod \in 0 .. TimeMod - 1
  BY Numbers

(* The parts of a chunk.                                                   *)
LEMMA Parts ==
  ASSUME NEW c \in Cids, NEW fmt \in 0..3, NEW field \in Nat, NEW len \in Nat,
         NEW ts \in 0 .. TimeMod - 1
  PROVE  /\ Basic(c, fmt) \in Seq(Items) /\ Header(field, len) \in Seq(Items)
         /\ Ext(ts) \in Seq(Items)
<1>1. [t |-> "basic", cid |-> c, fmt |-> fmt] \in Items
  BY DEF Items
<1>2. [t |-> "header", field |-> Least(field, Threshold), len |-> len] \in Items
  BY LeastIs, Numbers DEF Items
<1>3. \A k \in 1..ExtSize : [t |-> "ext", k |-> k, ts |-> ts] \in Items
  BY DEF Items
<1>4. Ext(ts) \in [1..ExtSize -> Items]
  BY <1>3 DEF Ext
<1>5. Ext(ts) \in Seq(Items)
  BY <1>4, SeqDef, Numbers
<1> QED
  BY <1>1, <1>2, <1>5 DEF Basic, Header

LEMMA BodyIs ==
  ASSUME NEW id \in 1..MaxMessages, NEW len \in Nat, NEW v \in ChunkSizes \cup Bytes
  PROVE  /\ Body(id, len, v) \in Seq(Units) /\ Len(Body(id, len, v)) = len
         /\ \A i \in DOMAIN Body(id, len, v) : Body(id, len, v)[i].v = v
<1>1. \A k \in 1..len : [t |-> "unit", id |-> id, k |-> k, v |-> v] \in Units
  BY DEF Units
<1>2. Body(id, len, v) \in [1..len -> Units]
  BY <1>1 DEF Body
<1>3. Body(id, len, v) \in Seq(Units)
  BY <1>2, SeqDef
<1>4. DOMAIN Body(id, len, v) = 1..len
  BY DEF Body
<1>5. Len(Body(id, len, v)) = len
  BY <1>3, <1>4, LenProperties
<1> QED
  BY <1>3, <1>4, <1>5 DEF Body

LEMMA Begins == Init => IInv
<1> SUFFICES ASSUME Init PROVE IInv
  OBVIOUS
<1>1. 0 \in Nat /\ 0 \in 0 .. TimeMod - 1 /\ 0 \in 0..MaxMessages
  BY Numbers
<1>2. /\ out \in [Cids -> Outs] /\ \A c \in Cids : out[c].put = 0 /\ out[c].body = << >>
  BY <1>1 DEF Init, Outs
<1>3. /\ chunk \in [Cids -> Chunks]
      /\ \A c \in Cids : ~chunk[c].msg /\ chunk[c].body = << >> /\ chunk[c].ts = 0
  BY <1>1 DEF Init, Chunks
<1>4. /\ sent \in [Cids -> Seq(Messages)] /\ got \in [Cids -> Seq(Messages)]
      /\ wire \in Seq(Items)
  BY DEF Init
<1>5. at \in [cid : Cids \cup {0}, fmt : 0..3, first : BOOLEAN]
  BY DEF Init, NoAt
<1>6. mode = "basic" /\ size \in Sizes /\ in_chunk_size \in InSizes /\ nsent \in 0..MaxMessages
  BY <1>1 DEF Init, Sizes, InSizes
<1>7. conforming \in BOOLEAN /\ failed \in BOOLEAN
  <2>1. conforming = TRUE /\ failed = FALSE
    BY DEF Init
  <2> QED
    BY <2>1
<1>8. TypeOK
  <2>1. \A c \in Cids : chunk[c].ts < TimeMod
    BY <1>3, Numbers
  <2> QED
    BY <1>2, <1>3, <1>4, <1>5, <1>6, <1>7, <2>1 DEF TypeOK, Outs, Chunks, Sizes, InSizes
<1>9. \A c \in Cids : Sane(c, out[c])
  BY <1>2 DEF Sane
<1> QED
  BY <1>3, <1>6, <1>8, <1>9 DEF IInv, Inside, Waits, Roomy

-----------------------------------------------------------------------------
(* The server.                                                             *)

(* A server's step does not touch the reader.                              *)
LEMMA ReaderStays ==
  ASSUME IInv, UNCHANGED <<mode, at, chunk, in_chunk_size, got, failed>>,
         wire' \in Seq(Items), size' \in Sizes, out' \in [Cids -> Outs],
         nsent' \in 0..MaxMessages, sent' \in [Cids -> Seq(Messages)], conforming' \in BOOLEAN,
         \A c \in Cids : Sane(c, out'[c])
  PROVE  IInv'
<1>1. TypeOK'
  BY DEF IInv, TypeOK, Outs, Sizes, InSizes
<1>2. Inside' /\ \A c \in Cids : Roomy(chunk'[c])
  BY DEF IInv, Inside
<1> QED
  BY <1>1, <1>2 DEF IInv

LEMMA PutsStep ==
  ASSUME IInv, NEW c \in Cids, NEW h \in Seq(Items), NEW o \in Outs, Sane(c, o), Puts(c, h, o),
         c = Control => o.body # << >>
  PROVE  /\ wire' \in Seq(Items) /\ size' \in Sizes /\ out' \in [Cids -> Outs]
         /\ sent' \in [Cids -> Seq(Messages)]
         /\ \A d \in Cids : Sane(d, out'[d])
<1> DEFINE n == Least(size, Len(o.body) - o.put)
<1>1. /\ o.body \in Seq(Units) /\ o.put \in Nat /\ o.put <= Len(o.body) /\ Len(o.body) \in Nat
      /\ DOMAIN o.body = 1 .. Len(o.body) /\ o.ts \in 0 .. TimeMod - 1
  BY LenProperties DEF Outs, Sane
<1>2. size \in Nat /\ Len(o.body) - o.put \in Nat
  <2>1. size \in Sizes
    BY DEF IInv, TypeOK, Sizes, InSizes
  <2>2. Len(o.body) - o.put \in Nat
    BY <1>1
  <2> QED
    BY <2>1, <2>2, Numbers
<1>3. n \in Nat /\ o.put + n <= Len(o.body)
  <2>1. n \in Nat /\ n <= Len(o.body) - o.put
    BY <1>2, LeastIs
  <2> QED
    BY <1>1, <2>1
<1> HIDE DEF n
<1>4. SubSeq(o.body, o.put + 1, o.put + n) \in Seq(Items)
  <2>1. \A i \in o.put + 1 .. o.put + n : i \in DOMAIN o.body
    BY <1>1, <1>3
  <2>2. \A i \in DOMAIN o.body : o.body[i] \in Items
    BY <1>1, ElementOfSeq, Numbers
  <2> QED
    BY <1>1, <1>3, <2>1, <2>2, SubSeqProperties
<1>5. PICK x \in Seq(Items) : x = SubSeq(o.body, o.put + 1, o.put + n)
  BY <1>4
<1>6. wire' \in Seq(Items)
  <2>1. wire \in Seq(Items) /\ wire' = wire \o h \o x
    BY <1>5 DEF Puts, n, IInv, TypeOK
  <2>2. wire \o h \in Seq(Items)
    BY <2>1
  <2> QED
    BY <2>1, <2>2
<1>7. [o EXCEPT !.put = o.put + n] \in Outs
  <2>1. PICK m \in Nat : m = o.put + n
    BY <1>1, <1>3
  <2>2. [o EXCEPT !.put = m] \in Outs
    BY DEF Outs
  <2> QED
    BY <2>1, <2>2
<1>8. out' = [out EXCEPT ![c] = [o EXCEPT !.put = o.put + n]] /\ out \in [Cids -> Outs]
  BY DEF Puts, n, IInv, TypeOK, Outs
<1>9. out' \in [Cids -> Outs]
  BY <1>7, <1>8
<1>10. \A d \in Cids : Sane(d, out'[d])
  <2>1. PICK p \in Outs : p = [o EXCEPT !.put = o.put + n]
    BY <1>7
  <2>2. p.put = o.put + n /\ p.body = o.body
    BY <1>1, <2>1 DEF Outs
  <2>3. Sane(c, p)
    BY <1>3, <2>2 DEF Sane
  <2>4. \A d \in Cids : Sane(d, out[d])
    BY DEF IInv
  <2> QED
    BY <1>8, <2>1, <2>3, <2>4
<1>11. sent' \in [Cids -> Seq(Messages)]
  <2>1. sent \in [Cids -> Seq(Messages)]
    BY DEF IInv, TypeOK
  <2>2. [ts |-> o.ts, body |-> o.body] \in Messages
    BY <1>1 DEF Messages
  <2>3. PICK m \in Messages : m = [ts |-> o.ts, body |-> o.body]
    BY <2>2
  <2>4. sent' = sent \/ sent' = [sent EXCEPT ![c] = Append(@, m)]
    BY <2>3 DEF Puts
  <2>5. Append(sent[c], m) \in Seq(Messages)
    BY <2>1
  <2> QED
    BY <2>1, <2>4, <2>5
<1>12. size' \in Sizes
  <2>1. size \in Sizes
    BY DEF IInv, TypeOK, Sizes, InSizes
  <2>2. c = Control => 1 \in DOMAIN o.body
    BY <1>1, EmptySeq
  <2>3. c = Control => o.body[1].v \in Sizes
    BY <2>2 DEF Sane, Sizes, InSizes
  <2> QED
    BY <2>1, <2>3 DEF Puts
<1> QED
  BY <1>6, <1>9, <1>10, <1>11, <1>12

LEMMA StartsStep ==
  ASSUME IInv, NEW c \in Cids, NEW fmt \in 0..3, NEW len \in Nat, NEW t \in Times,
         NEW v \in ChunkSizes \cup Bytes, c = Control => len = 1 /\ v \in ChunkSizes,
         Starts(c, fmt, len, t, v)
  PROVE  IInv'
<1>1. t \in Nat /\ t \in 0 .. TimeMod - 1
  BY ReaderAssumption
<1>2. out \in [Cids -> Outs] /\ out[c].ts \in Nat /\ wire \in Seq(Items)
  BY Numbers DEF IInv, TypeOK, Outs
<1>3. nsent \in 0..MaxMessages /\ nsent < MaxMessages /\ nsent' = nsent + 1
  BY DEF Starts, IInv, TypeOK
<1>4. nsent + 1 \in 1..MaxMessages
  BY <1>3, Numbers
<1>5. PICK b \in Seq(Units) : /\ b = Body(nsent + 1, len, v) /\ Len(b) = len
                              /\ \A i \in DOMAIN b : b[i].v = v
  BY <1>4, BodyIs
<1>0. (out[c].ts + t) % TimeMod \in 0 .. TimeMod - 1
  <2>1. PICK n \in Nat : n = out[c].ts + t
    BY <1>1, <1>2
  <2> QED
    BY <2>1, Modulo
<1>6. PICK ts \in 0 .. TimeMod - 1 : ts = IF fmt = 0 THEN t ELSE (out[c].ts + t) % TimeMod
  <2>1. CASE fmt = 0
    BY <1>1, <2>1
  <2>2. CASE fmt # 0
    BY <1>0, <2>2
  <2> QED
    BY <2>1, <2>2
<1>7. PICK o \in Outs : o = [used |-> TRUE, ext |-> t >= Threshold, delta |-> t, ts |-> ts,
                             body |-> b, put |-> 0]
  <2>1. (t >= Threshold) \in BOOLEAN /\ 0 \in Nat
    OBVIOUS
  <2> QED
    BY <1>1, <2>1 DEF Outs
<1>8. o.put = 0 /\ o.body = b
  BY <1>7
<1>9. Sane(c, o)
  BY <1>5, <1>8 DEF Sane
<1>10. PICK h \in Seq(Items) :
         h = Basic(c, fmt) \o (IF fmt = 3 THEN << >> ELSE Header(t, len))
               \o (IF o.ext THEN Ext(t) ELSE << >>)
  <2>1. Basic(c, fmt) \in Seq(Items) /\ Header(t, len) \in Seq(Items) /\ Ext(t) \in Seq(Items)
    BY <1>1, Parts
  <2>2. << >> \in Seq(Items)
    OBVIOUS
  <2>3. PICK x \in Seq(Items) : x = Basic(c, fmt)
    BY <2>1
  <2>4. PICK y \in Seq(Items) : y = IF fmt = 3 THEN << >> ELSE Header(t, len)
    BY <2>1, <2>2, Zenon
  <2>5. PICK z \in Seq(Items) : z = IF o.ext THEN Ext(t) ELSE << >>
    BY <2>1, <2>2, Zenon
  <2>6. x \o y \in Seq(Items)
    OBVIOUS
  <2>7. x \o y \o z \in Seq(Items)
    BY <2>6
  <2> QED
    BY <2>3, <2>4, <2>5, <2>7
<1>11. Puts(c, h, o)
  BY <1>5, <1>6, <1>7, <1>10 DEF Starts
<1>12. c = Control => o.body # << >>
  <2>1. c = Control => Len(b) = 1
    BY <1>5
  <2>2. Len(<< >>) # 1
    OBVIOUS
  <2> QED
    BY <1>8, <2>1, <2>2, Zenon
<1>13. /\ wire' \in Seq(Items) /\ size' \in Sizes /\ out' \in [Cids -> Outs]
       /\ sent' \in [Cids -> Seq(Messages)] /\ \A d \in Cids : Sane(d, out'[d])
  BY <1>9, <1>11, <1>12, PutsStep
<1>14. nsent' \in 0..MaxMessages /\ conforming' \in BOOLEAN
  <2>1. nsent' \in 0..MaxMessages
    BY <1>3, Numbers
  <2>2. conforming' \in BOOLEAN
    BY DEF Starts
  <2> QED
    BY <2>1, <2>2
<1>15. UNCHANGED <<mode, at, chunk, in_chunk_size, got, failed>>
  BY DEF Starts, Puts
<1> QED
  BY <1>13, <1>14, <1>15, ReaderStays

LEMMA ServerStartsStep == ASSUME IInv, ServerStarts PROVE IInv'
<1>1. PICK c \in Cids, fmt \in 0..3, t \in Times :
        IF c = Control THEN \E v \in ChunkSizes : Starts(c, fmt, 1, t, v)
                       ELSE \E len \in Lengths, v \in Bytes : Starts(c, fmt, len, t, v)
  BY DEF ServerStarts
<1>2. CASE c = Control
  BY <1>1, <1>2, StartsStep
<1>3. CASE c # Control
  BY <1>1, <1>3, StartsStep, ReaderAssumption
<1> QED
  BY <1>2, <1>3

LEMMA ServerContinuesStep == ASSUME IInv, NEW c \in Cids, ServerContinues(c) PROVE IInv'
<1>1. PICK o \in Outs : o = out[c]
  BY DEF IInv, TypeOK, Outs
<1>2. Sane(c, o) /\ o.put < Len(o.body)
  BY <1>1 DEF IInv, ServerContinues, Active
<1>3. o.body # << >>
  <2>1. o.put \in Nat /\ o.ts \in 0 .. TimeMod - 1 /\ o.body \in Seq(Units)
    BY DEF Outs
  <2> QED
    BY <1>2, <2>1
<1>4. PICK h \in Seq(Items) :
        h = Basic(c, 3) \o (IF o.ext /\ RepeatsExt THEN Ext(o.ts) ELSE << >>)
  <2>1. o.ts \in 0 .. TimeMod - 1
    BY DEF Outs
  <2>2. Basic(c, 3) \in Seq(Items) /\ Ext(o.ts) \in Seq(Items)
    BY <2>1, Parts
  <2>0. << >> \in Seq(Items)
    OBVIOUS
  <2>3. PICK x, y \in Seq(Items) :
          x = Basic(c, 3) /\ y = IF o.ext /\ RepeatsExt THEN Ext(o.ts) ELSE << >>
    BY <2>0, <2>2, Zenon
  <2>4. x \o y \in Seq(Items)
    OBVIOUS
  <2> QED
    BY <2>3, <2>4
<1>5. Puts(c, h, o)
  BY <1>1, <1>4 DEF ServerContinues
<1>6. /\ wire' \in Seq(Items) /\ size' \in Sizes /\ out' \in [Cids -> Outs]
      /\ sent' \in [Cids -> Seq(Messages)] /\ \A d \in Cids : Sane(d, out'[d])
  BY <1>2, <1>3, <1>5, PutsStep
<1>7. UNCHANGED <<nsent, conforming>> /\ UNCHANGED <<mode, at, chunk, in_chunk_size, got, failed>>
  BY DEF ServerContinues, Puts
<1>8. nsent' \in 0..MaxMessages /\ conforming' \in BOOLEAN
  BY <1>7 DEF IInv, TypeOK
<1> QED
  BY <1>6, <1>7, <1>8, ReaderStays

LEMMA ServerErrsStep == ASSUME IInv, NEW c \in Cids, ServerErrs(c) PROVE IInv'
<1>1. wire \in Seq(Items) /\ Len(out[c].body) + 1 \in Nat /\ 0 \in 0 .. TimeMod - 1
  BY LenProperties, Numbers DEF IInv, TypeOK
<1>2. wire' \in Seq(Items)
  <2>1. \A fmt \in 0..3 : Basic(c, fmt) \in Seq(Items)
    BY <1>1, Parts
  <2>2. Header(0, Len(out[c].body) + 1) \in Seq(Items)
    <3>1. PICK n \in Nat : n = Len(out[c].body) + 1
      BY <1>1
    <3>2. 0 \in Nat /\ 0 \in 0..3 /\ 0 \in 0 .. TimeMod - 1
      BY <1>1
    <3>3. Header(0, n) \in Seq(Items)
      BY <3>2, Parts
    <3> QED
      BY <3>1, <3>3
  <2>3. PICK y \in Seq(Items) : y = Header(0, Len(out[c].body) + 1)
    BY <2>2
  <2>4. \/ \E x \in Seq(Items) : wire' = wire \o x
        \/ \E x \in Seq(Items) : wire' = wire \o x \o y
    <3>1. \/ \E fmt \in IF c = Control THEN 2..3 ELSE 1..3 : wire' = wire \o Basic(c, fmt)
          \/ wire' = wire \o Basic(c, 0)
          \/ wire' = wire \o Basic(c, 1) \o Header(0, Len(out[c].body) + 1)
      BY ONLY ServerErrs(c), Zenon DEF ServerErrs
    <3>2. 0 \in 0..3 /\ 1 \in 0..3 /\ 2..3 \subseteq 0..3 /\ 1..3 \subseteq 0..3
      OBVIOUS
    <3> QED
      BY <2>1, <2>3, <3>1, <3>2, Zenon
  <2>5. ASSUME NEW x \in Seq(Items) PROVE wire \o x \in Seq(Items) /\ wire \o x \o y \in Seq(Items)
    <3>1. wire \o x \in Seq(Items)
      BY <1>1
    <3> QED
      BY <3>1
  <2> QED
    BY <2>4, <2>5
<1>3. /\ UNCHANGED <<size, out, nsent, sent>>
      /\ UNCHANGED <<mode, at, chunk, in_chunk_size, got, failed>>
  BY DEF ServerErrs
<1>4. conforming' = FALSE
  BY DEF ServerErrs
<1>5. conforming' \in BOOLEAN
  BY <1>4
<1>6. /\ size' \in Sizes /\ out' \in [Cids -> Outs]
      /\ nsent' \in 0..MaxMessages /\ sent' \in [Cids -> Seq(Messages)]
      /\ \A d \in Cids : Sane(d, out'[d])
  BY <1>3 DEF IInv, TypeOK, Sizes, InSizes, Outs
<1> QED
  BY <1>2, <1>3, <1>5, <1>6, ReaderStays

-----------------------------------------------------------------------------
(* The reader.                                                             *)

(* A reader's step does not touch the server.                              *)
LEMMA ServerStays ==
  ASSUME IInv, UNCHANGED server,
         wire' \in Seq(Items),
         mode' \in {"basic", "refused", "lost", "dead"} \cup Waits,
         at' \in [cid : Cids \cup {0}, fmt : 0..3, first : BOOLEAN],
         chunk' \in [Cids -> Chunks],
         mode' # "refused" => \A c \in Cids : chunk'[c].ts < TimeMod,
         in_chunk_size' \in InSizes, got' \in [Cids -> Seq(Messages)], failed' \in BOOLEAN,
         Inside', \A c \in Cids : Roomy(chunk'[c])
  PROVE  IInv'
<1>1. UNCHANGED <<size, out, nsent, sent, conforming>>
  BY DEF server
<1>2. TypeOK'
  BY <1>1 DEF IInv, TypeOK, Chunks, Sizes, InSizes, Waits
<1>3. \A c \in Cids : Sane(c, out'[c])
  BY <1>1 DEF IInv
<1> QED
  BY <1>2, <1>3 DEF IInv

(* The types of a header that is complete, and of a message handed out.    *)
LEMMA Finished ==
  ASSUME NEW x \in Chunks
  PROVE  /\ HeaderDone(x) \in Chunks /\ HeaderDone(x).ts < TimeMod
         /\ HeaderDone(x).msg = x.msg /\ HeaderDone(x).body = x.body /\ HeaderDone(x).len = x.len
         /\ Released(x) \in Chunks /\ Released(x).ts = x.ts
         /\ ~Released(x).msg /\ Released(x).body = << >>
<1>1. x.ts \in Nat
  BY DEF Chunks
<1>2. x.ts % TimeMod \in 0 .. TimeMod - 1
  BY <1>1, Modulo
<1>3. PICK n \in Nat : n = x.ts % TimeMod /\ n < TimeMod
  BY <1>2, Numbers
<1>4. HeaderDone(x) = [x EXCEPT !.seen = TRUE, !.ts = n]
  BY <1>3 DEF HeaderDone
<1>5. << >> \in Seq(Units)
  OBVIOUS
<1> QED
  BY <1>3, <1>4, <1>5 DEF Chunks, Released

LEMMA Fmt3 ==
  ASSUME NEW x \in Chunks, x.ts < TimeMod, Roomy(x)
  PROVE  /\ OnFmt3(x) \in Chunks /\ OnFmt3(x).ts < TimeMod /\ OnFmt3(x).msg /\ Roomy(OnFmt3(x))
<1>1. CASE x.ext
  <2>1. OnFmt3(x) = [x EXCEPT !.msg = TRUE]
    BY <1>1 DEF OnFmt3
  <2> QED
    BY <2>1 DEF Chunks, Roomy
<1>2. CASE ~x.ext
  <2>1. x.ts \in Nat /\ x.delta \in Nat
    BY DEF Chunks
  <2>2. PICK n \in Nat : n = IF ~x.msg /\ ~x.ext THEN x.ts + x.delta ELSE x.ts
    BY <2>1
  <2>3. PICK y \in Chunks : y = [x EXCEPT !.ts = n, !.msg = TRUE]
    BY DEF Chunks
  <2>4. OnFmt3(x) = HeaderDone(y)
    BY <1>2, <2>2, <2>3 DEF OnFmt3
  <2>5. y.msg /\ y.body = x.body /\ y.len = x.len
    BY <2>3 DEF Chunks
  <2> QED
    BY <2>4, <2>5, Finished DEF Roomy
<1> QED
  BY <1>1, <1>2

LEMMA FirstTaken ==
  ASSUME NEW S, NEW q \in Seq(S), q # << >>
  PROVE  Tail(q) \in Seq(S) /\ q[1] \in S /\ 1 \in 1 .. Len(q)
<1>1. Tail(q) \in Seq(S)
  BY HeadTailProperties
<1>2. 1 \in 1 .. Len(q)
  BY EmptySeq, LenProperties
<1> QED
  BY <1>1, <1>2, ElementOfSeq

LEMMA Rest ==
  ASSUME NEW S, NEW q \in Seq(S), NEW n \in Nat, n <= Len(q)
  PROVE  SubSeq(q, n + 1, Len(q)) \in Seq(S)
<1>1. Len(q) \in Int /\ n + 1 \in Int /\ \A i \in n + 1 .. Len(q) : i \in 1 .. Len(q)
  BY LenProperties
<1>2. \A i \in n + 1 .. Len(q) : q[i] \in S
  BY <1>1, ElementOfSeq
<1> QED
  BY <1>1, <1>2, SubSeqProperties

LEMMA ReadBasicStep ==
  ASSUME IInv, NEW c \in Cids, NEW fmt \in 0..3, ReadBasic(c, fmt)
  PROVE  IInv'
<1>1. /\ mode = "basic" /\ wire # << >> /\ wire \in Seq(Items) /\ wire' = Tail(wire)
      /\ UNCHANGED <<server, in_chunk_size, got, failed>>
  BY DEF ReadBasic, IInv, TypeOK
<1>2. wire' \in Seq(Items)
  BY <1>1, FirstTaken
<1>3. /\ chunk \in [Cids -> Chunks] /\ \A d \in Cids : chunk[d].ts < TimeMod /\ Roomy(chunk[d])
      /\ at \in [cid : Cids \cup {0}, fmt : 0..3, first : BOOLEAN]
      /\ in_chunk_size \in InSizes /\ got \in [Cids -> Seq(Messages)] /\ failed \in BOOLEAN
  BY <1>1 DEF IInv, TypeOK, Chunks, Sizes, InSizes
<1>4. CASE Refuses(chunk[c], c, fmt)
  <2>1. mode' = "refused" /\ UNCHANGED <<at, chunk>>
    BY <1>4 DEF ReadBasic
  <2>2. Inside'
    BY <2>1 DEF Inside, Waits
  <2> QED
    BY <1>1, <1>2, <1>3, <2>1, <2>2, ServerStays
<1>5. CASE ~Refuses(chunk[c], c, fmt)
  <2>1. PICK x \in Chunks : x = chunk[c] /\ x.ts < TimeMod /\ Roomy(x)
    BY <1>3
  <2>2. PICK y : y = IF fmt = 3 THEN OnFmt3(x) ELSE [x EXCEPT !.msg = TRUE]
    OBVIOUS
  <2>3. y \in Chunks /\ y.ts < TimeMod /\ y.msg /\ Roomy(y)
    <3>1. CASE fmt = 3
      BY <2>1, <2>2, <3>1, Fmt3
    <3>2. CASE fmt # 3
      <4>1. y = [x EXCEPT !.msg = TRUE]
        BY <2>2, <3>2
      <4> QED
        BY <2>1, <4>1 DEF Chunks, Roomy
    <3> QED
      BY <3>1, <3>2
  <2>4. chunk' = [chunk EXCEPT ![c] = y]
    BY <1>5, <2>1, <2>2 DEF ReadBasic
  <2>5. /\ chunk' \in [Cids -> Chunks] /\ chunk'[c] = y
        /\ \A d \in Cids : chunk'[d].ts < TimeMod /\ Roomy(chunk'[d])
    BY <1>3, <2>3, <2>4
  <2>6. /\ at' = [cid |-> c, fmt |-> fmt, first |-> ~chunk[c].msg]
        /\ mode' = IF fmt < 3 THEN "header" ELSE IF chunk[c].ext THEN "ext" ELSE "payload"
    BY <1>5 DEF ReadBasic
  <2>7. at' \in [cid : Cids \cup {0}, fmt : 0..3, first : BOOLEAN]
    <3>1. (~chunk[c].msg) \in BOOLEAN
      OBVIOUS
    <3> QED
      BY <2>6, <3>1
  <2>8. mode' \in Waits
    BY <2>6 DEF Waits
  <2>9. Inside'
    <3>1. at'.cid = c /\ (mode' = "header" /\ at'.first => ~x.msg /\ fmt # 3)
      <4>1. at'.cid = c /\ at'.first = ~chunk[c].msg
        BY <2>6, Zenon
      <4>2. mode' = "header" => fmt # 3
        BY <2>6
      <4> QED
        BY <2>1, <4>1, <4>2, Zenon
    <3>2. ~x.msg /\ fmt # 3 => y.body = << >>
      <4>1. ~x.msg => x.body = << >>
        BY <2>1 DEF Roomy
      <4>2. fmt # 3 => y.body = x.body
        BY <2>2 DEF Chunks
      <4> QED
        BY <4>1, <4>2
    <3> QED
      BY <2>3, <2>5, <3>1, <3>2 DEF Inside
  <2> QED
    BY <1>1, <1>2, <1>3, <2>5, <2>7, <2>8, <2>9, ServerStays
<1> QED
  BY <1>4, <1>5

(* What the steps inside a chunk have in common: one chunk stream changes, *)
(* to y.                                                                   *)
LEMMA InsideStep ==
  ASSUME IInv, mode \in Waits, UNCHANGED <<server, at, failed>>,
         wire' \in Seq(Items), in_chunk_size' \in InSizes, got' \in [Cids -> Seq(Messages)],
         NEW y \in Chunks, chunk' = [chunk EXCEPT ![at.cid] = y], Roomy(y),
         \/ mode' \in {"basic", "lost"} /\ y.ts < TimeMod
         \/ mode' = "refused"
         \/ mode' \in {"ext", "payload"} /\ y.ts < TimeMod /\ y.msg
  PROVE  IInv'
<1>1. /\ chunk \in [Cids -> Chunks] /\ at.cid \in Cids
      /\ at \in [cid : Cids \cup {0}, fmt : 0..3, first : BOOLEAN] /\ failed \in BOOLEAN
      /\ \A c \in Cids : chunk[c].ts < TimeMod /\ Roomy(chunk[c])
  BY DEF IInv, Inside, Waits, TypeOK, Chunks
<1>2. chunk' \in [Cids -> Chunks] /\ chunk'[at.cid] = y
  BY <1>1
<1>3. /\ \A c \in Cids : Roomy(chunk'[c])
      /\ mode' # "refused" => \A c \in Cids : chunk'[c].ts < TimeMod
  BY <1>1
<1>4. Inside'
  BY <1>1, <1>2 DEF Inside, Waits
<1>5. mode' \in {"basic", "refused", "lost", "dead"} \cup Waits
  BY DEF Waits
<1> QED
  BY <1>1, <1>2, <1>3, <1>4, <1>5, ServerStays

(* ... or none does.                                                       *)
LEMMA LeavesStep ==
  ASSUME IInv, mode # "refused", UNCHANGED <<server, at, chunk, in_chunk_size, got>>,
         wire' \in Seq(Items), failed' \in BOOLEAN, mode' \in {"basic", "lost", "dead"}
  PROVE  IInv'
<1>1. TypeOK'
  BY DEF IInv, TypeOK, server
<1>2. Inside'
  BY DEF Inside, Waits
<1>3. \A c \in Cids : Sane(c, out'[c]) /\ Roomy(chunk'[c])
  BY DEF IInv, server
<1> QED
  BY <1>1, <1>2, <1>3 DEF IInv

(* The chunk the reader is in.                                             *)
LEMMA AtChunk ==
  ASSUME IInv, mode \in Waits
  PROVE  /\ at.cid \in Cids /\ Ch \in Chunks /\ Ch.msg /\ Ch.ts < TimeMod /\ Roomy(Ch)
         /\ mode = "header" /\ at.first => Ch.body = << >>
         /\ Ch.ts \in Nat /\ Ch.len \in Nat /\ Ch.body \in Seq(Units)
         /\ wire \in Seq(Items) /\ in_chunk_size \in InSizes /\ got \in [Cids -> Seq(Messages)]
<1>1. /\ chunk \in [Cids -> Chunks] /\ at.cid \in Cids
      /\ \A c \in Cids : chunk[c].ts < TimeMod /\ Roomy(chunk[c])
      /\ wire \in Seq(Items) /\ in_chunk_size \in InSizes /\ got \in [Cids -> Seq(Messages)]
      /\ chunk[at.cid].msg
      /\ mode = "header" /\ at.first => chunk[at.cid].body = << >>
  BY DEF IInv, Inside, Waits, TypeOK, Chunks, Sizes, InSizes
<1>2. PICK x \in Chunks : x = chunk[at.cid]
  BY <1>1
<1>3. x.ts \in Nat /\ x.len \in Nat /\ x.body \in Seq(Units)
  BY DEF Chunks
<1> QED
  BY <1>1, <1>2, <1>3 DEF Ch

LEMMA HeaderIs ==
  ASSUME NEW h \in Items, h.t = "header"
  PROVE  h.field \in Nat /\ h.len \in Nat
<1>1. h \in [t : {"header"}, field : Nat, len : Nat]
  BY DEF Items, Units
<1> QED
  BY <1>1

LEMMA ExtIs ==
  ASSUME NEW h \in Items, h.t = "ext"
  PROVE  h.ts \in 0 .. TimeMod - 1
<1>1. h \in [t : {"ext"}, k : 1..ExtSize, ts : 0 .. TimeMod - 1]
  BY DEF Items, Units
<1> QED
  BY <1>1

LEMMA UnitIs ==
  ASSUME NEW h \in Items, h.t = "unit"
  PROVE  h \in Units /\ h.v \in ChunkSizes \cup Bytes
<1>1. h \in Units
  BY DEF Items, Units
<1> QED
  BY <1>1 DEF Units

LEMMA ReadHeaderStep == ASSUME IInv, ReadHeader PROVE IInv'
<1>1. /\ mode = "header" /\ mode \in Waits /\ wire # << >> /\ wire[1].t = "header"
      /\ wire' = Tail(wire) /\ UNCHANGED <<server, at, in_chunk_size, got, failed>>
  BY DEF ReadHeader, Waits
<1>2. PICK x \in Chunks :
        /\ x = Ch /\ x.msg /\ x.ts < TimeMod /\ x.ts \in Nat /\ x.len \in Nat /\ Roomy(x)
        /\ at.first => x.body = << >>
  BY <1>1, AtChunk
<1>3. PICK h \in Items : h = wire[1] /\ h.field \in Nat /\ h.len \in Nat
  BY <1>1, AtChunk, FirstTaken, HeaderIs
<1>4. /\ wire' \in Seq(Items) /\ in_chunk_size' \in InSizes /\ got' \in [Cids -> Seq(Messages)]
  BY <1>1, AtChunk, FirstTaken
<1>0. (h.field >= Threshold) \in BOOLEAN
  OBVIOUS
<1>5. PICK ext \in BOOLEAN : ext = (h.field >= Threshold)
  BY <1>0, Zenon
<1>6. PICK ts \in Nat :
        /\ ts = IF ext THEN x.ts ELSE IF at.fmt = 0 THEN h.field ELSE x.ts + h.field
        /\ ext => ts < TimeMod
  BY <1>2, <1>3
<1>7. PICK ch \in Chunks : ch = [x EXCEPT !.delta = h.field, !.ext = ext, !.ts = ts]
  BY <1>3 DEF Chunks
<1>8. /\ ch.body = x.body /\ ch.len = x.len /\ ch.msg /\ ch.ts = ts
  BY <1>2, <1>7 DEF Chunks
<1>9. PICK len \in Nat : len = IF at.fmt < 2 THEN h.len ELSE x.len
  BY <1>2, <1>3
<1>10. IF ~at.first /\ len # x.len
       THEN mode' = "refused" /\ chunk' = [chunk EXCEPT ![at.cid] = ch]
       ELSE /\ mode' = IF ext THEN "ext" ELSE "payload"
            /\ chunk' = [chunk EXCEPT ![at.cid] =
                 IF ext THEN [ch EXCEPT !.len = len] ELSE HeaderDone([ch EXCEPT !.len = len])]
  BY <1>2, <1>3, <1>5, <1>6, <1>7, <1>9 DEF ReadHeader
<1>11. CASE ~at.first /\ len # x.len
  <2>1. mode' = "refused" /\ chunk' = [chunk EXCEPT ![at.cid] = ch] /\ Roomy(ch)
    BY <1>2, <1>8, <1>10, <1>11 DEF Roomy
  <2> QED
    BY <1>1, <1>4, <2>1, InsideStep
<1>12. CASE at.first \/ len = x.len
  <2>1. PICK y \in Chunks : y = [ch EXCEPT !.len = len]
    BY DEF Chunks
  <2>2. y.body = x.body /\ y.len = len /\ y.msg /\ y.ts = ts
    BY <1>8, <2>1 DEF Chunks
  <2>3. Roomy(y)
    BY <1>2, <1>12, <2>2 DEF Roomy
  <2>4. CASE ext
    <3>1. mode' = "ext" /\ chunk' = [chunk EXCEPT ![at.cid] = y] /\ y.ts < TimeMod
      BY <1>6, <1>10, <1>12, <2>1, <2>2, <2>4
    <3> QED
      BY <1>1, <1>4, <2>2, <2>3, <3>1, InsideStep
  <2>5. CASE ~ext
    <3>1. PICK z \in Chunks : z = HeaderDone(y)
      BY Finished
    <3>2. z.ts < TimeMod /\ z.msg /\ Roomy(z)
      BY <2>2, <2>3, <3>1, Finished DEF Roomy
    <3>3. mode' = "payload" /\ chunk' = [chunk EXCEPT ![at.cid] = z]
      BY <1>10, <1>12, <2>1, <2>5, <3>1
    <3> QED
      BY <1>1, <1>4, <3>2, <3>3, InsideStep
  <2> QED
    BY <2>4, <2>5
<1> QED
  BY <1>11, <1>12

LEMMA ReadExtStep == ASSUME IInv, ReadExt PROVE IInv'
<1>1. /\ mode = "ext" /\ mode \in Waits /\ Len(wire) >= ExtSize
      /\ UNCHANGED <<server, at, in_chunk_size, got, failed>>
  BY DEF ReadExt, ExtThere, Waits
<1>2. PICK x \in Chunks : x = Ch /\ x.msg /\ x.ts < TimeMod /\ Roomy(x)
  BY <1>1, AtChunk
<1>3. /\ wire \in Seq(Items) /\ in_chunk_size' \in InSizes /\ got' \in [Cids -> Seq(Messages)]
      /\ at.cid \in Cids /\ x = chunk[at.cid] /\ chunk \in [Cids -> Chunks] /\ failed \in BOOLEAN
  BY <1>1, <1>2, AtChunk DEF Ch, IInv, TypeOK, Chunks
<1>4. SubSeq(wire, ExtSize + 1, Len(wire)) \in Seq(Items)
  BY <1>1, <1>3, Rest, Numbers
<1>5. CASE PutsBack
  <2>1. PICK y \in Chunks : y = HeaderDone(x) /\ y.ts < TimeMod /\ y.msg /\ Roomy(y)
    BY <1>2, Finished DEF Roomy
  <2>2. mode' = "payload" /\ chunk' = [chunk EXCEPT ![at.cid] = y] /\ wire' = wire
    BY <1>3, <1>5, <2>1 DEF ReadExt
  <2> QED
    BY <1>1, <1>3, <2>1, <2>2, InsideStep
<1>6. CASE ~PutsBack /\ wire[1].t = "ext" /\ IsExt(wire[1].ts)
  <2>1. 1 \in 1 .. Len(wire)
    BY <1>1, <1>3, Numbers, LenProperties
  <2>2. PICK n \in 0 .. TimeMod - 1 : n = wire[1].ts
    BY <1>3, <1>6, <2>1, ElementOfSeq, ExtIs
  <2>3. n \in Nat
    BY Numbers
  <2>4. PICK z \in Chunks : z = [x EXCEPT !.ts = n]
    BY <2>3 DEF Chunks
  <2>5. z.msg /\ z.body = x.body /\ z.len = x.len
    BY <1>2, <2>4 DEF Chunks
  <2>6. PICK y \in Chunks : y = HeaderDone(z) /\ y.ts < TimeMod /\ y.msg /\ Roomy(y)
    BY <1>2, <2>5, Finished DEF Roomy
  <2>7. /\ mode' = "payload" /\ chunk' = [chunk EXCEPT ![at.cid] = y]
        /\ wire' = SubSeq(wire, ExtSize + 1, Len(wire))
    BY <1>3, <1>6, <2>2, <2>4, <2>6 DEF ReadExt
  <2> QED
    BY <1>1, <1>3, <1>4, <2>6, <2>7, InsideStep
<1>7. CASE ~PutsBack /\ ~(wire[1].t = "ext" /\ IsExt(wire[1].ts))
  <2>1. mode' = "lost" /\ wire' = SubSeq(wire, ExtSize + 1, Len(wire)) /\ UNCHANGED chunk
    BY <1>7 DEF ReadExt
  <2>2. mode # "refused" /\ failed' \in BOOLEAN
    BY <1>1, <1>3
  <2> QED
    BY <1>1, <1>4, <2>1, <2>2, LeavesStep
<1> QED
  BY <1>5, <1>6, <1>7

LEMMA ReadEmptyStep == ASSUME IInv, ReadEmpty PROVE IInv'
<1>1. /\ mode \in Waits /\ mode' = "basic" /\ UNCHANGED <<wire, server, at, in_chunk_size, got, failed>>
  BY DEF ReadEmpty, Waits
<1>2. PICK x \in Chunks : x = Ch /\ x.ts < TimeMod
  BY <1>1, AtChunk
<1>3. PICK y \in Chunks : y = Released(x) /\ y.ts < TimeMod /\ Roomy(y)
  BY <1>2, Finished DEF Roomy
<1>4. chunk' = [chunk EXCEPT ![at.cid] = y]
  BY <1>2, <1>3 DEF ReadEmpty, Ch
<1>5. wire' \in Seq(Items) /\ in_chunk_size' \in InSizes /\ got' \in [Cids -> Seq(Messages)]
  BY <1>1, AtChunk
<1> QED
  BY <1>1, <1>3, <1>4, <1>5, InsideStep

LEMMA ReadPayloadStep == ASSUME IInv, ReadPayload PROVE IInv'
<1>1. /\ mode = "payload" /\ mode \in Waits /\ Ch.len > 0 /\ Len(wire) >= Piece
      /\ wire' = SubSeq(wire, Piece + 1, Len(wire)) /\ UNCHANGED <<server, at, failed>>
  BY DEF ReadPayload, Waits
<1>2. PICK x \in Chunks :
        /\ x = Ch /\ x.msg /\ x.ts < TimeMod /\ x.ts \in Nat /\ Roomy(x)
        /\ x.len \in Nat /\ x.body \in Seq(Units)
  BY <1>1, AtChunk
<1>3. /\ wire \in Seq(Items) /\ in_chunk_size \in InSizes /\ got \in [Cids -> Seq(Messages)]
      /\ at.cid \in Cids /\ x = chunk[at.cid] /\ failed \in BOOLEAN
  BY <1>1, <1>2, AtChunk DEF Ch, IInv, TypeOK
<1>4. PICK p \in Nat : p = Piece /\ p <= Len(wire) /\ p <= x.len - Len(x.body)
  <2>1. Len(x.body) \in Nat /\ Len(<< >>) = 0
    BY <1>2, LenProperties
  <2>2. Len(x.body) <= x.len
    BY <1>2, <2>1 DEF Roomy
  <2>3. PICK m \in Nat : m = x.len - Len(x.body)
    BY <1>2, <2>1, <2>2
  <2>4. in_chunk_size \in Nat
    BY <1>3, Numbers
  <2>5. Piece = Least(m, in_chunk_size)
    BY <1>2, <2>3 DEF Piece
  <2> QED
    BY <1>1, <2>3, <2>4, <2>5, LeastIs
<1>5. wire' \in Seq(Items)
  BY <1>1, <1>3, <1>4, Rest
<1>6. CASE \E k \in 1..Piece : wire[k].t # "unit"
  <2>1. mode' = "lost" /\ UNCHANGED <<chunk, got, in_chunk_size>>
    BY <1>6 DEF ReadPayload
  <2>2. mode # "refused" /\ failed' \in BOOLEAN
    BY <1>1, <1>3
  <2> QED
    BY <1>1, <1>5, <2>1, <2>2, LeavesStep
<1>7. CASE \A k \in 1..Piece : wire[k].t = "unit"
  <2>1. \A k \in 1..p : wire[k] \in Units
    <3>1. \A k \in 1..p : k \in 1 .. Len(wire)
      BY <1>3, <1>4, LenProperties
    <3> QED
      BY <1>3, <1>4, <1>7, <3>1, ElementOfSeq, UnitIs
  <2>2. PICK s \in Seq(Units) : s = SubSeq(wire, 1, p) /\ Len(s) = p
    <3>1. SubSeq(wire, 1, p) \in Seq(Units) /\ Len(SubSeq(wire, 1, p)) = IF 1 <= p THEN p - 1 + 1 ELSE 0
      BY <2>1, SubSeqProperties
    <3>2. (IF 1 <= p THEN p - 1 + 1 ELSE 0) = p
      OBVIOUS
    <3> QED
      BY <3>1, <3>2, Zenon
  <2>3. PICK body \in Seq(Units) : body = x.body \o s /\ Len(body) = Len(x.body) + p
    <3>1. x.body \o s \in Seq(Units) /\ Len(x.body \o s) = Len(x.body) + Len(s)
      BY <1>2, ConcatProperties
    <3> QED
      BY <2>2, <3>1, Zenon
  <2>4. body = Ch.body \o SubSeq(wire, 1, Piece)
    BY <1>2, <1>4, <2>2, <2>3
  <2>5. CASE Len(body) < x.len
    <3>1. PICK y \in Chunks : y = [x EXCEPT !.body = body]
      BY DEF Chunks
    <3>2. y.msg /\ y.body = body /\ y.len = x.len /\ y.ts = x.ts
      BY <1>2, <3>1 DEF Chunks
    <3>3. Roomy(y) /\ y.ts < TimeMod
      BY <1>2, <2>5, <3>2 DEF Roomy
    <3>4. /\ mode' = "basic" /\ UNCHANGED <<got, in_chunk_size>>
          /\ chunk' = [chunk EXCEPT ![at.cid].body = body]
      BY <1>2, <1>7, <2>4, <2>5 DEF ReadPayload
    <3>5. chunk' = [chunk EXCEPT ![at.cid] = y]
      BY <1>3, <3>1, <3>4
    <3> QED
      BY <1>1, <1>3, <1>5, <3>3, <3>4, <3>5, InsideStep
  <2>6. CASE ~(Len(body) < x.len)
    <3>1. PICK y \in Chunks : y = Released(x) /\ y.ts < TimeMod /\ Roomy(y)
      BY <1>2, Finished DEF Roomy
    <3>2. /\ chunk' = [chunk EXCEPT ![at.cid] = y]
          /\ IF TooSmall(at.cid, body)
             THEN mode' = "refused" /\ UNCHANGED <<got, in_chunk_size>>
             ELSE /\ mode' = "basic"
                  /\ got' = [got EXCEPT ![at.cid] = Append(@, [ts |-> x.ts, body |-> body])]
                  /\ in_chunk_size' = SizeAfter(at.cid, body)
      BY <1>2, <1>3, <1>7, <2>4, <2>6, <3>1 DEF ReadPayload
    <3>3. CASE TooSmall(at.cid, body)
      BY <1>1, <1>3, <1>5, <3>1, <3>2, <3>3, InsideStep
    <3>4. CASE ~TooSmall(at.cid, body)
      <4>1. PICK m \in Messages : m = [ts |-> x.ts, body |-> body]
        <5>1. x.ts \in 0 .. TimeMod - 1
          BY <1>2, Numbers
        <5> QED
          BY <5>1 DEF Messages
      <4>2. got' = [got EXCEPT ![at.cid] = Append(@, m)]
        BY <3>2, <3>4, <4>1
      <4>3. Append(got[at.cid], m) \in Seq(Messages)
        BY <1>3
      <4>4. got' \in [Cids -> Seq(Messages)]
        BY <1>3, <4>2, <4>3
      <4>5. in_chunk_size' \in InSizes
        <5>1. CASE at.cid # Control
          BY <1>3, <3>2, <3>4, <5>1 DEF SizeAfter
        <5>2. CASE at.cid = Control
          <6>1. 1 \in 1 .. Len(body)
            BY <1>1, <1>2, <2>6, LenProperties
          <6>2. PICK v \in ChunkSizes \cup Bytes : v = body[1].v
            <7>1. body[1] \in Units
              BY <6>1, ElementOfSeq
            <7> QED
              BY <7>1 DEF Units
          <6>3. in_chunk_size' = v /\ ~(v < MinSize)
            BY <3>2, <3>4, <5>2, <6>2 DEF SizeAfter, TooSmall
          <6>4. v # 0
            BY <6>3, Numbers
          <6> QED
            BY <6>3, <6>4 DEF Sizes, InSizes
        <5> QED
          BY <5>1, <5>2
      <4> QED
        BY <1>1, <1>5, <3>1, <3>2, <3>4, <4>4, <4>5, InsideStep
    <3> QED
      BY <3>3, <3>4
  <2> QED
    BY <2>5, <2>6
<1> QED
  BY <1>6, <1>7

LEMMA FailuresStep == ASSUME IInv, GrowFails \/ LoseSync PROVE IInv'
<1>1. /\ mode # "refused" /\ UNCHANGED <<wire, server, at, chunk, in_chunk_size, got>>
      /\ mode' \in {"basic", "lost", "dead"}
  BY DEF GrowFails, LoseSync
<1>2. wire' \in Seq(Items)
  BY <1>1 DEF IInv, TypeOK
<1>3. failed' \in BOOLEAN
  <2>1. failed \in BOOLEAN
    BY DEF IInv, TypeOK
  <2>2. CASE GrowFails
    BY <2>2 DEF GrowFails
  <2>3. CASE LoseSync
    BY <2>1, <2>3 DEF LoseSync
  <2> QED
    BY <2>2, <2>3
<1> QED
  BY <1>1, <1>2, <1>3, LeavesStep

LEMMA Steps == IInv /\ [Next]_vars => IInv'
<1> SUFFICES ASSUME IInv, [Next]_vars PROVE IInv'
  OBVIOUS
<1>1. CASE UNCHANGED vars
  <2>1. UNCHANGED <<wire, size, out, nsent, sent, conforming, mode, at, chunk, in_chunk_size,
                    got, failed>>
    BY <1>1 DEF vars, server
  <2> QED
    BY <2>1 DEF IInv, TypeOK, Inside
<1>2. CASE Next
  BY <1>2, ServerStartsStep, ServerContinuesStep, ServerErrsStep, ReadBasicStep, ReadHeaderStep,
     ReadExtStep, ReadEmptyStep, ReadPayloadStep, FailuresStep DEF Next, Read
<1> QED
  BY <1>1, <1>2

(* The reader is inside a chunk only of a stream with a message under      *)
(* assembly, and no payload under assembly is as long as its message.      *)
THEOREM Invariance == Spec => []IInv
  BY Begins, Steps, PTL DEF Spec

(* Types, whatever the server does.                                        *)
THEOREM TypeCorrect == Spec => []TypeOK
<1>1. IInv => TypeOK
  BY DEF IInv
<1> QED
  BY <1>1, Invariance, PTL

-----------------------------------------------------------------------------
(* The server that keeps to the protocol. *)

Servers == [out : [Cids -> Outs], size : Sizes, sent : [Cids -> Seq(Messages)]]
Now == [out |-> out, size |-> size, sent |-> sent]

(* A chunk: n bytes more of the message o, behind a basic header, a        *)
(* message header unless fmt is 3, and an extended timestamp if there is   *)
(* one.                                                                    *)
Pieces == [c : Cids, fmt : 0..3, first : BOOLEAN, o : Outs, n : Nat]

HeadLen(k) == IF k.fmt = 3 THEN 1 ELSE 2
ExtLen(k) == IF k.o.ext /\ (k.first \/ RepeatsExt) THEN ExtSize ELSE 0
End(b, k) == b + HeadLen(k) + ExtLen(k) + k.n

Laid(s, b, k) ==
  /\ s[b + 1] = [t |-> "basic", cid |-> k.c, fmt |-> k.fmt]
  /\ k.fmt # 3 =>
       s[b + 2] = [t |-> "header", field |-> Least(k.o.delta, Threshold), len |-> Len(k.o.body)]
  /\ \A i \in 1 .. ExtLen(k) : s[b + HeadLen(k) + i] = [t |-> "ext", k |-> i, ts |-> k.o.ts]
  /\ \A i \in 1 .. k.n : s[b + HeadLen(k) + ExtLen(k) + i] = k.o.body[k.o.put + i]

Whole(k) == k.o.put + k.n = Len(k.o.body)
After(k) == [k.o EXCEPT !.put = k.o.put + k.n]
Told(k) == [ts |-> k.o.ts, body |-> k.o.body]
Going(o) == o.put < Len(o.body)

(* The message of a server that keeps to the protocol.                     *)
Proper(c, o) ==
  /\ Sane(c, o)
  /\ o.ext <=> o.delta >= Threshold
  /\ o.ext => o.ts = o.delta
  /\ c = Control => \A i \in DOMAIN o.body : o.body[i].v >= MinSize
  /\ Going(o) => o.used

(* What a first chunk has to do with the message before it, o.             *)
Opens(k, o) ==
  /\ ~Going(o)
  /\ k.o.put = 0
  /\ k.fmt = 0 \/ o.used \/ (k.fmt = 1 /\ k.c = Control)
  /\ k.fmt # 0 => k.o.delta < Threshold
  /\ k.fmt \in {2, 3} => Len(k.o.body) = Len(o.body)
  /\ k.fmt = 3 => k.o.delta = o.delta
  /\ k.o.ts = IF k.fmt = 0 THEN k.o.delta ELSE (o.ts + k.o.delta) % TimeMod

(* The server was s before the chunk and is t after it.                    *)
Follows(s, k, t) ==
  /\ Proper(k.c, k.o) /\ k.o.used
  /\ k.c = Control => k.o.body # << >>
  /\ IF k.first THEN Opens(k, s.out[k.c]) ELSE k.fmt = 3 /\ Going(k.o) /\ k.o = s.out[k.c]
  /\ k.n = Least(s.size, Len(k.o.body) - k.o.put)
  /\ t.out = [s.out EXCEPT ![k.c] = After(k)]
  /\ t.sent = IF Whole(k) /\ k.o.body # << >> THEN [s.sent EXCEPT ![k.c] = Append(@, Told(k))]
                                              ELSE s.sent
  /\ t.size = IF Whole(k) /\ k.c = Control THEN k.o.body[1].v ELSE s.size

(* At b in what was sent lies the chunk k.                                 *)
Chunk(s, places, was, b, k) ==
  /\ End(b, k) \in places
  /\ Laid(s, b, k)
  /\ Follows(was[b], k, was[End(b, k)])

Prefix(p, q) == Len(p) <= Len(q) /\ \A i \in 1 .. Len(p) : p[i] = q[i]

(* s was sent, places are the places between chunks, was the server there.    *)
Story(s, places, was) ==
  /\ s \in Seq(Items) /\ places \subseteq 0 .. Len(s) /\ was \in [places -> Servers]
  /\ Len(s) \in places /\ was[Len(s)] = Now
  /\ \A b \in places, c \in Cids : Proper(c, was[b].out[c]) /\ Prefix(was[b].sent[c], sent[c])
  /\ \A b \in places \ {Len(s)} : \E k \in Pieces : Chunk(s, places, was, b, k)

(* q is s without its first p.                                             *)
Behind(q, s, p) ==
  /\ p \in 0 .. Len(s)
  /\ Len(q) = Len(s) - p
  /\ \A i \in 1 .. Len(q) : q[i] = s[p + i]

(* The reader has taken p of it.                                           *)
Taken(s, p) == Behind(wire, s, p)

(* What the reader keeps of a stream, between two chunks of it ...         *)
Synced(ch, o) ==
  /\ ch.seen = o.used /\ ch.ext = o.ext
  /\ ~o.ext => ch.delta = o.delta
  /\ ch.ts = o.ts /\ ch.len = Len(o.body)
  /\ ch.msg = Going(o)
  /\ ch.body = IF Going(o) THEN SubSeq(o.body, 1, o.put) ELSE << >>

(* ... and with f of the chunk k taken: before the header of a first chunk *)
(* is read, o being the last message, before the extended timestamp, and   *)
(* before the payload.                                                     *)
AtHeader(k, f, ch, o) ==
  /\ f = 1 /\ k.fmt # 3 /\ k.first
  /\ ch.msg /\ ch.ts = o.ts /\ ch.len = Len(o.body) /\ ch.body = << >>

AtExt(k, f, ch) ==
  /\ f = HeadLen(k)
  /\ k.o.ext /\ ch.ext
  /\ ch.msg /\ ch.len = Len(k.o.body) /\ ch.body = SubSeq(k.o.body, 1, k.o.put)
  /\ ~k.first => ch.ts = k.o.ts

AtPayload(k, f, ch) ==
  /\ f = HeadLen(k) + ExtLen(k)
  /\ ch.seen /\ ch.ext = k.o.ext
  /\ ~k.o.ext => ch.delta = k.o.delta
  /\ ch.ts = k.o.ts /\ ch.len = Len(k.o.body)
  /\ ch.msg /\ ch.body = SubSeq(k.o.body, 1, k.o.put)

(* Inside the chunk k, before which the server was w.                      *)
Within(w, k, f) ==
  /\ at = [cid |-> k.c, fmt |-> k.fmt, first |-> k.first]
  /\ in_chunk_size = w.size /\ got = w.sent
  /\ \A c \in Cids \ {k.c} : Synced(chunk[c], w.out[c])
  /\ mode = "header" => AtHeader(k, f, chunk[k.c], w.out[k.c])
  /\ mode = "ext" => AtExt(k, f, chunk[k.c])
  /\ mode = "payload" => AtPayload(k, f, chunk[k.c])

Between(w) ==
  /\ in_chunk_size = w.size /\ got = w.sent
  /\ \A c \in Cids : Synced(chunk[c], w.out[c])

Inner(s, places, was, p) ==
  \E b \in places \ {Len(s)}, k \in Pieces, f \in Nat :
    /\ Chunk(s, places, was, b, k)
    /\ p = b + f
    /\ Within(was[b], k, f)

Here(s, places, was, p) ==
  /\ mode \in {"basic", "dead"} \cup Waits
  /\ mode = "basic" => p \in places /\ Between(was[p])
  /\ mode \in Waits => Inner(s, places, was, p)

Understood ==
  \E s, places, was, p : Story(s, places, was) /\ Taken(s, p) /\ Here(s, places, was, p)

Sync == Undisturbed => Understood

-----------------------------------------------------------------------------
(* Types.                                                                  *)

LEMMA OutIs ==
  ASSUME NEW o \in Outs
  PROVE  /\ o.used \in BOOLEAN /\ o.ext \in BOOLEAN /\ o.delta \in Nat /\ o.put \in Nat
         /\ o.ts \in 0 .. TimeMod - 1 /\ o.ts \in Nat /\ o.ts < TimeMod
         /\ o.body \in Seq(Units) /\ Len(o.body) \in Nat /\ DOMAIN o.body = 1 .. Len(o.body)
<1>1. o.ts \in 0 .. TimeMod - 1 /\ o.body \in Seq(Units)
  BY DEF Outs
<1>2. o.ts \in Nat /\ o.ts < TimeMod
  BY <1>1, Numbers
<1> QED
  BY <1>1, <1>2, LenProperties DEF Outs

LEMMA PieceIs ==
  ASSUME NEW k \in Pieces
  PROVE  /\ k.c \in Cids /\ k.fmt \in 0..3 /\ k.first \in BOOLEAN /\ k.o \in Outs /\ k.n \in Nat
         /\ HeadLen(k) \in 1..2 /\ ExtLen(k) \in {0, ExtSize} /\ ExtLen(k) \in Nat
<1>1. k.c \in Cids /\ k.fmt \in 0..3 /\ k.first \in BOOLEAN /\ k.o \in Outs /\ k.n \in Nat
  BY DEF Pieces
<1>2. HeadLen(k) \in 1..2
  BY DEF HeadLen
<1>3. ExtLen(k) \in {0, ExtSize}
  BY DEF ExtLen
<1> QED
  BY <1>1, <1>2, <1>3, Numbers

LEMMA ChunkIs ==
  ASSUME NEW x \in Chunks
  PROVE  /\ x.seen \in BOOLEAN /\ x.ext \in BOOLEAN /\ x.msg \in BOOLEAN
         /\ x.delta \in Nat /\ x.ts \in Nat /\ x.len \in Nat /\ x.body \in Seq(Units)
  BY DEF Chunks

LEMMA ServerIs ==
  ASSUME NEW w \in Servers
  PROVE  w.out \in [Cids -> Outs] /\ w.size \in Sizes /\ w.size \in Nat \ {0}
         /\ w.sent \in [Cids -> Seq(Messages)]
  BY Numbers DEF Servers

LEMMA NowIs == IInv => Now \in Servers
  BY DEF IInv, TypeOK, Now, Servers, Outs, Sizes, InSizes

(* What remains of a message that is going, and what a chunk takes of it.  *)
LEMMA Takes ==
  ASSUME NEW o \in Outs, NEW m \in Nat \ {0}, o.put <= Len(o.body),
         NEW n, n = Least(m, Len(o.body) - o.put)
  PROVE  /\ n \in Nat /\ o.put + n <= Len(o.body)
         /\ Going(o) => n # 0
         /\ ~Going(o) => n = 0 /\ o.put = Len(o.body)
<1>1. o.put \in Nat /\ Len(o.body) \in Nat /\ o.put <= Len(o.body)
  BY OutIs DEF Sane
<1> QED
  BY <1>1 DEF Least, Going

(* The message after a chunk of it.                                        *)
LEMMA AfterIs ==
  ASSUME NEW k \in Pieces, k.o.put + k.n <= Len(k.o.body), Proper(k.c, k.o), k.o.used
  PROVE  /\ After(k) \in Outs
         /\ After(k).used /\ After(k).ext = k.o.ext /\ After(k).delta = k.o.delta
         /\ After(k).ts = k.o.ts /\ After(k).body = k.o.body /\ After(k).put = k.o.put + k.n
         /\ Going(After(k)) <=> ~Whole(k)
         /\ Proper(k.c, After(k))
<1>1. PICK o \in Outs : o = k.o
  BY PieceIs
<1>2. PICK n \in Nat : n = o.put + k.n /\ n <= Len(o.body)
  BY <1>1, OutIs, PieceIs
<1>3. After(k) = [o EXCEPT !.put = n]
  BY <1>1, <1>2 DEF After
<1>4. PICK x \in Outs : x = After(k)
  BY <1>3 DEF Outs
<1>5. /\ x.used = o.used /\ x.ext = o.ext /\ x.delta = o.delta /\ x.ts = o.ts /\ x.body = o.body
      /\ x.put = n
  BY <1>3, <1>4 DEF Outs
<1>6. Len(o.body) \in Nat
  BY OutIs
<1>7. Going(x) <=> ~Whole(k)
  BY <1>1, <1>2, <1>5, <1>6 DEF Going, Whole
<1>8. Proper(k.c, x)
  BY <1>1, <1>2, <1>5 DEF Proper, Sane, Going
<1> QED
  BY <1>1, <1>2, <1>4, <1>5, <1>7, <1>8

-----------------------------------------------------------------------------
(* Sequences.                                                              *)

(* w is q, h and u end to end.                                             *)
Joins(w, q, h, u) ==
  /\ Len(w) = Len(q) + Len(h) + Len(u)
  /\ \A i \in 1 .. Len(q) : w[i] = q[i]
  /\ \A i \in 1 .. Len(h) : w[Len(q) + i] = h[i]
  /\ \A i \in 1 .. Len(u) : w[Len(q) + Len(h) + i] = u[i]

LEMMA Joined ==
  ASSUME NEW S, NEW q \in Seq(S), NEW h \in Seq(S), NEW u \in Seq(S)
  PROVE  q \o h \o u \in Seq(S) /\ Joins(q \o h \o u, q, h, u)
<1>1. PICK a, b, d \in Nat : a = Len(q) /\ b = Len(h) /\ d = Len(u)
  BY LenProperties
<1>2. PICK w \in Seq(S) :
        /\ w = q \o h /\ Len(w) = a + b
        /\ \A i \in 1 .. a + b : w[i] = IF i <= a THEN q[i] ELSE h[i - a]
  <2>1. /\ q \o h \in Seq(S) /\ Len(q \o h) = Len(q) + Len(h)
        /\ \A i \in 1 .. Len(q) + Len(h) : (q \o h)[i] = IF i <= Len(q) THEN q[i] ELSE h[i - Len(q)]
    BY ConcatProperties
  <2> QED
    BY <1>1, <2>1, Zenon
<1>3. PICK x \in Seq(S) :
        /\ x = w \o u /\ Len(x) = a + b + d
        /\ \A i \in 1 .. a + b + d : x[i] = IF i <= a + b THEN w[i] ELSE u[i - (a + b)]
  <2>1. /\ w \o u \in Seq(S) /\ Len(w \o u) = Len(w) + Len(u)
        /\ \A i \in 1 .. Len(w) + Len(u) : (w \o u)[i] = IF i <= Len(w) THEN w[i] ELSE u[i - Len(w)]
    BY ConcatProperties
  <2>2. Len(w) = a + b /\ Len(u) = d /\ q \o h \o u = w \o u
    BY <1>1, <1>2
  <2>3. /\ w \o u \in Seq(S) /\ Len(w \o u) = a + b + d
        /\ \A i \in 1 .. a + b + d : (w \o u)[i] = IF i <= a + b THEN w[i] ELSE u[i - (a + b)]
    BY <2>1, <2>2, Zenon
  <2> QED
    BY <2>3, Zenon
<1>4. ASSUME NEW i \in 1..a PROVE x[i] = q[i]
  <2>1. i \in 1 .. a + b + d /\ i \in 1 .. a + b /\ i <= a + b /\ i <= a
    OBVIOUS
  <2>2. x[i] = w[i]
    BY <1>3, <2>1, Zenon
  <2>3. w[i] = q[i]
    BY <1>2, <2>1, Zenon
  <2> QED
    BY <2>2, <2>3, Zenon
<1>5. ASSUME NEW i \in 1..b PROVE x[a + i] = h[i]
  <2> DEFINE j == a + i
  <2>1. j \in 1 .. a + b + d /\ j \in 1 .. a + b /\ j <= a + b /\ ~(j <= a) /\ j - a = i
    OBVIOUS
  <2> HIDE DEF j
  <2>2. x[j] = w[j]
    BY <1>3, <2>1, Zenon
  <2>3. w[j] = h[j - a]
    BY <1>2, <2>1, Zenon
  <2>4. x[j] = h[i]
    BY <2>1, <2>2, <2>3, Zenon
  <2> QED
    BY <2>4 DEF j
<1>6. ASSUME NEW i \in 1..d PROVE x[a + b + i] = u[i]
  <2> DEFINE j == a + b + i
  <2>1. j \in 1 .. a + b + d /\ ~(j <= a + b) /\ j - (a + b) = i
    OBVIOUS
  <2> HIDE DEF j
  <2>2. x[j] = u[j - (a + b)]
    BY <1>3, <2>1, Zenon
  <2>3. x[j] = u[i]
    BY <2>1, <2>2, Zenon
  <2> QED
    BY <2>3 DEF j
<1>7. x = q \o h \o u
  BY <1>2, <1>3
<1>8. Joins(x, q, h, u)
  BY <1>1, <1>3, <1>4, <1>5, <1>6, ZenonT(30) DEF Joins
<1> QED
  BY <1>7, <1>8

(* The reader takes m more.                                                *)
LEMMA TakesMore ==
  ASSUME NEW s \in Seq(Items), NEW p, Taken(s, p), wire \in Seq(Items), NEW m \in Nat,
         m <= Len(wire), wire' = SubSeq(wire, m + 1, Len(wire))
  PROVE  Taken(s, p + m)'
<1>1. PICK a, d \in Nat : a = Len(wire) /\ d = Len(s) /\ p \in Nat /\ p <= d /\ a = d - p /\ m <= a
  <2>1. PICK a, d \in Nat : a = Len(wire) /\ d = Len(s)
    BY LenProperties
  <2>2. p \in 0..d /\ a = d - p /\ m <= a
    BY <2>1 DEF Taken, Behind
  <2>3. p \in Nat /\ p <= d
    BY <2>2
  <2> QED
    BY <2>1, <2>2, <2>3
<1>2. \A i \in m + 1 .. a : wire[i] \in Items
  <2>1. \A i \in m + 1 .. a : i \in 1 .. a
    OBVIOUS
  <2> QED
    BY <1>1, <2>1, ElementOfSeq
<1>3. /\ Len(wire') = IF m + 1 <= a THEN a - (m + 1) + 1 ELSE 0
      /\ \A i \in 1 .. a - (m + 1) + 1 : wire'[i] = wire[m + 1 + i - 1]
  <2>1. m + 1 \in Int /\ a \in Int
    OBVIOUS
  <2> QED
    BY <1>1, <1>2, <2>1, SubSeqProperties
<1>4. Len(wire') = a - m
  <2>1. (IF m + 1 <= a THEN a - (m + 1) + 1 ELSE 0) = a - m
    BY <1>1
  <2> QED
    BY <1>3, <2>1, Zenon
<1>5. \A i \in 1 .. a - m : wire'[i] = wire[m + i]
  <2>1. \A i \in 1 .. a - m : i \in 1 .. a - (m + 1) + 1 /\ m + 1 + i - 1 = m + i
    BY <1>1
  <2> QED
    BY <1>3, <2>1
<1>6. \A i \in 1 .. a - m : wire'[i] = s[p + m + i]
  <2>1. \A i \in 1 .. a - m : m + i \in 1..a /\ p + (m + i) = p + m + i
    BY <1>1
  <2>2. \A i \in 1..a : wire[i] = s[p + i]
    BY <1>1 DEF Taken, Behind
  <2> QED
    BY <1>5, <2>1, <2>2
<1>7. p + m \in 0..d /\ a - m = d - (p + m)
  BY <1>1
<1> QED
  BY <1>1, <1>4, <1>6, <1>7 DEF Taken, Behind

LEMMA TakesOne ==
  ASSUME NEW s \in Seq(Items), NEW p, Taken(s, p), wire \in Seq(Items), wire # << >>,
         wire' = Tail(wire)
  PROVE  Taken(s, p + 1)'
<1>1. wire' = SubSeq(wire, 1 + 1, Len(wire))
  <2>1. Tail(wire) = SubSeq(wire, 2, Len(wire)) /\ 1 + 1 = 2
    BY TailIsSubSeq
  <2> QED
    BY <2>1
<1>2. 1 <= Len(wire)
  BY EmptySeq
<1> QED
  BY <1>1, <1>2, TakesMore

-----------------------------------------------------------------------------
(* A chunk in the story.                                                   *)

LEMMA StoryStays ==
  ASSUME NEW s, NEW places, NEW was, Story(s, places, was), UNCHANGED server
  PROVE  Story(s, places, was)'
<1>1. UNCHANGED <<size, out, sent>>
  BY DEF server
<1> QED
  BY <1>1 DEF Story, Now

LEMMA InStory ==
  ASSUME NEW s, NEW places, NEW was, Story(s, places, was), NEW b \in places \ {Len(s)},
         NEW k \in Pieces, Chunk(s, places, was, b, k)
  PROVE  /\ Len(s) \in Nat /\ b \in Nat /\ End(b, k) \in Nat
         /\ b < End(b, k) /\ End(b, k) <= Len(s) /\ End(b, k) \in places
         /\ was[b] \in Servers /\ was[End(b, k)] \in Servers
         /\ \A c \in Cids : Proper(c, was[b].out[c])
         /\ Follows(was[b], k, was[End(b, k)]) /\ Laid(s, b, k)
         /\ Proper(k.c, k.o) /\ k.o.used
         /\ k.o.put + k.n <= Len(k.o.body)
         /\ k.n = Least(was[b].size, Len(k.o.body) - k.o.put)
         /\ ~k.first => k.n # 0
         /\ After(k) \in Outs
<1>1. /\ places \subseteq 0 .. Len(s) /\ End(b, k) \in places /\ was \in [places -> Servers]
      /\ Follows(was[b], k, was[End(b, k)]) /\ Laid(s, b, k)
      /\ \A c \in Cids : Proper(c, was[b].out[c])
  BY DEF Story, Chunk
<1>2. Len(s) \in Nat
  <2>1. s \in Seq(Items)
    BY DEF Story
  <2> QED
    BY <2>1, LenProperties
<1>3. PICK e \in Nat : e = End(b, k) /\ b \in Nat /\ e <= Len(s) /\ b < e
  <2>1. PICK n \in Nat : n = Len(s)
    BY <1>2
  <2>2. b \in 0..n /\ End(b, k) \in 0..n
    BY <1>1, <2>1
  <2>3. HeadLen(k) \in 1..2 /\ ExtLen(k) \in Nat /\ k.n \in Nat
    BY PieceIs
  <2>4. b < b + HeadLen(k) + ExtLen(k) + k.n
    BY <2>2, <2>3
  <2> QED
    BY <2>1, <2>2, <2>4 DEF End
<1>4. was[b] \in Servers /\ was[e] \in Servers /\ was[b].size \in Nat \ {0}
  <2>1. was[b] \in Servers /\ was[e] \in Servers
    BY <1>1, <1>3
  <2> QED
    BY <2>1, ServerIs
<1>5. Proper(k.c, k.o) /\ k.o.used /\ k.n = Least(was[b].size, Len(k.o.body) - k.o.put)
  BY <1>1 DEF Follows
<1>6. k.o \in Outs /\ k.o.put <= Len(k.o.body)
  BY <1>5, PieceIs DEF Proper, Sane
<1>7. /\ k.o.put + k.n <= Len(k.o.body)
      /\ Going(k.o) => k.n # 0
  BY <1>4, <1>5, <1>6, Takes
<1>8. ~k.first => Going(k.o)
  BY <1>1 DEF Follows
<1>9. After(k) \in Outs
  BY <1>5, <1>7, AfterIs
<1> QED
  BY <1>1, <1>2, <1>3, <1>4, <1>5, <1>7, <1>8, <1>9

(* What the reader finds on the wire inside of a chunk.                    *)
LEMMA Sees ==
  ASSUME NEW s \in Seq(Items), NEW p, Taken(s, p), wire \in Seq(Items),
         NEW i \in Nat \ {0}, i <= Len(wire) \/ p + i <= Len(s)
  PROVE  wire[i] = s[p + i] /\ i <= Len(wire)
<1>1. PICK a, d \in Nat : a = Len(wire) /\ d = Len(s)
  BY LenProperties
<1>2. p \in 0..d /\ a = d - p
  BY <1>1 DEF Taken, Behind
<1>3. i \in 1..a
  BY <1>1, <1>2
<1> QED
  BY <1>1, <1>3 DEF Taken, Behind

(* The reader is inside a chunk after a step.                              *)
LEMMA Enters ==
  ASSUME NEW s, NEW places, NEW was, NEW b \in places \ {Len(s)}, NEW k \in Pieces,
         Chunk(s, places, was, b, k), NEW f \in Nat,
         chunk \in [Cids -> Chunks], NEW y, chunk' = [chunk EXCEPT ![k.c] = y],
         at' = [cid |-> k.c, fmt |-> k.fmt, first |-> k.first],
         in_chunk_size' = was[b].size, got' = was[b].sent,
         \A c \in Cids \ {k.c} : Synced(chunk[c], was[b].out[c]),
         \/ mode' = "header" /\ AtHeader(k, f, y, was[b].out[k.c])
         \/ mode' = "ext" /\ AtExt(k, f, y)
         \/ mode' = "payload" /\ AtPayload(k, f, y)
  PROVE  Here(s, places, was, b + f)'
<1>1. k.c \in Cids
  BY PieceIs
<1>2. chunk'[k.c] = y /\ \A c \in Cids \ {k.c} : chunk'[c] = chunk[c]
  BY <1>1
<1>3. Within(was[b], k, f)'
  BY <1>2 DEF Within
<1>4. Inner(s, places, was, b + f)'
  BY <1>3 DEF Inner
<1>5. mode' \in Waits /\ mode' # "basic"
  BY DEF Waits
<1> QED
  BY <1>4, <1>5 DEF Here

-----------------------------------------------------------------------------
(* The reader's steps.                                                     *)

LEMMA ReadBasicKeeps ==
  ASSUME IInv, NEW s, NEW places, NEW was, NEW p,
         Story(s, places, was), Taken(s, p), Here(s, places, was, p),
         NEW c \in Cids, NEW fmt \in 0..3, ReadBasic(c, fmt)
  PROVE  Taken(s, p + 1)' /\ Here(s, places, was, p + 1)'
<1>1. /\ mode = "basic" /\ wire # << >> /\ SubSeq(wire, 1, 1) = Basic(c, fmt)
      /\ wire' = Tail(wire) /\ UNCHANGED <<server, in_chunk_size, got, failed>>
      /\ p \in places /\ Between(was[p])
  BY DEF ReadBasic, Here
<1>2. wire \in Seq(Items) /\ s \in Seq(Items) /\ chunk \in [Cids -> Chunks]
  BY DEF IInv, TypeOK, Chunks, Story
<1>3. Taken(s, p + 1)'
  BY <1>1, <1>2, TakesOne
<1>4. wire[1] = s[p + 1] /\ p # Len(s)
  <2>1. 1 \in Nat \ {0} /\ 1 <= Len(wire)
    BY <1>1, <1>2, EmptySeq
  <2>2. wire[1] = s[p + 1]
    BY <1>2, <2>1, Sees
  <2>3. p # Len(s)
    <3>1. PICK d \in Nat : d = Len(s)
      BY <1>2, LenProperties
    <3>2. Len(wire) = d - p
      BY <3>1 DEF Taken, Behind
    <3> QED
      BY <2>1, <3>1, <3>2
  <2> QED
    BY <2>2, <2>3
<1>5. wire[1] = [t |-> "basic", cid |-> c, fmt |-> fmt]
  <2>1. 1 \in Int /\ \A i \in 1..1 : wire[i] \in Items
    BY <1>1, <1>2, FirstTaken
  <2>2. \A i \in 1 .. 1 - 1 + 1 : SubSeq(wire, 1, 1)[i] = wire[1 + i - 1]
    BY <2>1, SubSeqProperties
  <2>3. 1 \in 1 .. 1 - 1 + 1 /\ 1 + 1 - 1 = 1
    OBVIOUS
  <2>4. SubSeq(wire, 1, 1)[1] = wire[1]
    BY <2>2, <2>3
  <2>5. PICK r : r = [t |-> "basic", cid |-> c, fmt |-> fmt]
    OBVIOUS
  <2>6. SubSeq(wire, 1, 1) = <<r>>
    BY <1>1, <2>5 DEF Basic
  <2>7. <<r>>[1] = r
    OBVIOUS
  <2> QED
    BY <2>4, <2>5, <2>6, <2>7
<1>6. PICK k \in Pieces : Chunk(s, places, was, p, k)
  BY <1>1, <1>4 DEF Story
<1>7. k.c = c /\ k.fmt = fmt
  <2>1. wire[1] = [t |-> "basic", cid |-> k.c, fmt |-> k.fmt]
    BY <1>4, <1>6 DEF Chunk, Laid
  <2>2. wire[1].cid = c /\ wire[1].fmt = fmt
    BY <1>5
  <2> QED
    BY <2>1, <2>2
<1>8. PICK a, o \in Outs : a = was[p].out[c] /\ o = k.o
  <2>1. was[p] \in Servers
    BY <1>1, <1>4, <1>6, InStory
  <2> QED
    BY <2>1, PieceIs, ServerIs
<1>9. PICK x \in Chunks : x = chunk[c] /\ Synced(x, a)
  BY <1>1, <1>2, <1>8 DEF Between
<1>10. /\ Proper(c, a) /\ Proper(c, o)
       /\ IF k.first THEN Opens(k, a) ELSE fmt = 3 /\ Going(o) /\ o = a
  <2>1. Follows(was[p], k, was[End(p, k)]) /\ Proper(c, a)
    BY <1>1, <1>4, <1>6, <1>8, InStory
  <2> QED
    BY <1>7, <1>8, <2>1 DEF Follows
<1>11. k.first = ~x.msg /\ k.first \in BOOLEAN
  BY <1>9, <1>10, PieceIs DEF Synced, Opens
<1>12. ~Refuses(x, c, fmt)
  BY <1>7, <1>9, <1>10 DEF Refuses, Synced, Opens, Proper
<1>13. /\ at' = [cid |-> k.c, fmt |-> k.fmt, first |-> k.first]
       /\ chunk' = [chunk EXCEPT ![c] = IF fmt = 3 THEN OnFmt3(@) ELSE [@ EXCEPT !.msg = TRUE]]
       /\ mode' = IF fmt < 3 THEN "header" ELSE IF x.ext THEN "ext" ELSE "payload"
  BY <1>7, <1>9, <1>11, <1>12 DEF ReadBasic
<1>14. /\ in_chunk_size' = was[p].size /\ got' = was[p].sent
       /\ \A d \in Cids \ {k.c} : Synced(chunk[d], was[p].out[d])
  BY <1>1 DEF Between
<1>15. CASE fmt # 3
  <2>1. PICK y \in Chunks : y = [x EXCEPT !.msg = TRUE]
    BY DEF Chunks
  <2>2. y.msg /\ y.ts = x.ts /\ y.len = x.len /\ y.body = x.body
    BY <2>1 DEF Chunks
  <2>3. k.first /\ ~Going(a)
    BY <1>10, <1>15 DEF Opens
  <2>4. AtHeader(k, 1, y, a)
    BY <1>7, <1>9, <1>15, <2>2, <2>3 DEF AtHeader, Synced
  <2>5. mode' = "header" /\ chunk' = [chunk EXCEPT ![c] = y]
    BY <1>9, <1>13, <1>15, <2>1
  <2>6. Here(s, places, was, p + 1)'
    BY <1>1, <1>2, <1>4, <1>6, <1>7, <1>8, <1>13, <1>14, <2>4, <2>5, Enters
  <2> QED
    BY <1>3, <2>6
<1>16. CASE fmt = 3 /\ x.ext
  <2>1. PICK y \in Chunks : y = [x EXCEPT !.msg = TRUE]
    BY DEF Chunks
  <2>2. y.msg /\ y.ts = x.ts /\ y.len = x.len /\ y.body = x.body /\ y.ext
    BY <1>16, <2>1 DEF Chunks
  <2>3. ~k.first
    <3>1. a.delta \in Nat /\ o.delta \in Nat /\ Threshold \in Nat
      BY OutIs, Numbers
    <3> QED
      BY <1>7, <1>8, <1>9, <1>10, <1>16, <3>1 DEF Opens, Proper, Synced
  <2>4. AtExt(k, 1, y)
    BY <1>7, <1>8, <1>9, <1>10, <1>16, <2>2, <2>3 DEF AtExt, Synced, HeadLen
  <2>5. mode' = "ext" /\ chunk' = [chunk EXCEPT ![c] = y]
    BY <1>9, <1>13, <1>16, <2>1 DEF OnFmt3
  <2>6. Here(s, places, was, p + 1)'
    BY <1>1, <1>2, <1>4, <1>6, <1>7, <1>13, <1>14, <2>4, <2>5, Enters
  <2> QED
    BY <1>3, <2>6
<1>17. CASE fmt = 3 /\ ~x.ext
  <2>1. /\ a.ts \in Nat /\ a.ts < TimeMod /\ a.delta \in Nat /\ o.delta \in Nat
        /\ Threshold \in Nat /\ o.put \in Nat
    BY OutIs, Numbers
  <2>2. PICK n \in Nat : n = IF k.first THEN a.ts + a.delta ELSE a.ts
    BY <2>1
  <2>3. PICK z \in Chunks : z = [x EXCEPT !.ts = n, !.msg = TRUE]
    BY DEF Chunks
  <2>4. /\ z.ts = n /\ z.msg /\ z.ext = x.ext /\ z.delta = x.delta /\ z.len = x.len /\ z.body = x.body
    BY <2>3 DEF Chunks
  <2>5. n % TimeMod = o.ts
    <3>1. CASE k.first
      BY <1>7, <1>8, <1>10, <1>17, <2>2, <3>1 DEF Opens
    <3>2. CASE ~k.first
      <4>1. n \in 0 .. TimeMod - 1 /\ TimeMod \in Nat \ {0}
        BY <2>1, <2>2, <3>2, Numbers
      <4>2. n % TimeMod = n
        BY <4>1
      <4> QED
        BY <1>10, <2>2, <3>2, <4>2
    <3> QED
      BY <3>1, <3>2
  <2>6. PICK y \in Chunks : y = HeaderDone(z)
    BY Finished
  <2>7. /\ y.seen /\ y.ts = o.ts /\ y.msg /\ y.ext = x.ext /\ y.delta = x.delta
        /\ y.len = x.len /\ y.body = x.body
    <3>1. n % TimeMod \in Nat
      BY <2>2, Modulo
    <3>2. y = [z EXCEPT !.seen = TRUE, !.ts = n % TimeMod]
      BY <2>4, <2>6 DEF HeaderDone
    <3> QED
      BY <2>4, <2>5, <3>1, <3>2 DEF Chunks
  <2>8. ~o.ext /\ o.delta = a.delta /\ Len(o.body) = Len(a.body)
    BY <1>7, <1>8, <1>9, <1>10, <1>17, <2>1 DEF Opens, Proper, Synced
  <2>9. y.body = SubSeq(o.body, 1, o.put)
    <3>1. CASE k.first
      <4>1. o.put = 0 /\ x.body = << >>
        BY <1>8, <1>9, <1>10, <3>1 DEF Opens, Synced
      <4>2. SubSeq(o.body, 1, 0) = << >>
        BY SubSeqEmpty
      <4> QED
        BY <2>7, <4>1, <4>2
    <3>2. CASE ~k.first
      BY <1>9, <1>10, <2>7, <3>2 DEF Synced
    <3> QED
      BY <3>1, <3>2
  <2>10. AtPayload(k, 1, y)
    <3>1. HeadLen(k) + ExtLen(k) = 1
      BY <1>7, <1>8, <1>17, <2>8 DEF HeadLen, ExtLen
    <3>2. y.ext = o.ext
      <4>1. x.ext \in BOOLEAN /\ o.ext \in BOOLEAN
        BY ChunkIs, OutIs
      <4> QED
        BY <1>17, <2>7, <2>8, <4>1
    <3>3. y.delta = o.delta
      BY <1>9, <1>17, <2>7, <2>8 DEF Synced
    <3>4. y.len = Len(o.body)
      BY <1>9, <2>7, <2>8 DEF Synced
    <3> QED
      BY <1>8, <2>7, <2>9, <3>1, <3>2, <3>3, <3>4 DEF AtPayload
  <2>11. chunk' = [chunk EXCEPT ![c] = y] /\ mode' = "payload"
    <3>1. OnFmt3(x) = y
      <4>1. n = IF ~x.msg /\ ~x.ext THEN x.ts + x.delta ELSE x.ts
        BY <1>9, <1>11, <1>17, <2>2, <2>8, OutIs DEF Synced
      <4> QED
        BY <1>17, <2>3, <2>6, <4>1 DEF OnFmt3
    <3> QED
      BY <1>9, <1>13, <1>17, <3>1
  <2>12. Here(s, places, was, p + 1)'
    BY <1>1, <1>2, <1>4, <1>6, <1>7, <1>13, <1>14, <2>10, <2>11, Enters
  <2> QED
    BY <1>3, <2>12
<1> QED
  BY <1>15, <1>16, <1>17

(* What is known inside a chunk.                                           *)
LEMMA Unpacked ==
  ASSUME IInv, NEW s, NEW places, NEW was, NEW p,
         Story(s, places, was), Here(s, places, was, p), mode \in Waits
  PROVE  \E b \in places \ {Len(s)}, k \in Pieces, f \in Nat, x \in Chunks, a \in Outs, o \in Outs :
           /\ Chunk(s, places, was, b, k) /\ p = b + f
           /\ at = [cid |-> k.c, fmt |-> k.fmt, first |-> k.first]
           /\ in_chunk_size = was[b].size /\ got = was[b].sent
           /\ \A c \in Cids \ {k.c} : Synced(chunk[c], was[b].out[c])
           /\ x = Ch /\ x = chunk[k.c] /\ a = was[b].out[k.c] /\ o = k.o /\ at.cid = k.c
           /\ mode = "header" => AtHeader(k, f, x, a)
           /\ mode = "ext" => AtExt(k, f, x)
           /\ mode = "payload" => AtPayload(k, f, x)
<1>1. PICK b \in places \ {Len(s)}, k \in Pieces, f \in Nat :
        Chunk(s, places, was, b, k) /\ p = b + f /\ Within(was[b], k, f)
  BY DEF Here, Inner
<1>2. k.c \in Cids /\ k.o \in Outs /\ was[b] \in Servers /\ chunk \in [Cids -> Chunks]
  BY <1>1, PieceIs, InStory DEF IInv, TypeOK, Chunks
<1>3. PICK x \in Chunks, a \in Outs, o \in Outs :
        x = chunk[k.c] /\ a = was[b].out[k.c] /\ o = k.o
  <2>1. chunk[k.c] \in Chunks /\ was[b].out[k.c] \in Outs
    BY <1>2, ServerIs
  <2> QED
    BY <1>2, <2>1
<1>4. at = [cid |-> k.c, fmt |-> k.fmt, first |-> k.first]
  BY <1>1 DEF Within
<1>5. at.cid = k.c
  BY <1>4
<1>6. x = Ch
  BY <1>3, <1>5 DEF Ch
<1>7. /\ in_chunk_size = was[b].size /\ got = was[b].sent
      /\ \A c \in Cids \ {k.c} : Synced(chunk[c], was[b].out[c])
      /\ mode = "header" => AtHeader(k, f, x, a)
      /\ mode = "ext" => AtExt(k, f, x)
      /\ mode = "payload" => AtPayload(k, f, x)
  BY <1>1, <1>3 DEF Within
<1> QED
  BY <1>1, <1>3, <1>4, <1>5, <1>6, <1>7, Zenon

LEMMA ReadHeaderKeeps ==
  ASSUME IInv, NEW s, NEW places, NEW was, NEW p,
         Story(s, places, was), Taken(s, p), Here(s, places, was, p), ReadHeader
  PROVE  Taken(s, p + 1)' /\ Here(s, places, was, p + 1)'
<1>1. /\ mode = "header" /\ mode \in Waits /\ wire # << >>
      /\ wire' = Tail(wire) /\ UNCHANGED <<server, at, in_chunk_size, got, failed>>
  BY DEF ReadHeader, Waits
<1>2. PICK b \in places \ {Len(s)}, k \in Pieces, f \in Nat, x \in Chunks, a \in Outs, o \in Outs :
        /\ Chunk(s, places, was, b, k) /\ p = b + f
        /\ at = [cid |-> k.c, fmt |-> k.fmt, first |-> k.first]
        /\ in_chunk_size = was[b].size /\ got = was[b].sent
        /\ \A c \in Cids \ {k.c} : Synced(chunk[c], was[b].out[c])
        /\ x = Ch /\ x = chunk[k.c] /\ a = was[b].out[k.c] /\ o = k.o /\ at.cid = k.c
        /\ AtHeader(k, f, x, a)
  BY <1>1, Unpacked
<1>3. wire \in Seq(Items) /\ s \in Seq(Items) /\ chunk \in [Cids -> Chunks]
  BY DEF IInv, TypeOK, Chunks, Story
<1>4. Taken(s, p + 1)'
  BY <1>1, <1>3, TakesOne
<1>5. /\ Laid(s, b, k) /\ Follows(was[b], k, was[End(b, k)]) /\ Proper(k.c, o) /\ b \in Nat
  BY <1>2, InStory
<1>6. k.fmt \in 0..2 /\ k.first /\ f = 1 /\ Opens(k, a)
  BY <1>2, <1>5, PieceIs DEF AtHeader, Follows
<1>7. /\ o.delta \in Nat /\ a.ts \in Nat /\ Threshold \in Nat
      /\ Len(o.body) \in Nat /\ Len(a.body) \in Nat
  BY OutIs, Numbers
<1>8. PICK field \in Nat : field = Least(o.delta, Threshold)
  BY <1>7, LeastIs
<1>9. wire[1] = [t |-> "header", field |-> field, len |-> Len(o.body)]
  <2>1. 1 \in Nat \ {0} /\ 1 <= Len(wire)
    BY <1>1, <1>3, EmptySeq
  <2>2. wire[1] = s[p + 1] /\ p + 1 = b + 2
    BY <1>2, <1>3, <1>5, <1>6, <2>1, Sees
  <2>3. s[b + 2] = [t |-> "header", field |-> field, len |-> Len(o.body)]
    BY <1>2, <1>5, <1>6, <1>8 DEF Laid
  <2> QED
    BY <2>2, <2>3
<1>10. wire[1].field = field /\ wire[1].len = Len(o.body)
  BY <1>9
<1>11. (field >= Threshold) = o.ext /\ (~o.ext => field = o.delta) /\ o.ext \in BOOLEAN
  BY <1>5, <1>7, <1>8, OutIs DEF Least, Proper
<1>12. x.ts = a.ts /\ x.len = Len(a.body) /\ x.body = << >> /\ x.msg
  BY <1>2 DEF AtHeader
<1>13. PICK len \in Nat : len = (IF k.fmt < 2 THEN wire[1].len ELSE x.len) /\ len = Len(o.body)
  <2>1. PICK len \in Nat : len = Len(o.body)
    BY <1>7
  <2>2. CASE k.fmt < 2
    BY <1>10, <2>1, <2>2
  <2>3. CASE ~(k.fmt < 2)
    <3>1. k.fmt = 2
      BY <1>6, <2>3
    <3>2. Len(o.body) = Len(a.body)
      BY <1>2, <1>6, <3>1 DEF Opens
    <3> QED
      BY <1>12, <2>1, <2>3, <3>2
  <2> QED
    BY <2>2, <2>3
<1>14. PICK ts \in Nat :
         /\ ts = IF o.ext THEN x.ts ELSE IF k.fmt = 0 THEN field ELSE x.ts + field
         /\ ~o.ext => ts % TimeMod = o.ts
  <2>1. (IF o.ext THEN x.ts ELSE IF k.fmt = 0 THEN field ELSE x.ts + field) \in Nat
    BY <1>7, <1>12
  <2>2. PICK ts \in Nat : ts = IF o.ext THEN x.ts ELSE IF k.fmt = 0 THEN field ELSE x.ts + field
    BY <2>1
  <2>3. ~o.ext => ts % TimeMod = o.ts
    <3>1. CASE k.fmt = 0 /\ ~o.ext
      <4>1. ts = o.ts
        BY <1>2, <1>6, <1>11, <2>2, <3>1 DEF Opens
      <4>2. o.ts \in 0 .. TimeMod - 1 /\ TimeMod \in Nat \ {0}
        BY OutIs, Numbers
      <4>3. \A n \in 0 .. TimeMod - 1 : n % TimeMod = n
        BY <4>2
      <4> QED
        BY <4>1, <4>2, <4>3
    <3>2. CASE k.fmt # 0 /\ ~o.ext
      BY <1>2, <1>6, <1>11, <1>12, <2>2, <3>2 DEF Opens
    <3> QED
      BY <3>1, <3>2
  <2> QED
    BY <2>2, <2>3
<1>15. PICK ch \in Chunks : ch = [x EXCEPT !.delta = field, !.ext = o.ext, !.ts = ts]
  BY <1>11 DEF Chunks
<1>16. PICK y \in Chunks : y = [ch EXCEPT !.len = len]
  BY DEF Chunks
<1>17. /\ y.delta = field /\ y.ext = o.ext /\ y.ts = ts /\ y.len = len /\ y.msg /\ y.body = << >>
  BY <1>12, <1>15, <1>16 DEF Chunks
<1>18. at.first /\ at.fmt = k.fmt /\ at.cid = k.c /\ k.c \in Cids
  BY <1>2, <1>6, PieceIs
<1>19. /\ mode' = IF o.ext THEN "ext" ELSE "payload"
       /\ chunk' = [chunk EXCEPT ![k.c] = IF o.ext THEN y ELSE HeaderDone(y)]
  <2>1. PICK h \in Items : h = wire[1] /\ h.field = field /\ h.len = Len(o.body)
    BY <1>1, <1>3, <1>10, FirstTaken
  <2>2. o.ext = (h.field >= Threshold)
    BY <1>11, <2>1
  <2>3. ts = IF o.ext THEN x.ts ELSE IF at.fmt = 0 THEN h.field ELSE x.ts + h.field
    BY <1>14, <1>18, <2>1
  <2>4. ch = [x EXCEPT !.delta = h.field, !.ext = o.ext, !.ts = ts]
    BY <1>15, <2>1
  <2>5. len = IF at.fmt < 2 THEN h.len ELSE x.len
    BY <1>10, <1>13, <1>18, <2>1
  <2>6. IF ~at.first /\ len # x.len
        THEN mode' = "refused" /\ chunk' = [chunk EXCEPT ![at.cid] = ch]
        ELSE /\ mode' = IF o.ext THEN "ext" ELSE "payload"
             /\ chunk' = [chunk EXCEPT ![at.cid] =
                  IF o.ext THEN [ch EXCEPT !.len = len] ELSE HeaderDone([ch EXCEPT !.len = len])]
    BY <1>2, <2>1, <2>2, <2>3, <2>4, <2>5 DEF ReadHeader
  <2> QED
    BY <1>16, <1>18, <2>6
<1>20. SubSeq(o.body, 1, o.put) = << >> /\ HeadLen(k) = 2 /\ p + 1 = b + 2
  <2>1. o.put = 0 /\ SubSeq(o.body, 1, 0) = << >>
    BY <1>2, <1>6, SubSeqEmpty DEF Opens
  <2> QED
    BY <1>2, <1>5, <1>6, <2>1 DEF HeadLen
<1>21. /\ at' = [cid |-> k.c, fmt |-> k.fmt, first |-> k.first]
       /\ in_chunk_size' = was[b].size /\ got' = was[b].sent
  BY <1>1, <1>2
<1>22. CASE o.ext
  <2>1. AtExt(k, 2, y)
    BY <1>2, <1>6, <1>13, <1>17, <1>20, <1>22 DEF AtExt
  <2>2. mode' = "ext" /\ chunk' = [chunk EXCEPT ![k.c] = y]
    BY <1>19, <1>22
  <2>3. Here(s, places, was, b + 2)'
    BY <1>2, <1>3, <1>21, <2>1, <2>2, Enters
  <2> QED
    BY <1>4, <1>20, <2>3
<1>23. CASE ~o.ext
  <2>1. PICK z \in Chunks : z = HeaderDone(y)
    BY Finished
  <2>2. /\ z.seen /\ z.ts = o.ts /\ z.msg /\ z.ext = y.ext /\ z.delta = y.delta
        /\ z.len = y.len /\ z.body = y.body
    <3>1. z = [y EXCEPT !.seen = TRUE, !.ts = ts % TimeMod]
      BY <1>17, <2>1 DEF HeaderDone
    <3> QED
      BY <1>14, <1>17, <1>23, <3>1 DEF Chunks
  <2>3. ExtLen(k) = 0
    BY <1>2, <1>23 DEF ExtLen
  <2>4. AtPayload(k, 2, z)
    <3>1. HeadLen(k) + ExtLen(k) = 2
      BY <1>20, <2>3
    <3>2. z.ext = o.ext /\ z.delta = o.delta /\ z.len = Len(o.body)
      BY <1>11, <1>13, <1>17, <1>23, <2>2
    <3>3. z.seen /\ z.msg /\ z.ts = o.ts /\ z.body = SubSeq(o.body, 1, o.put)
      BY <1>17, <1>20, <2>2
    <3> QED
      BY <1>2, <3>1, <3>2, <3>3 DEF AtPayload
  <2>5. mode' = "payload" /\ chunk' = [chunk EXCEPT ![k.c] = z]
    BY <1>19, <1>23, <2>1
  <2>6. Here(s, places, was, b + 2)'
    BY <1>2, <1>3, <1>21, <2>4, <2>5, Enters
  <2> QED
    BY <1>4, <1>20, <2>6
<1> QED
  BY <1>22, <1>23

(* The first n of a sequence.                                              *)
LEMMA Front ==
  ASSUME NEW S, NEW q \in Seq(S), NEW n \in Nat, n <= Len(q)
  PROVE  /\ SubSeq(q, 1, n) \in Seq(S) /\ Len(SubSeq(q, 1, n)) = n
         /\ \A i \in 1..n : SubSeq(q, 1, n)[i] = q[i]
<1>1. \A i \in 1..n : q[i] \in S
  <2>1. PICK d \in Nat : d = Len(q)
    BY LenProperties
  <2>2. \A i \in 1..n : i \in 1..d
    BY <2>1
  <2> QED
    BY <2>1, <2>2, ElementOfSeq
<1>2. /\ SubSeq(q, 1, n) \in Seq(S) /\ Len(SubSeq(q, 1, n)) = IF 1 <= n THEN n - 1 + 1 ELSE 0
      /\ \A i \in 1 .. n - 1 + 1 : SubSeq(q, 1, n)[i] = q[1 + i - 1]
  BY <1>1, SubSeqProperties
<1>3. (IF 1 <= n THEN n - 1 + 1 ELSE 0) = n
  OBVIOUS
<1>4. \A i \in 1..n : i \in 1 .. n - 1 + 1 /\ 1 + i - 1 = i
  OBVIOUS
<1>5. \A i \in 1..n : SubSeq(q, 1, n)[i] = q[i]
  BY <1>2, <1>4
<1>6. Len(SubSeq(q, 1, n)) = n
  BY <1>2, <1>3
<1> QED
  BY <1>2, <1>5, <1>6

(* A timestamp is read as itself, and payload is not taken for one.        *)
LEMMA ExtSeen ==
  ASSUME NEW ts \in 0 .. TimeMod - 1, wire \in Seq(Items), ExtSize <= Len(wire)
  PROVE  /\ (\A i \in 1..ExtSize : wire[i] = [t |-> "ext", k |-> i, ts |-> ts]) => IsExt(ts)
         /\ wire[1].t # "ext" => ~IsExt(ts)
<1>1. PICK u \in Seq(Items) : /\ u = SubSeq(wire, 1, ExtSize) /\ Len(u) = ExtSize
                              /\ \A i \in 1..ExtSize : u[i] = wire[i]
  <2>1. /\ SubSeq(wire, 1, ExtSize) \in Seq(Items) /\ Len(SubSeq(wire, 1, ExtSize)) = ExtSize
        /\ \A i \in 1..ExtSize : SubSeq(wire, 1, ExtSize)[i] = wire[i]
    BY Front, Numbers
  <2> QED
    BY <2>1, Zenon
<1>3. Ext(ts) \in Seq(Items) /\ Len(Ext(ts)) = ExtSize
  <2>1. Ext(ts) \in [1..ExtSize -> Items]
    <3>1. \A k \in 1..ExtSize : [t |-> "ext", k |-> k, ts |-> ts] \in Items
      BY DEF Items
    <3> QED
      BY <3>1 DEF Ext
  <2>2. Ext(ts) \in Seq(Items)
    BY <2>1, SeqDef, Numbers
  <2>3. DOMAIN Ext(ts) = 1..ExtSize
    BY DEF Ext
  <2> QED
    BY <2>2, <2>3, LenProperties, Numbers
<1>4. \A i \in 1..ExtSize : Ext(ts)[i] = [t |-> "ext", k |-> i, ts |-> ts]
  BY DEF Ext
<1>5. ASSUME \A i \in 1..ExtSize : wire[i] = [t |-> "ext", k |-> i, ts |-> ts]
      PROVE  IsExt(ts)
  <2>1. \A i \in 1 .. Len(u) : u[i] = Ext(ts)[i]
    BY <1>1, <1>4, <1>5
  <2>2. u = Ext(ts)
    BY <1>1, <1>3, <2>1, SeqEqual
  <2> QED
    BY <1>1, <2>2 DEF IsExt
<1>6. ASSUME IsExt(ts) PROVE wire[1].t = "ext"
  <2>1. 1 \in 1..ExtSize
    BY Numbers
  <2>2. wire[1] = [t |-> "ext", k |-> 1, ts |-> ts]
    BY <1>1, <1>4, <1>6, <2>1 DEF IsExt
  <2> QED
    BY <2>2
<1> QED
  BY <1>5, <1>6

LEMMA ReadExtKeeps ==
  ASSUME IInv, Unmistakable, NEW s, NEW places, NEW was, NEW p,
         Story(s, places, was), Taken(s, p), Here(s, places, was, p), ReadExt
  PROVE  \E q : Taken(s, q)' /\ Here(s, places, was, q)'
<1>1. /\ mode = "ext" /\ mode \in Waits /\ ExtSize <= Len(wire)
      /\ UNCHANGED <<server, at, in_chunk_size, got, failed>>
  <2>1. Len(wire) >= ExtSize
    BY DEF ReadExt, ExtThere
  <2>2. Len(wire) \in Nat /\ ExtSize \in Nat
    BY LenProperties, Numbers DEF IInv, TypeOK
  <2> QED
    BY <2>1, <2>2 DEF ReadExt, Waits
<1>2. PICK b \in places \ {Len(s)}, k \in Pieces, f \in Nat, x \in Chunks, a \in Outs, o \in Outs :
        /\ Chunk(s, places, was, b, k) /\ p = b + f
        /\ at = [cid |-> k.c, fmt |-> k.fmt, first |-> k.first]
        /\ in_chunk_size = was[b].size /\ got = was[b].sent
        /\ \A c \in Cids \ {k.c} : Synced(chunk[c], was[b].out[c])
        /\ x = Ch /\ x = chunk[k.c] /\ a = was[b].out[k.c] /\ o = k.o /\ at.cid = k.c
        /\ AtExt(k, f, x)
  BY <1>1, Unpacked
<1>3. wire \in Seq(Items) /\ s \in Seq(Items) /\ chunk \in [Cids -> Chunks]
  BY DEF IInv, TypeOK, Chunks, Story
<1>4. /\ Laid(s, b, k) /\ Proper(k.c, o) /\ b \in Nat /\ Len(s) \in Nat /\ End(b, k) <= Len(s)
      /\ End(b, k) \in Nat /\ k.o.put + k.n <= Len(k.o.body) /\ (~k.first => k.n # 0)
  BY <1>2, InStory
<1>5. /\ f = HeadLen(k) /\ o.ext /\ x.ext /\ x.msg /\ x.len = Len(o.body)
      /\ x.body = SubSeq(o.body, 1, o.put) /\ (~k.first => x.ts = o.ts)
  BY <1>2 DEF AtExt
<1>6. /\ o.ts \in 0 .. TimeMod - 1 /\ o.ts \in Nat /\ o.ts % TimeMod = o.ts /\ o.ts > 0
  <2>1. o.ts \in 0 .. TimeMod - 1 /\ o.ts \in Nat /\ TimeMod \in Nat \ {0}
    BY OutIs, Numbers
  <2>2. \A n \in 0 .. TimeMod - 1 : n % TimeMod = n
    BY <2>1
  <2>3. o.ts >= Threshold /\ Threshold \in 1..TimeMod
    BY <1>4, <1>5, ReaderAssumption DEF Proper
  <2>4. o.ts > 0
    BY <2>1, <2>3
  <2> QED
    BY <2>1, <2>2, <2>4
<1>7. at.first = k.first /\ k.first \in BOOLEAN
  BY <1>2, PieceIs
<1>8. HeadLen(k) \in Nat /\ ExtLen(k) \in Nat /\ k.n \in Nat /\ ExtSize \in Nat \ {0}
  BY PieceIs, Numbers
<1>9. PICK z \in Chunks : z = [x EXCEPT !.ts = o.ts]
  BY <1>6 DEF Chunks
<1>10. PICK y \in Chunks : y = HeaderDone(z)
  BY Finished
<1>11. /\ y.seen /\ y.ts = o.ts /\ y.msg /\ y.ext /\ y.len = x.len /\ y.body = x.body
  <2>1. z.ts = o.ts /\ z.msg /\ z.ext /\ z.len = x.len /\ z.body = x.body
    BY <1>5, <1>9 DEF Chunks
  <2>2. y = [z EXCEPT !.seen = TRUE, !.ts = o.ts]
    BY <1>6, <1>10, <2>1 DEF HeaderDone
  <2> QED
    BY <1>5, <2>1, <2>2 DEF Chunks
<1>12. AtPayload(k, HeadLen(k) + ExtLen(k), y)
  <2>1. y.ext = o.ext
    BY <1>5, <1>11, ChunkIs, OutIs
  <2> QED
    BY <1>2, <1>5, <1>11, <2>1 DEF AtPayload
<1>13. HeadLen(k) + ExtLen(k) \in Nat
  BY <1>8
<1>14. mode' = "payload" /\ chunk' = [chunk EXCEPT ![k.c] = y]
         => Here(s, places, was, b + (HeadLen(k) + ExtLen(k)))'
  <2>1. /\ at' = [cid |-> k.c, fmt |-> k.fmt, first |-> k.first]
        /\ in_chunk_size' = was[b].size /\ got' = was[b].sent
    BY <1>1, <1>2
  <2> QED
    BY <1>2, <1>3, <1>12, <1>13, <2>1, Enters
<1>15. CASE k.first \/ RepeatsExt
  <2>1. ExtLen(k) = ExtSize
    BY <1>2, <1>5, <1>15 DEF ExtLen
  <2>2. \A i \in 1..ExtSize : wire[i] = [t |-> "ext", k |-> i, ts |-> o.ts]
    <3> TAKE i \in 1..ExtSize
    <3>1. i \in Nat \ {0} /\ i <= Len(wire)
      <4>1. Len(wire) \in Nat
        BY <1>3, LenProperties
      <4> QED
        BY <1>1, <1>8, <4>1
    <3>2. wire[i] = s[p + i]
      BY <1>3, <3>1, Sees
    <3>3. s[b + HeadLen(k) + i] = [t |-> "ext", k |-> i, ts |-> k.o.ts]
      BY <1>4, <2>1 DEF Laid
    <3> QED
      BY <1>2, <1>5, <3>2, <3>3
  <2>3. IsExt(o.ts)
    BY <1>1, <1>3, <1>6, <2>2, ExtSeen
  <2>4. ~PutsBack
    <3>1. CASE k.first
      BY <1>7, <3>1 DEF PutsBack
    <3>2. CASE ~k.first
      <4>1. Ch.ts = o.ts
        BY <1>2, <1>5, <3>2
      <4> QED
        BY <2>3, <4>1, Zenon DEF PutsBack
    <3> QED
      BY <3>1, <3>2
  <2>5. wire[1].t = "ext" /\ wire[1].ts = o.ts
    <3>1. 1 \in 1..ExtSize
      BY <1>8
    <3>2. wire[1] = [t |-> "ext", k |-> 1, ts |-> o.ts]
      BY <2>2, <3>1
    <3> QED
      BY <3>2
  <2>6. /\ wire' = SubSeq(wire, ExtSize + 1, Len(wire)) /\ mode' = "payload"
        /\ chunk' = [chunk EXCEPT ![k.c] = y]
    BY <1>2, <1>9, <1>10, <2>3, <2>4, <2>5 DEF ReadExt
  <2>7. Taken(s, p + ExtSize)'
    BY <1>1, <1>3, <1>8, <2>6, TakesMore
  <2>8. p + ExtSize = b + (HeadLen(k) + ExtLen(k))
    BY <1>2, <1>4, <1>5, <1>8, <2>1
  <2> QED
    BY <1>14, <2>6, <2>7, <2>8
<1>16. CASE ~k.first /\ ~RepeatsExt
  <2>1. ExtLen(k) = 0
    BY <1>16 DEF ExtLen
  <2>2. wire[1].t = "unit"
    <3>1. 1 \in Nat \ {0} /\ 1 <= Len(wire) /\ 1 \in 1 .. k.n
      <4>1. PICK d \in Nat : d = Len(wire) /\ ExtSize <= d
        BY <1>1, <1>3, LenProperties
      <4>2. 1 <= d /\ 1 <= k.n
        BY <1>4, <1>8, <1>16, <4>1
      <4> QED
        BY <1>8, <4>1, <4>2
    <3>2. wire[1] = s[p + 1]
      BY <1>3, <3>1, Sees
    <3>3. s[b + HeadLen(k) + ExtLen(k) + 1] = k.o.body[k.o.put + 1]
      BY <1>4, <3>1 DEF Laid
    <3>4. wire[1] = o.body[o.put + 1]
      BY <1>2, <1>4, <1>5, <1>8, <2>1, <3>2, <3>3
    <3>5. o.put + 1 \in 1 .. Len(o.body) /\ o.body \in Seq(Units)
      <4>1. PICK d \in Nat : d = Len(o.body) /\ o.put \in Nat /\ o.body \in Seq(Units)
        BY OutIs
      <4>2. o.put + k.n <= d
        BY <1>2, <1>4, <4>1
      <4>3. o.put + 1 \in 1..d
        BY <1>8, <3>1, <4>1, <4>2
      <4> QED
        BY <4>1, <4>3
    <3>6. o.body[o.put + 1] \in Units
      BY <3>5, ElementOfSeq
    <3> QED
      BY <3>4, <3>6 DEF Units
  <2>3. ~IsExt(o.ts)
    BY <1>1, <1>3, <1>6, <2>2, ExtSeen
  <2>4. PutsBack
    <3>1. Ch.ts = o.ts /\ Ch.ts > 0 /\ ~at.first
      BY <1>2, <1>5, <1>6, <1>7, <1>16
    <3>2. ~IsExt(Ch.ts)
      BY <2>3, <3>1, Zenon
    <3>3. ~LooksLike(Ch.ts)
      <4>1. o.ts \notin Bytes
        BY <1>6, <1>16 DEF Unmistakable
      <4> QED
        BY <3>1, <4>1, Zenon DEF LooksLike
    <3> QED
      BY <3>1, <3>2, <3>3, Zenon DEF PutsBack
  <2>5. z = x
    <3>1. o.ts = x.ts /\ [x EXCEPT !.ts = x.ts] = x
      BY <1>5, <1>16 DEF Chunks
    <3> QED
      BY <1>9, <3>1
  <2>6. mode' = "payload" /\ chunk' = [chunk EXCEPT ![k.c] = y] /\ wire' = wire
    BY <1>2, <1>10, <2>4, <2>5 DEF ReadExt
  <2>7. Taken(s, p)'
    BY <2>6 DEF Taken, Behind
  <2>8. p = b + (HeadLen(k) + ExtLen(k))
    BY <1>2, <1>4, <1>5, <1>8, <2>1
  <2> QED
    BY <1>14, <2>6, <2>7, <2>8
<1> QED
  BY <1>15, <1>16

(* The reader is behind the chunk after a step.                            *)
LEMMA Arrives ==
  ASSUME NEW s, NEW places, NEW was, Story(s, places, was), NEW b \in places \ {Len(s)},
         NEW k \in Pieces, Chunk(s, places, was, b, k),
         chunk \in [Cids -> Chunks], NEW y, chunk' = [chunk EXCEPT ![k.c] = y],
         Synced(y, After(k)),
         \A c \in Cids \ {k.c} : Synced(chunk[c], was[b].out[c]),
         mode' = "basic", in_chunk_size' = was[End(b, k)].size, got' = was[End(b, k)].sent
  PROVE  Here(s, places, was, End(b, k))'
<1>1. k.c \in Cids
  BY PieceIs
<1>2. /\ was[b].out \in [Cids -> Outs] /\ End(b, k) \in places
      /\ was[End(b, k)].out = [was[b].out EXCEPT ![k.c] = After(k)]
  <2>1. was[b] \in Servers /\ End(b, k) \in places /\ Follows(was[b], k, was[End(b, k)])
    BY InStory
  <2> QED
    BY <2>1, ServerIs DEF Follows
<1>3. \A c \in Cids : Synced(chunk'[c], was[End(b, k)].out[c])
  <2>1. chunk'[k.c] = y /\ was[End(b, k)].out[k.c] = After(k)
    BY <1>1, <1>2
  <2>2. \A c \in Cids \ {k.c} : chunk'[c] = chunk[c] /\ was[End(b, k)].out[c] = was[b].out[c]
    BY <1>1, <1>2
  <2> QED
    BY <2>1, <2>2
<1>4. Between(was[End(b, k)])'
  BY <1>3 DEF Between
<1> QED
  BY <1>2, <1>4 DEF Here, Waits

LEMMA ReadEmptyKeeps ==
  ASSUME IInv, NEW s, NEW places, NEW was, NEW p,
         Story(s, places, was), Taken(s, p), Here(s, places, was, p), ReadEmpty
  PROVE  Taken(s, p)' /\ Here(s, places, was, p)'
<1>1. /\ mode = "payload" /\ mode \in Waits /\ Ch.len = 0 /\ mode' = "basic"
      /\ UNCHANGED <<wire, server, at, in_chunk_size, got, failed>>
  BY DEF ReadEmpty, Waits
<1>2. PICK b \in places \ {Len(s)}, k \in Pieces, f \in Nat, x \in Chunks, a \in Outs, o \in Outs :
        /\ Chunk(s, places, was, b, k) /\ p = b + f
        /\ at = [cid |-> k.c, fmt |-> k.fmt, first |-> k.first]
        /\ in_chunk_size = was[b].size /\ got = was[b].sent
        /\ \A c \in Cids \ {k.c} : Synced(chunk[c], was[b].out[c])
        /\ x = Ch /\ x = chunk[k.c] /\ a = was[b].out[k.c] /\ o = k.o /\ at.cid = k.c
        /\ AtPayload(k, f, x)
  BY <1>1, Unpacked
<1>3. chunk \in [Cids -> Chunks] /\ Taken(s, p)'
  BY <1>1 DEF IInv, TypeOK, Chunks, Taken, Behind
<1>4. /\ Proper(k.c, k.o) /\ k.o.used /\ b \in Nat /\ k.o.put + k.n <= Len(k.o.body)
      /\ Follows(was[b], k, was[End(b, k)])
  BY <1>2, InStory
<1>5. /\ f = HeadLen(k) + ExtLen(k) /\ x.seen /\ x.ext = o.ext
      /\ (~o.ext => x.delta = o.delta) /\ x.ts = o.ts /\ x.len = Len(o.body)
  BY <1>2 DEF AtPayload
<1>6. Len(o.body) = 0 /\ o.body = << >> /\ o.put = 0 /\ k.n = 0
  <2>1. Len(o.body) = 0 /\ o.body \in Seq(Units) /\ o.put \in Nat /\ k.n \in Nat
    BY <1>1, <1>2, <1>5, OutIs, PieceIs
  <2>2. o.put + k.n <= 0
    BY <1>2, <1>4, <2>1
  <2> QED
    BY <2>1, <2>2, EmptySeq
<1>7. Whole(k)
  BY <1>2, <1>6 DEF Whole
<1>8. End(b, k) = p
  BY <1>2, <1>4, <1>5, <1>6, PieceIs DEF End
<1>9. PICK y \in Chunks : y = Released(x)
  BY Finished
<1>10. /\ y.seen /\ y.ext = x.ext /\ y.delta = x.delta /\ y.ts = x.ts /\ y.len = x.len
       /\ ~y.msg /\ y.body = << >>
  BY <1>5, <1>9 DEF Released, Chunks
<1>11. Synced(y, After(k))
  <2>1. /\ After(k).used /\ After(k).ext = o.ext /\ After(k).delta = o.delta /\ After(k).ts = o.ts
        /\ After(k).body = o.body /\ ~Going(After(k)) /\ After(k) \in Outs
    BY <1>2, <1>4, <1>7, AfterIs
  <2>2. y.seen = After(k).used /\ y.msg = Going(After(k))
    <3>1. y.seen \in BOOLEAN /\ y.msg \in BOOLEAN /\ After(k).used \in BOOLEAN
      BY <2>1, ChunkIs, OutIs
    <3>2. Going(After(k)) \in BOOLEAN
      BY DEF Going
    <3> QED
      BY <1>10, <2>1, <3>1, <3>2
  <2> QED
    BY <1>5, <1>10, <2>1, <2>2 DEF Synced
<1>12. was[End(b, k)].size = was[b].size /\ was[End(b, k)].sent = was[b].sent
  <2>1. k.c # Control /\ k.o.body = << >>
    BY <1>2, <1>4, <1>6 DEF Follows
  <2> QED
    BY <1>4, <2>1 DEF Follows
<1>13. chunk' = [chunk EXCEPT ![k.c] = y]
  BY <1>2, <1>9 DEF ReadEmpty
<1>14. in_chunk_size' = was[End(b, k)].size /\ got' = was[End(b, k)].sent
  BY <1>1, <1>2, <1>12
<1> QED
  BY <1>1, <1>2, <1>3, <1>8, <1>11, <1>13, <1>14, Arrives

LEMMA Continued ==
  ASSUME NEW S, NEW q \in Seq(S), NEW m \in Nat, NEW n \in Nat, m + n <= Len(q),
         NEW u \in Seq(S), Len(u) = n, \A i \in 1..n : u[i] = q[m + i]
  PROVE  SubSeq(q, 1, m) \o u = SubSeq(q, 1, m + n)
<1>1. m + n \in Nat /\ m <= Len(q)
  BY LenProperties
<1>2. PICK h \in Seq(S) : h = SubSeq(q, 1, m) /\ Len(h) = m /\ \A i \in 1..m : h[i] = q[i]
  <2>1. /\ SubSeq(q, 1, m) \in Seq(S) /\ Len(SubSeq(q, 1, m)) = m
        /\ \A i \in 1..m : SubSeq(q, 1, m)[i] = q[i]
    BY <1>1, Front
  <2> QED
    BY <2>1, Zenon
<1>3. PICK w \in Seq(S) : /\ w = SubSeq(q, 1, m + n) /\ Len(w) = m + n
                          /\ \A i \in 1 .. m + n : w[i] = q[i]
  <2>1. /\ SubSeq(q, 1, m + n) \in Seq(S) /\ Len(SubSeq(q, 1, m + n)) = m + n
        /\ \A i \in 1 .. m + n : SubSeq(q, 1, m + n)[i] = q[i]
    BY <1>1, Front
  <2> QED
    BY <2>1, Zenon
<1>4. PICK v \in Seq(S) : /\ v = h \o u /\ Len(v) = m + n
                          /\ \A i \in 1 .. m + n : v[i] = IF i <= m THEN h[i] ELSE u[i - m]
  <2>1. /\ h \o u \in Seq(S) /\ Len(h \o u) = Len(h) + Len(u)
        /\ \A i \in 1 .. Len(h) + Len(u) : (h \o u)[i] = IF i <= Len(h) THEN h[i] ELSE u[i - Len(h)]
    BY ConcatProperties
  <2>2. Len(h) = m /\ Len(u) = n
    BY <1>2
  <2>3. /\ h \o u \in Seq(S) /\ Len(h \o u) = m + n
        /\ \A i \in 1 .. m + n : (h \o u)[i] = IF i <= m THEN h[i] ELSE u[i - m]
    BY <2>1, <2>2, Zenon
  <2> QED
    BY <2>3, Zenon
<1>5. \A i \in 1 .. m + n : v[i] = w[i]
  <2> TAKE i \in 1 .. m + n
  <2>1. CASE i <= m
    <3>1. i \in 1..m
      BY <2>1
    <3> QED
      BY <1>2, <1>3, <1>4, <2>1, <3>1
  <2>2. CASE ~(i <= m)
    <3>1. i - m \in 1..n /\ m + (i - m) = i
      BY <2>2
    <3> QED
      BY <1>3, <1>4, <2>2, <3>1
  <2> QED
    BY <2>1, <2>2
<1>6. v = w
  BY <1>3, <1>4, <1>5, SeqEqual
<1> QED
  BY <1>2, <1>3, <1>4, <1>6

LEMMA ReadPayloadKeeps ==
  ASSUME IInv, NEW s, NEW places, NEW was, NEW p,
         Story(s, places, was), Taken(s, p), Here(s, places, was, p), ReadPayload
  PROVE  \E q : Taken(s, q)' /\ Here(s, places, was, q)'
<1>1. /\ mode = "payload" /\ mode \in Waits /\ Piece <= Len(wire)
      /\ wire' = SubSeq(wire, Piece + 1, Len(wire)) /\ UNCHANGED <<server, at, failed>>
  BY DEF ReadPayload, Waits
<1>2. PICK b \in places \ {Len(s)}, k \in Pieces, f \in Nat, x \in Chunks, a \in Outs, o \in Outs :
        /\ Chunk(s, places, was, b, k) /\ p = b + f
        /\ at = [cid |-> k.c, fmt |-> k.fmt, first |-> k.first]
        /\ in_chunk_size = was[b].size /\ got = was[b].sent
        /\ \A c \in Cids \ {k.c} : Synced(chunk[c], was[b].out[c])
        /\ x = Ch /\ x = chunk[k.c] /\ a = was[b].out[k.c] /\ o = k.o /\ at.cid = k.c
        /\ AtPayload(k, f, x)
  BY <1>1, Unpacked
<1>3. /\ wire \in Seq(Items) /\ s \in Seq(Items) /\ chunk \in [Cids -> Chunks] /\ k.c \in Cids
      /\ got \in [Cids -> Seq(Messages)]
  BY PieceIs DEF IInv, TypeOK, Chunks, Story
<1>4. /\ Laid(s, b, k) /\ Proper(k.c, k.o) /\ k.o.used /\ b \in Nat /\ Len(s) \in Nat
      /\ End(b, k) <= Len(s) /\ End(b, k) \in Nat /\ k.o.put + k.n <= Len(k.o.body)
      /\ k.n = Least(was[b].size, Len(k.o.body) - k.o.put)
      /\ Follows(was[b], k, was[End(b, k)]) /\ was[b] \in Servers
  BY <1>2, InStory
<1>5. /\ f = HeadLen(k) + ExtLen(k) /\ x.seen /\ x.ext = o.ext
      /\ (~o.ext => x.delta = o.delta) /\ x.ts = o.ts /\ x.len = Len(o.body)
      /\ x.msg /\ x.body = SubSeq(o.body, 1, o.put)
  BY <1>2 DEF AtPayload
<1>6. PICK d \in Nat : /\ d = Len(o.body) /\ o.put \in Nat /\ k.n \in Nat /\ o.put + k.n <= d
                       /\ o.body \in Seq(Units)
  BY <1>2, <1>4, OutIs, PieceIs
<1>7. Len(x.body) = o.put
  <2>1. o.put <= d
    BY <1>6
  <2> QED
    BY <1>5, <1>6, <2>1, Front
<1>8. Piece = k.n
  <2>1. Piece = Least(d - o.put, was[b].size)
    BY <1>2, <1>5, <1>6, <1>7 DEF Piece
  <2>2. PICK m \in Nat : m = was[b].size
    BY <1>4, ServerIs
  <2>3. k.n = Least(m, d - o.put)
    BY <1>2, <1>4, <1>6, <2>2
  <2>4. d - o.put \in Nat
    BY <1>6
  <2>5. \A i, j \in Nat : Least(i, j) = Least(j, i)
    BY DEF Least
  <2> QED
    BY <2>1, <2>2, <2>3, <2>4, <2>5
<1>9. k.n <= Len(wire) /\ wire' = SubSeq(wire, k.n + 1, Len(wire))
  BY <1>1, <1>8
<1>10. Taken(s, p + k.n)' /\ p + k.n = End(b, k)
  <2>1. Taken(s, p + k.n)'
    BY <1>3, <1>6, <1>9, TakesMore
  <2>2. HeadLen(k) \in Nat /\ ExtLen(k) \in Nat
    BY PieceIs
  <2> QED
    BY <1>2, <1>4, <1>5, <1>6, <2>1, <2>2 DEF End
<1>11. \A i \in 1 .. k.n : wire[i] = o.body[o.put + i] /\ o.put + i \in 1..d
  <2> TAKE i \in 1 .. k.n
  <2>1. i \in Nat \ {0} /\ i <= Len(wire)
    <3>1. PICK n \in Nat : n = Len(wire)
      BY <1>3, LenProperties
    <3> QED
      BY <1>6, <1>9, <3>1
  <2>2. wire[i] = s[p + i]
    BY <1>3, <2>1, Sees
  <2>3. s[b + HeadLen(k) + ExtLen(k) + i] = k.o.body[k.o.put + i]
    BY <1>4 DEF Laid
  <2>4. p + i = b + HeadLen(k) + ExtLen(k) + i
    BY <1>2, <1>4, <1>5, PieceIs
  <2>5. o.put + i \in 1..d
    BY <1>6, <2>1
  <2> QED
    BY <1>2, <2>2, <2>3, <2>4, <2>5
<1>12. \A i \in 1 .. k.n : wire[i] \in Units /\ wire[i].t = "unit"
  <2> TAKE i \in 1 .. k.n
  <2>1. wire[i] \in Units
    BY <1>6, <1>11, ElementOfSeq
  <2> QED
    BY <2>1 DEF Units
<1>13. PICK u \in Seq(Units) : /\ u = SubSeq(wire, 1, k.n) /\ Len(u) = k.n
                               /\ \A i \in 1 .. k.n : u[i] = o.body[o.put + i]
  <2>1. /\ Len(SubSeq(wire, 1, k.n)) = k.n /\ \A i \in 1 .. k.n : SubSeq(wire, 1, k.n)[i] = wire[i]
    BY <1>3, <1>6, <1>9, Front
  <2>2. SubSeq(wire, 1, k.n) \in Seq(Units)
    <3>1. 1 \in Int /\ k.n \in Int
      BY <1>6
    <3> QED
      BY <1>12, <3>1, SubSeqProperties
  <2>3. \A i \in 1 .. k.n : SubSeq(wire, 1, k.n)[i] = o.body[o.put + i]
    BY <1>11, <2>1
  <2> QED
    BY <2>1, <2>2, <2>3, Zenon
<1>14. PICK body \in Seq(Units) :
         /\ body = Ch.body \o SubSeq(wire, 1, Piece)
         /\ body = SubSeq(o.body, 1, o.put + k.n) /\ Len(body) = o.put + k.n
  <2>1. x.body \o u = SubSeq(o.body, 1, o.put + k.n)
    <3>1. o.put + k.n <= Len(o.body)
      BY <1>6
    <3>2. SubSeq(o.body, 1, o.put) \o u = SubSeq(o.body, 1, o.put + k.n)
      <4>1. PICK q \in Seq(Units), m \in Nat, n \in Nat : q = o.body /\ m = o.put /\ n = k.n
        BY <1>6
      <4>2. m + n <= Len(q) /\ Len(u) = n /\ \A i \in 1..n : u[i] = q[m + i]
        BY <1>13, <3>1, <4>1
      <4>3. SubSeq(q, 1, m) \o u = SubSeq(q, 1, m + n)
        BY <4>2, Continued
      <4> QED
        BY <4>1, <4>3
    <3> QED
      BY <1>5, <3>2
  <2>2. o.put + k.n \in Nat
    BY <1>6
  <2>3. /\ SubSeq(o.body, 1, o.put + k.n) \in Seq(Units)
        /\ Len(SubSeq(o.body, 1, o.put + k.n)) = o.put + k.n
    BY <1>6, <2>2, Front
  <2>4. Ch.body \o SubSeq(wire, 1, Piece) = x.body \o u
    BY <1>2, <1>8, <1>13
  <2> QED
    BY <2>1, <2>3, <2>4, Zenon
<1>15. /\ After(k).used /\ After(k).ext = o.ext /\ After(k).delta = o.delta /\ After(k).ts = o.ts
       /\ After(k).body = o.body /\ After(k).put = o.put + k.n /\ After(k) \in Outs
       /\ Going(After(k)) <=> ~Whole(k)
  BY <1>2, <1>4, AfterIs
<1>16. Whole(k) <=> o.put + k.n = d
  BY <1>2, <1>6 DEF Whole
<1>17. Going(After(k)) \in BOOLEAN /\ After(k).used \in BOOLEAN
  BY <1>15, OutIs DEF Going
<1>18. CASE ~Whole(k)
  <2>1. PICK y \in Chunks : y = [x EXCEPT !.body = body]
    BY DEF Chunks
  <2>2. /\ y.seen = x.seen /\ y.ext = x.ext /\ y.delta = x.delta /\ y.ts = x.ts /\ y.len = x.len
        /\ y.msg = x.msg /\ y.body = body
    BY <2>1 DEF Chunks
  <2>3. Synced(y, After(k))
    <3>1. y.seen = After(k).used /\ y.msg = Going(After(k))
      <4>1. y.seen \in BOOLEAN /\ y.msg \in BOOLEAN
        BY ChunkIs
      <4> QED
        BY <1>5, <1>15, <1>17, <1>18, <2>2, <4>1
    <3> QED
      BY <1>5, <1>14, <1>15, <1>18, <2>2, <3>1 DEF Synced
  <2>4. Len(body) < x.len
    <3>1. PICK e \in Nat : e = o.put + k.n
      BY <1>6
    <3>2. e <= d /\ e # d
      BY <1>6, <1>16, <1>18, <3>1
    <3>3. Len(body) = e /\ x.len = d
      BY <1>5, <1>6, <1>14, <3>1
    <3> QED
      BY <3>2, <3>3
  <2>5. /\ mode' = "basic" /\ UNCHANGED <<got, in_chunk_size>>
        /\ chunk' = [chunk EXCEPT ![at.cid].body = body]
    BY <1>2, <1>8, <1>12, <1>14, <2>4 DEF ReadPayload
  <2>6. chunk' = [chunk EXCEPT ![k.c] = y]
    BY <1>2, <1>3, <2>1, <2>5
  <2>7. was[End(b, k)].size = was[b].size /\ was[End(b, k)].sent = was[b].sent
    BY <1>4, <1>18 DEF Follows
  <2>8. in_chunk_size' = was[End(b, k)].size /\ got' = was[End(b, k)].sent
    BY <1>2, <2>5, <2>7
  <2>9. Here(s, places, was, End(b, k))'
    BY <1>2, <1>3, <2>3, <2>5, <2>6, <2>8, Arrives
  <2> QED
    BY <1>10, <2>9
<1>19. CASE Whole(k)
  <2>1. body = o.body /\ ~(Len(body) < x.len)
    <3>1. SubSeq(o.body, 1, Len(o.body)) = o.body
      BY <1>6, SubSeqFull
    <3>2. o.put + k.n = d
      BY <1>16, <1>19
    <3>3. body = SubSeq(o.body, 1, d) /\ Len(body) = d
      BY <1>14, <3>2
    <3>4. body = o.body
      BY <1>6, <3>1, <3>3
    <3>5. x.len = d
      BY <1>5, <1>6
    <3> QED
      BY <3>3, <3>4, <3>5
  <2>2. PICK y \in Chunks : y = Released(x)
    BY Finished
  <2>3. /\ y.seen = x.seen /\ y.ext = x.ext /\ y.delta = x.delta /\ y.ts = x.ts /\ y.len = x.len
        /\ ~y.msg /\ y.body = << >>
    BY <2>2 DEF Released, Chunks
  <2>4. Synced(y, After(k))
    <3>1. y.seen = After(k).used /\ y.msg = Going(After(k))
      <4>1. y.seen \in BOOLEAN /\ y.msg \in BOOLEAN
        BY ChunkIs
      <4> QED
        BY <1>5, <1>15, <1>17, <1>19, <2>3, <4>1
    <3> QED
      BY <1>5, <1>15, <1>19, <2>3, <3>1 DEF Synced
  <2>5. o.body # << >>
    <3>1. x.len > 0
      BY <1>2 DEF ReadPayload
    <3> QED
      BY <1>5, <1>6, <3>1, EmptySeq
  <2>6. ~TooSmall(at.cid, body)
    <3>1. CASE k.c = Control
      <4>1. 1 \in DOMAIN o.body
        BY <1>6, <2>5, EmptySeq, LenProperties
      <4>2. o.body[1].v >= MinSize
        BY <1>2, <1>4, <3>1, <4>1 DEF Proper
      <4>3. o.body[1] \in Units
        BY <1>6, <4>1, ElementOfSeq, LenProperties
      <4>4. o.body[1].v \in Nat /\ MinSize \in Nat
        <5>1. o.body[1].v \in ChunkSizes \cup Bytes
          BY <4>3 DEF Units
        <5>2. ChunkSizes \cup Bytes \subseteq Nat /\ MinSize \in Nat
          BY ReaderAssumption
        <5> QED
          BY <5>1, <5>2
      <4>5. ~(o.body[1].v < MinSize)
        BY <4>2, <4>4
      <4> QED
        BY <2>1, <4>5 DEF TooSmall
    <3>2. CASE k.c # Control
      BY <1>2, <3>2 DEF TooSmall
    <3> QED
      BY <3>1, <3>2
  <2>7. /\ mode' = "basic" /\ chunk' = [chunk EXCEPT ![k.c] = y]
        /\ got' = [got EXCEPT ![k.c] = Append(@, [ts |-> x.ts, body |-> body])]
        /\ in_chunk_size' = SizeAfter(k.c, body)
    BY <1>2, <1>8, <1>12, <1>14, <2>1, <2>2, <2>6 DEF ReadPayload
  <2>8. got' = was[End(b, k)].sent
    <3>1. Told(k) = [ts |-> x.ts, body |-> body]
      BY <1>2, <1>5, <2>1 DEF Told
    <3>2. was[End(b, k)].sent = [was[b].sent EXCEPT ![k.c] = Append(@, Told(k))]
      BY <1>2, <1>4, <1>19, <2>5 DEF Follows
    <3> QED
      BY <1>2, <2>7, <3>1, <3>2
  <2>9. in_chunk_size' = was[End(b, k)].size
    <3>1. was[End(b, k)].size = IF k.c = Control THEN o.body[1].v ELSE was[b].size
      BY <1>2, <1>4, <1>19 DEF Follows
    <3> QED
      BY <1>2, <2>1, <2>7, <3>1 DEF SizeAfter
  <2>10. Here(s, places, was, End(b, k))'
    BY <1>2, <1>3, <2>4, <2>7, <2>8, <2>9, Arrives
  <2> QED
    BY <1>10, <2>10
<1> QED
  BY <1>18, <1>19

-----------------------------------------------------------------------------
(* The server's steps.                                                     *)

LEMMA LaidStays ==
  ASSUME NEW s, NEW t, NEW d \in Nat, \A i \in 1..d : t[i] = s[i],
         NEW b \in Nat, NEW k \in Pieces, End(b, k) <= d, Laid(s, b, k)
  PROVE  Laid(t, b, k)
<1>1. PICK h, e, n \in Nat : h = HeadLen(k) /\ e = ExtLen(k) /\ n = k.n /\ b + h + e + n <= d
  <2>1. /\ HeadLen(k) \in Nat /\ ExtLen(k) \in Nat /\ k.n \in Nat
        /\ b + HeadLen(k) + ExtLen(k) + k.n <= d
    BY PieceIs DEF End
  <2> QED
    BY <2>1
<1>2. h >= 1 /\ (k.fmt # 3 => h = 2)
  BY <1>1 DEF HeadLen
<1>3. b + 1 \in 1..d /\ (k.fmt # 3 => b + 2 \in 1..d)
  BY <1>1, <1>2
<1>4. \A i \in 1..e : b + h + i \in 1..d
  BY <1>1
<1>5. \A i \in 1..n : b + h + e + i \in 1..d
  BY <1>1
<1>6. t[b + 1] = s[b + 1] /\ (k.fmt # 3 => t[b + 2] = s[b + 2])
  BY <1>3
<1>7. \A i \in 1..e : t[b + h + i] = s[b + h + i]
  BY <1>4
<1>8. \A i \in 1..n : t[b + h + e + i] = s[b + h + e + i]
  BY <1>5
<1> QED
  BY <1>1, <1>6, <1>7, <1>8 DEF Laid

LEMMA PrefixIs ==
  ASSUME NEW S, NEW q \in Seq(S), NEW u \in Seq(S), NEW v \in Seq(S), Prefix(q, u), Prefix(u, v)
  PROVE  Prefix(q, v) /\ Prefix(q, q)
<1>1. PICK a, b, d \in Nat : a = Len(q) /\ b = Len(u) /\ d = Len(v)
  BY LenProperties
<1>2. a <= b /\ b <= d
  BY <1>1 DEF Prefix
<1>3. \A i \in 1..a : i \in 1..b
  BY <1>2
<1> QED
  BY <1>1, <1>2, <1>3 DEF Prefix

(* The head h and the payload u make the chunk k.                          *)
Heads(h, k) ==
  /\ Len(h) = HeadLen(k) + ExtLen(k)
  /\ h[1] = [t |-> "basic", cid |-> k.c, fmt |-> k.fmt]
  /\ k.fmt # 3 =>
       h[2] = [t |-> "header", field |-> Least(k.o.delta, Threshold), len |-> Len(k.o.body)]
  /\ \A i \in 1 .. ExtLen(k) : h[HeadLen(k) + i] = [t |-> "ext", k |-> i, ts |-> k.o.ts]

Makes(h, u, k) ==
  Heads(h, k) /\ Len(u) = k.n /\ \A i \in 1 .. k.n : u[i] = k.o.body[k.o.put + i]

LEMMA LaidBehind ==
  ASSUME NEW s \in Seq(Items), NEW h \in Seq(Items), NEW u \in Seq(Items), NEW k \in Pieces,
         Makes(h, u, k), NEW t, Joins(t, s, h, u)
  PROVE  Len(t) = End(Len(s), k) /\ Laid(t, Len(s), k) /\ \A i \in 1 .. Len(s) : t[i] = s[i]
<1>1. PICK d, n, a, x \in Nat : /\ d = Len(s) /\ n = k.n /\ a = HeadLen(k) /\ x = ExtLen(k)
                               /\ a >= 1 /\ (k.fmt # 3 => a = 2)
  <2>1. HeadLen(k) \in 1..2 /\ ExtLen(k) \in Nat /\ (k.fmt # 3 => HeadLen(k) = 2) /\ k.n \in Nat
    BY PieceIs DEF HeadLen
  <2>2. Len(s) \in Nat /\ HeadLen(k) \in Nat /\ HeadLen(k) >= 1
    BY <2>1, LenProperties
  <2> QED
    BY <2>1, <2>2
<1>2. Len(h) = a + x /\ Len(u) = n
  BY <1>1 DEF Makes, Heads
<1>3. /\ Len(t) = d + (a + x) + n
      /\ \A i \in 1..d : t[i] = s[i]
      /\ \A i \in 1 .. a + x : t[d + i] = h[i]
      /\ \A i \in 1..n : t[d + (a + x) + i] = u[i]
  <2>1. Len(s) = d
    BY <1>1
  <2> QED
    BY <1>2, <2>1, ZenonT(30) DEF Joins
<1>4. t[d + 1] = h[1] /\ (k.fmt # 3 => t[d + 2] = h[2])
  <2>1. 1 \in 1 .. a + x /\ (k.fmt # 3 => 2 \in 1 .. a + x)
    BY <1>1
  <2> QED
    BY <1>3, <2>1
<1>5. \A i \in 1..x : t[d + a + i] = h[a + i]
  <2>1. \A i \in 1..x : a + i \in 1 .. a + x /\ d + (a + i) = d + a + i
    OBVIOUS
  <2> QED
    BY <1>3, <2>1
<1>6. \A i \in 1..n : t[d + a + x + i] = u[i]
  <2>1. \A i \in 1..n : d + (a + x) + i = d + a + x + i
    OBVIOUS
  <2> QED
    BY <1>3, <2>1
<1>7. d + (a + x) + n = End(d, k)
  BY <1>1 DEF End
<1>8. Laid(t, d, k)
  BY <1>1, <1>4, <1>5, <1>6 DEF Laid, Makes, Heads
<1> QED
  BY <1>1, <1>3, <1>7, <1>8

(* Behind the p the reader has taken, the wire grows as what was sent.     *)
LEMMA BothGrow ==
  ASSUME NEW S, NEW s \in Seq(S), NEW q \in Seq(S), NEW h \in Seq(S), NEW u \in Seq(S),
         NEW p, Behind(q, s, p), NEW t, Joins(t, s, h, u), NEW v, Joins(v, q, h, u)
  PROVE  Behind(v, t, p)
<1>1. PICK d, w, a, n \in Nat : d = Len(s) /\ w = Len(q) /\ a = Len(h) /\ n = Len(u)
  BY LenProperties
<1>2. p \in Nat /\ p <= d /\ d = w + p /\ \A i \in 1..w : q[i] = s[p + i]
  <2>1. p \in 0..d /\ w = d - p /\ \A i \in 1..w : q[i] = s[p + i]
    BY <1>1 DEF Behind
  <2> QED
    BY <2>1
<1>3. /\ Len(t) = d + a + n
      /\ \A i \in 1..d : t[i] = s[i]
      /\ \A i \in 1..a : t[d + i] = h[i]
      /\ \A i \in 1..n : t[d + a + i] = u[i]
  BY <1>1, ZenonT(30) DEF Joins
<1>4. /\ Len(v) = w + a + n
      /\ \A i \in 1..w : v[i] = q[i]
      /\ \A i \in 1..a : v[w + i] = h[i]
      /\ \A i \in 1..n : v[w + a + i] = u[i]
  BY <1>1, ZenonT(30) DEF Joins
<1>5. ASSUME NEW i \in 1 .. w + a + n PROVE v[i] = t[p + i]
  <2>1. CASE i <= w
    <3>1. i \in 1..w /\ p + i \in 1..d
      BY <1>2, <2>1
    <3>2. q[i] = s[p + i]
      BY <1>2, <3>1
    <3> QED
      BY <1>3, <1>4, <3>1, <3>2
  <2>2. CASE w < i /\ i <= w + a
    <3>1. PICK j \in 1..a : i = w + j
      <4>1. i - w \in 1..a /\ i = w + (i - w)
        BY <2>2
      <4> QED
        BY <4>1
    <3>2. p + i = d + j
      BY <1>2, <3>1
    <3> QED
      BY <1>3, <1>4, <3>1, <3>2
  <2>3. CASE w + a < i
    <3>1. PICK j \in 1..n : i = w + a + j
      <4>1. i - (w + a) \in 1..n /\ i = w + a + (i - (w + a))
        BY <2>3
      <4> QED
        BY <4>1
    <3>2. p + i = d + a + j
      BY <1>2, <3>1
    <3> QED
      BY <1>3, <1>4, <3>1, <3>2
  <2>4. i \in Nat /\ (i <= w \/ (w < i /\ i <= w + a) \/ w + a < i)
    OBVIOUS
  <2> QED
    BY <2>1, <2>2, <2>3, <2>4
<1>6. p \in 0 .. d + a + n /\ w + a + n = d + a + n - p
  BY <1>2
<1>7. Len(v) = w + a + n /\ Len(t) = d + a + n
  BY <1>3, <1>4
<1>8. \A i \in 1 .. w + a + n : v[i] = t[p + i]
  BY <1>5
<1>9. p \in 0 .. Len(t) /\ Len(v) = Len(t) - p
  BY <1>6, <1>7
<1>10. \A i \in 1 .. Len(v) : v[i] = t[p + i]
  BY <1>7, <1>8
<1> QED
  BY <1>9, <1>10, Zenon DEF Behind

(* What the server does goes on behind what it has done.                   *)
LEMMA ServerGoesOn ==
  ASSUME IInv, IInv', NEW s, NEW places, NEW was, NEW p,
         Story(s, places, was), Taken(s, p), Here(s, places, was, p),
         NEW k \in Pieces, NEW h \in Seq(Items), NEW u \in Seq(Items),
         wire' = wire \o h \o u,
         Makes(h, u, k),
         Follows(Now, k, Now'), k.o.put + k.n <= Len(k.o.body),
         \A c \in Cids : Prefix(sent[c], sent'[c]),
         UNCHANGED <<mode, at, chunk, in_chunk_size, got>>
  PROVE  Understood'
<1>1. /\ s \in Seq(Items) /\ wire \in Seq(Items) /\ wire' \in Seq(Items)
      /\ places \subseteq 0 .. Len(s) /\ was \in [places -> Servers]
      /\ Len(s) \in places /\ was[Len(s)] = Now
  BY DEF Story, IInv, TypeOK
<1>2. PICK now \in Servers : now = Now'
  <2>1. Now' \in Servers
    BY DEF IInv, TypeOK, Now, Servers, Outs, Sizes, InSizes
  <2> QED
    BY <2>1
<1>4. PICK d \in Nat : d = Len(s)
  BY <1>1, LenProperties
<1>5. PICK t \in Seq(Items) : /\ Joins(t, s, h, u) /\ Len(t) = End(d, k)
                              /\ \A i \in 1..d : t[i] = s[i]
                              /\ Laid(t, d, k)
  <2>1. PICK t \in Seq(Items) : Joins(t, s, h, u)
    BY <1>1, Joined
  <2>2. Len(t) = End(Len(s), k) /\ Laid(t, Len(s), k) /\ \A i \in 1 .. Len(s) : t[i] = s[i]
    BY <1>1, <2>1, LaidBehind
  <2> QED
    BY <1>4, <2>1, <2>2
<1>7. Taken(t, p)'
  <2>1. Joins(wire', wire, h, u)
    BY <1>1, Joined
  <2>2. PICK q, v \in Seq(Items) : q = wire /\ v = wire'
    BY <1>1
  <2>3. Joins(v, q, h, u) /\ Behind(q, s, p) /\ s \in Seq(Items)
    BY <1>1, <2>1, <2>2 DEF Taken
  <2>4. Behind(v, t, p)
    BY <1>5, <2>3, BothGrow
  <2> QED
    BY <2>2, <2>4 DEF Taken
<1>8. PICK e \in Nat : e = Len(t) /\ e > d /\ e \notin places /\ e = End(d, k)
  <2>1. HeadLen(k) \in 1..2 /\ ExtLen(k) \in Nat /\ k.n \in Nat
    BY PieceIs
  <2>2. PICK e \in Nat : e = End(d, k) /\ e > d
    BY <2>1 DEF End
  <2>3. e \notin places
    BY <1>1, <1>4, <2>2
  <2> QED
    BY <1>5, <2>2, <2>3
<1>9. PICK pl : pl = places \cup {e}
  OBVIOUS
<1>10. PICK wz : wz = [b \in pl |-> IF b \in places THEN was[b] ELSE now]
  OBVIOUS
<1>11. /\ wz \in [pl -> Servers] /\ wz[e] = now /\ \A b \in places : wz[b] = was[b]
       /\ pl \subseteq 0..e /\ places \subseteq pl /\ e \in pl
  <2>1. wz[e] = now /\ \A b \in places : wz[b] = was[b]
    BY <1>8, <1>9, <1>10
  <2>2. wz \in [pl -> Servers]
    BY <1>1, <1>2, <1>10
  <2>3. pl \subseteq 0..e
    <3>1. 0..d \subseteq 0..e /\ e \in 0..e
      BY <1>8
    <3> QED
      BY <1>1, <1>4, <1>9, <3>1
  <2> QED
    BY <1>9, <2>1, <2>2, <2>3
<1>12. \A b \in places \ {d}, j \in Pieces : Chunk(s, places, was, b, j) => Chunk(t, pl, wz, b, j)
  <2> SUFFICES ASSUME NEW b \in places \ {d}, NEW j \in Pieces, Chunk(s, places, was, b, j)
               PROVE  Chunk(t, pl, wz, b, j)
    OBVIOUS
  <2>1. b \in Nat /\ End(b, j) \in places /\ Laid(s, b, j) /\ End(b, j) <= d
    BY <1>4, InStory
  <2>2. Laid(t, b, j)
    BY <1>5, <2>1, LaidStays
  <2>3. Follows(was[b], j, was[End(b, j)])
    BY DEF Chunk
  <2> QED
    BY <1>11, <2>1, <2>2, <2>3 DEF Chunk
<1>13. Chunk(t, pl, wz, d, k)
  <2>1. wz[d] = Now /\ wz[End(d, k)] = Now' /\ End(d, k) \in pl
    BY <1>1, <1>2, <1>4, <1>8, <1>11
  <2> QED
    BY <1>5, <2>1 DEF Chunk
<1>14. Here(t, pl, wz, p)'
  <2>1. mode = "basic" => p \in pl /\ Between(wz[p])'
    BY <1>11 DEF Here, Between
  <2>2. ASSUME mode \in Waits PROVE Inner(t, pl, wz, p)'
    <3>1. PICK b \in places \ {d}, j \in Pieces, f \in Nat :
            Chunk(s, places, was, b, j) /\ p = b + f /\ Within(was[b], j, f)
      BY <1>4, <2>2 DEF Here, Inner
    <3>2. b \in pl \ {e} /\ wz[b] = was[b]
      BY <1>8, <1>11
    <3>3. Chunk(t, pl, wz, b, j)
      BY <1>12, <3>1
    <3>4. Within(wz[b], j, f)'
      BY <3>1, <3>2 DEF Within
    <3> QED
      BY <1>8, <3>1, <3>2, <3>3, <3>4 DEF Inner
  <2> QED
    BY <2>1, <2>2 DEF Here
<1>15. Story(t, pl, wz)'
  <2>1. now.out = out' /\ now.sent = sent' /\ Now.out = out
    BY <1>2 DEF Now
  <2>2. \A b \in places, c \in Cids : Proper(c, was[b].out[c]) /\ Prefix(was[b].sent[c], sent[c])
    BY DEF Story
  <2>3. \A c \in Cids : Proper(c, out'[c])
    <3>1. k.c \in Cids /\ out \in [Cids -> Outs] /\ out' = [out EXCEPT ![k.c] = After(k)]
      BY <1>2, <2>1, PieceIs DEF Follows, IInv, TypeOK, Outs
    <3>2. Proper(k.c, After(k))
      BY AfterIs DEF Follows
    <3>3. \A c \in Cids : Proper(c, out[c])
      BY <1>1, <2>1, <2>2
    <3> QED
      BY <3>1, <3>2, <3>3
  <2>4. \A b \in places, c \in Cids : Prefix(was[b].sent[c], sent'[c]) /\ Prefix(sent'[c], sent'[c])
    <3> SUFFICES ASSUME NEW b \in places, NEW c \in Cids
                 PROVE  Prefix(was[b].sent[c], sent'[c]) /\ Prefix(sent'[c], sent'[c])
      OBVIOUS
    <3>1. /\ was[b].sent[c] \in Seq(Messages) /\ sent[c] \in Seq(Messages)
          /\ sent'[c] \in Seq(Messages)
      <4>1. was[b] \in Servers
        BY <1>1
      <4> QED
        BY <4>1, ServerIs DEF IInv, TypeOK
    <3>2. Prefix(was[b].sent[c], sent[c]) /\ Prefix(sent[c], sent'[c])
      BY <2>2
    <3>3. Prefix(sent'[c], sent'[c])
      BY <3>1, LenProperties DEF Prefix
    <3> QED
      BY <3>1, <3>2, <3>3, PrefixIs
  <2>5. \A b \in pl, c \in Cids : Proper(c, wz[b].out[c]) /\ Prefix(wz[b].sent[c], sent'[c])
    <3> SUFFICES ASSUME NEW b \in pl, NEW c \in Cids
                 PROVE  Proper(c, wz[b].out[c]) /\ Prefix(wz[b].sent[c], sent'[c])
      OBVIOUS
    <3>1. CASE b \in places
      BY <1>11, <2>2, <2>4, <3>1
    <3>2. CASE b = e
      BY <1>1, <1>11, <2>1, <2>3, <2>4, <3>2
    <3> QED
      BY <1>9, <3>1, <3>2
  <2>6. \A b \in pl \ {e} : \E j \in Pieces : Chunk(t, pl, wz, b, j)
    <3> SUFFICES ASSUME NEW b \in pl \ {e} PROVE \E j \in Pieces : Chunk(t, pl, wz, b, j)
      OBVIOUS
    <3>1. CASE b = d
      BY <1>13, <3>1
    <3>2. CASE b \in places \ {d}
      <4>1. \E j \in Pieces : Chunk(s, places, was, b, j)
        BY <1>4, <3>2 DEF Story
      <4> QED
        BY <1>12, <3>2, <4>1
    <3> QED
      BY <1>9, <3>1, <3>2
  <2> QED
    BY <1>2, <1>8, <1>11, <2>5, <2>6 DEF Story
<1> QED
  BY <1>7, <1>14, <1>15 DEF Understood

LEMMA HeadsIs ==
  ASSUME NEW k \in Pieces, NEW x \in Seq(Items), NEW y \in Seq(Items), NEW z \in Seq(Items),
         x = Basic(k.c, k.fmt),
         y = IF k.fmt = 3 THEN << >> ELSE Header(k.o.delta, Len(k.o.body)),
         z = IF ExtLen(k) = 0 THEN << >> ELSE Ext(k.o.ts),
         NEW h, Joins(h, x, y, z)
  PROVE  Heads(h, k)
<1>1. Len(x) = 1 /\ x[1] = [t |-> "basic", cid |-> k.c, fmt |-> k.fmt]
  <2>1. PICK r : r = [t |-> "basic", cid |-> k.c, fmt |-> k.fmt]
    OBVIOUS
  <2>2. x = <<r>>
    BY <2>1 DEF Basic
  <2> QED
    BY <2>1, <2>2
<1>2. /\ Len(y) = HeadLen(k) - 1
      /\ k.fmt # 3 =>
           y[1] = [t |-> "header", field |-> Least(k.o.delta, Threshold), len |-> Len(k.o.body)]
  <2>1. PICK r : r = [t |-> "header", field |-> Least(k.o.delta, Threshold), len |-> Len(k.o.body)]
    OBVIOUS
  <2>2. CASE k.fmt = 3
    <3>1. y = << >> /\ Len(<< >>) = 0 /\ HeadLen(k) = 1
      BY <2>2 DEF HeadLen
    <3> QED
      BY <2>2, <3>1
  <2>3. CASE k.fmt # 3
    <3>1. y = <<r>> /\ HeadLen(k) = 2
      BY <2>1, <2>3 DEF Header, HeadLen
    <3>2. Len(<<r>>) = 1 /\ <<r>>[1] = r
      OBVIOUS
    <3>3. Len(y) = 1 /\ y[1] = r
      BY <3>1, <3>2, Zenon
    <3>4. Len(y) = HeadLen(k) - 1
      BY <3>1, <3>3
    <3> QED
      BY <2>1, <3>3, <3>4, Zenon
  <2> QED
    BY <2>2, <2>3
<1>3. /\ Len(z) = ExtLen(k)
      /\ \A i \in 1 .. ExtLen(k) : z[i] = [t |-> "ext", k |-> i, ts |-> k.o.ts]
  <2>1. CASE ExtLen(k) = 0
    <3>1. z = << >> /\ Len(z) = 0 /\ 1..0 = {}
      BY <2>1
    <3> QED
      BY <2>1, <3>1
  <2>2. CASE ExtLen(k) # 0
    <3>1. ExtLen(k) = ExtSize /\ ExtSize \in Nat /\ z = Ext(k.o.ts)
      BY <2>2, PieceIs, Numbers
    <3>2. DOMAIN z = 1..ExtSize /\ \A i \in 1..ExtSize : z[i] = [t |-> "ext", k |-> i, ts |-> k.o.ts]
      BY <3>1 DEF Ext
    <3>3. Len(z) = ExtSize
      BY <3>1, <3>2, LenProperties
    <3> QED
      BY <3>1, <3>2, <3>3
  <2> QED
    BY <2>1, <2>2
<1>4. PICK a, e \in Nat : a = HeadLen(k) /\ e = ExtLen(k) /\ a >= 1 /\ (k.fmt # 3 => a = 2)
  <2>1. HeadLen(k) \in 1..2 /\ ExtLen(k) \in Nat /\ (k.fmt # 3 => HeadLen(k) = 2)
    BY PieceIs DEF HeadLen
  <2>2. HeadLen(k) \in Nat /\ HeadLen(k) >= 1
    BY <2>1
  <2> QED
    BY <2>1, <2>2
<1>5. PICK l, m, n \in Nat : l = Len(x) /\ m = Len(y) /\ n = Len(z)
  BY LenProperties
<1>6. l = 1 /\ m = a - 1 /\ n = e /\ l + m = a
  BY <1>1, <1>2, <1>3, <1>4, <1>5
<1>7. /\ Len(h) = l + m + n
      /\ \A i \in 1..l : h[i] = x[i]
      /\ \A i \in 1..m : h[l + i] = y[i]
      /\ \A i \in 1..n : h[l + m + i] = z[i]
  BY <1>5, ZenonT(30) DEF Joins
<1>8. Len(h) = a + e /\ h[1] = x[1] /\ \A i \in 1..e : h[a + i] = z[i]
  <2>1. 1 \in 1..l
    BY <1>6
  <2> QED
    BY <1>6, <1>7, <2>1
<1>9. k.fmt # 3 => h[2] = y[1]
  <2>1. k.fmt # 3 => 1 \in 1..m /\ l + 1 = 2
    BY <1>4, <1>6
  <2> QED
    BY <1>7, <2>1
<1> QED
  BY <1>1, <1>2, <1>3, <1>4, <1>8, <1>9 DEF Heads

(* A message goes on by a chunk.                                           *)
LEMMA PutsGoesOn ==
  ASSUME IInv, IInv', Understood, NEW k \in Pieces, NEW h \in Seq(Items), Heads(h, k),
         Puts(k.c, h, k.o), Proper(k.c, k.o), k.o.used, k.c = Control => k.o.body # << >>,
         IF k.first THEN Opens(k, out[k.c]) ELSE k.fmt = 3 /\ Going(k.o) /\ k.o = out[k.c],
         k.n = Least(size, Len(k.o.body) - k.o.put)
  PROVE  Understood'
<1>1. PICK o \in Outs : o = k.o
  BY PieceIs
<1>2. PICK d, n, m \in Nat : d = Len(o.body) /\ n = k.n /\ m = o.put /\ o.body \in Seq(Units)
  BY <1>1, PieceIs, OutIs
<1>3. size \in Nat \ {0} /\ wire \in Seq(Items) /\ k.c \in Cids
  <2>1. size \in Sizes /\ wire \in Seq(Items)
    BY DEF IInv, TypeOK, Sizes, InSizes
  <2> QED
    BY <2>1, Numbers, PieceIs
<1>4. m + n <= d
  <2>1. o.put <= Len(o.body)
    BY <1>1 DEF Proper, Sane
  <2>2. n = Least(size, Len(o.body) - o.put)
    BY <1>1, <1>2
  <2>3. o.put + n <= Len(o.body)
    BY <1>3, <2>1, <2>2, Takes
  <2> QED
    BY <1>2, <2>3
<1>5. PICK u \in Seq(Items) : /\ u = SubSeq(o.body, o.put + 1, o.put + n) /\ Len(u) = n
                              /\ \A i \in 1..n : u[i] = o.body[o.put + i]
  <2>1. \A i \in m + 1 .. m + n : o.body[i] \in Items
    <3>1. \A i \in m + 1 .. m + n : i \in 1..d
      BY <1>4
    <3> QED
      BY <1>2, <3>1, ElementOfSeq, Numbers
  <2>2. m + 1 \in Int /\ m + n \in Int
    OBVIOUS
  <2>3. /\ SubSeq(o.body, m + 1, m + n) \in Seq(Items)
        /\ Len(SubSeq(o.body, m + 1, m + n)) = IF m + 1 <= m + n THEN m + n - (m + 1) + 1 ELSE 0
        /\ \A i \in 1 .. m + n - (m + 1) + 1 : SubSeq(o.body, m + 1, m + n)[i] = o.body[m + 1 + i - 1]
    BY <2>1, <2>2, SubSeqProperties
  <2>4. (IF m + 1 <= m + n THEN m + n - (m + 1) + 1 ELSE 0) = n /\ m + n - (m + 1) + 1 = n
    OBVIOUS
  <2>5. \A i \in 1..n : SubSeq(o.body, m + 1, m + n)[i] = o.body[m + i]
    <3>1. \A i \in 1..n : m + 1 + i - 1 = m + i
      OBVIOUS
    <3> QED
      BY <2>3, <2>4, <3>1
  <2>6. Len(SubSeq(o.body, m + 1, m + n)) = n
    BY <2>3, <2>4
  <2> QED
    BY <1>2, <2>3, <2>5, <2>6
<1>6. Makes(h, u, k)
  BY <1>1, <1>2, <1>5 DEF Makes
<1>7. /\ wire' = wire \o h \o u
      /\ out' = [out EXCEPT ![k.c] = After(k)]
      /\ sent' = IF Whole(k) /\ k.o.body # << >> THEN [sent EXCEPT ![k.c] = Append(@, Told(k))]
                                                  ELSE sent
      /\ size' = IF Whole(k) /\ k.c = Control THEN k.o.body[1].v ELSE size
      /\ UNCHANGED <<mode, at, chunk, in_chunk_size, got>>
  BY <1>1, <1>2, <1>5 DEF Puts, After, Whole, Told
<1>8. Follows(Now, k, Now')
  BY <1>7 DEF Follows, Now
<1>9. \A c \in Cids : Prefix(sent[c], sent'[c])
  <2>1. sent \in [Cids -> Seq(Messages)]
    BY DEF IInv, TypeOK
  <2>2. \A c \in Cids : Prefix(sent[c], sent[c])
    <3>1. \A c \in Cids : Len(sent[c]) \in Nat
      BY <2>1, LenProperties
    <3> QED
      BY <3>1 DEF Prefix
  <2>3. Told(k) \in Messages
    BY <1>1, <1>2, OutIs DEF Told, Messages
  <2>4. Prefix(sent[k.c], Append(sent[k.c], Told(k)))
    <3>1. PICK q \in Seq(Messages), x \in Messages : q = sent[k.c] /\ x = Told(k)
      BY <1>3, <2>1, <2>3
    <3>2. /\ Len(Append(q, x)) = Len(q) + 1 /\ \A i \in 1 .. Len(q) : Append(q, x)[i] = q[i]
      BY AppendProperties
    <3>3. Len(q) <= Len(q) + 1
      BY LenProperties
    <3> QED
      BY <3>1, <3>2, <3>3 DEF Prefix
  <2> QED
    BY <1>7, <2>1, <2>2, <2>4
<1>10. PICK s, places, was, p : Story(s, places, was) /\ Taken(s, p) /\ Here(s, places, was, p)
  BY DEF Understood
<1>11. k.o.put + k.n <= Len(k.o.body)
  BY <1>1, <1>2, <1>4
<1> QED
  BY <1>6, <1>7, <1>8, <1>9, <1>10, <1>11, ServerGoesOn

LEMMA StartsGoesOn ==
  ASSUME IInv, IInv', Understood, conforming',
         NEW c \in Cids, NEW fmt \in 0..3, NEW len \in Nat, NEW t \in Times,
         NEW v \in ChunkSizes \cup Bytes, c = Control => len = 1 /\ v \in ChunkSizes,
         Starts(c, fmt, len, t, v)
  PROVE  Understood'
<1>1. t \in Nat /\ t \in 0 .. TimeMod - 1 /\ Threshold \in Nat /\ MinSize \in Nat
  BY ReaderAssumption, Numbers
<1>2. PICK a \in Outs : a = out[c]
  BY DEF IInv, TypeOK, Outs
<1>3. nsent + 1 \in 1..MaxMessages
  <2>1. nsent \in 0..MaxMessages /\ nsent < MaxMessages
    BY DEF Starts, IInv, TypeOK
  <2> QED
    BY <2>1, Numbers
<1>4. PICK b \in Seq(Units) : /\ b = Body(nsent + 1, len, v) /\ Len(b) = len
                              /\ \A i \in DOMAIN b : b[i].v = v
  BY <1>3, BodyIs
<1>5. (a.ts + t) % TimeMod \in 0 .. TimeMod - 1
  <2>1. PICK n \in Nat : n = a.ts + t
    BY <1>1, OutIs
  <2> QED
    BY <2>1, Modulo
<1>6. PICK ts \in 0 .. TimeMod - 1 : ts = IF fmt = 0 THEN t ELSE (a.ts + t) % TimeMod
  <2>1. CASE fmt = 0
    BY <1>1, <2>1
  <2>2. CASE fmt # 0
    BY <1>5, <2>2
  <2> QED
    BY <2>1, <2>2
<1>7. PICK o \in Outs : o = [used |-> TRUE, ext |-> t >= Threshold, delta |-> t, ts |-> ts,
                             body |-> b, put |-> 0]
  <2>1. (t >= Threshold) \in BOOLEAN /\ 0 \in Nat
    OBVIOUS
  <2> QED
    BY <1>1, <2>1 DEF Outs
<1>8. /\ o.used /\ o.delta = t /\ o.ts = ts /\ o.body = b /\ o.put = 0 /\ Len(o.body) = len
      /\ o.ext <=> t >= Threshold
  BY <1>4, <1>7
<1>9. PICK x, y, z \in Seq(Items) :
        /\ x = Basic(c, fmt)
        /\ y = IF fmt = 3 THEN << >> ELSE Header(t, len)
        /\ z = IF o.ext THEN Ext(t) ELSE << >>
  <2>1. Basic(c, fmt) \in Seq(Items) /\ Header(t, len) \in Seq(Items) /\ Ext(t) \in Seq(Items)
    BY <1>1, Parts
  <2>2. << >> \in Seq(Items)
    OBVIOUS
  <2> QED
    BY <2>1, <2>2, Zenon
<1>10. PICK h \in Seq(Items) : h = x \o y \o z /\ Joins(h, x, y, z)
  BY Joined
<1>11. /\ conforming' = (c # Control \/ v >= MinSize) /\ ~Active(c)
       /\ fmt = 0 \/ out[c].used \/ (fmt = 1 /\ c = Control)
       /\ fmt # 0 => t < Threshold
       /\ fmt \in {2, 3} => len = Len(out[c].body)
       /\ fmt = 3 => t = out[c].delta
  BY DEF Starts
<1>12. Puts(c, h, o)
  BY <1>2, <1>4, <1>6, <1>7, <1>9, <1>10 DEF Starts
<1>13. PICK n \in Nat : n = Least(size, Len(o.body) - o.put)
  <2>1. size \in Nat /\ Len(o.body) - o.put \in Nat
    <3>1. size \in Sizes
      BY DEF IInv, TypeOK, Sizes, InSizes
    <3> QED
      BY <1>8, <3>1, Numbers
  <2> QED
    BY <2>1, LeastIs
<1>14. PICK k \in Pieces : k = [c |-> c, fmt |-> fmt, first |-> TRUE, o |-> o, n |-> n]
  BY DEF Pieces
<1>15. k.c = c /\ k.fmt = fmt /\ k.first /\ k.o = o /\ k.n = n
  BY <1>14
<1>16. o.ext => fmt = 0 /\ o.ts = t
  BY <1>1, <1>6, <1>8, <1>11
<1>17. Heads(h, k)
  <2>1. ExtLen(k) = IF o.ext THEN ExtSize ELSE 0
    BY <1>15 DEF ExtLen
  <2>2. ExtSize # 0
    BY Numbers
  <2>3. z = IF ExtLen(k) = 0 THEN << >> ELSE Ext(k.o.ts)
    BY <1>9, <1>15, <1>16, <2>1, <2>2, Zenon
  <2>4. x = Basic(k.c, k.fmt) /\ y = IF k.fmt = 3 THEN << >> ELSE Header(k.o.delta, Len(k.o.body))
    BY <1>8, <1>9, <1>15
  <2> QED
    BY <1>10, <2>3, <2>4, HeadsIs
<1>18. Proper(c, o)
  <2>1. Sane(c, o)
    BY <1>4, <1>8 DEF Sane
  <2>2. c = Control => \A i \in DOMAIN o.body : o.body[i].v >= MinSize
    BY <1>4, <1>8, <1>11
  <2> QED
    BY <1>8, <1>16, <2>1, <2>2 DEF Proper
<1>19. Opens(k, out[k.c])
  <2>1. ~Going(out[c])
    BY <1>11 DEF Active, Going
  <2> QED
    BY <1>2, <1>6, <1>8, <1>11, <1>15, <2>1 DEF Opens
<1>20. c = Control => o.body # << >>
  <2>1. Len(<< >>) # 1
    OBVIOUS
  <2> QED
    BY <1>8, <2>1, Zenon
<1> QED
  BY <1>8, <1>12, <1>13, <1>15, <1>17, <1>18, <1>19, <1>20, PutsGoesOn

LEMMA ServerStartsGoesOn ==
  ASSUME IInv, IInv', Understood, conforming', ServerStarts
  PROVE  Understood'
<1>1. PICK c \in Cids, fmt \in 0..3, t \in Times :
        IF c = Control THEN \E v \in ChunkSizes : Starts(c, fmt, 1, t, v)
                       ELSE \E len \in Lengths, v \in Bytes : Starts(c, fmt, len, t, v)
  BY DEF ServerStarts
<1>2. CASE c = Control
  BY <1>1, <1>2, StartsGoesOn
<1>3. CASE c # Control
  BY <1>1, <1>3, StartsGoesOn, ReaderAssumption
<1> QED
  BY <1>2, <1>3

(* What the server is now keeps to the protocol.                           *)
LEMMA NowIsProper == ASSUME Understood PROVE \A c \in Cids : Proper(c, out[c])
<1>1. PICK s, places, was : Story(s, places, was)
  BY DEF Understood
<1>2. Now.out = out
  BY DEF Now
<1> QED
  BY <1>1, <1>2 DEF Story

LEMMA ServerContinuesGoesOn ==
  ASSUME IInv, IInv', Understood, NEW c \in Cids, ServerContinues(c)
  PROVE  Understood'
<1>1. PICK o \in Outs : o = out[c]
  BY DEF IInv, TypeOK, Outs
<1>2. Proper(c, o) /\ Going(o) /\ o.used
  <2>1. Proper(c, o)
    BY <1>1, NowIsProper
  <2>2. Going(o)
    BY <1>1 DEF ServerContinues, Active, Going
  <2> QED
    BY <2>1, <2>2 DEF Proper
<1>3. o.body # << >>
  <2>1. o.put \in Nat /\ Len(<< >>) = 0
    BY OutIs
  <2>2. o.put < Len(o.body)
    BY <1>2 DEF Going
  <2>3. ~(o.put < 0)
    BY <2>1
  <2> QED
    BY <2>1, <2>2, <2>3, Zenon
<1>4. PICK x, y, z \in Seq(Items) :
        x = Basic(c, 3) /\ y = << >> /\ z = IF o.ext /\ RepeatsExt THEN Ext(o.ts) ELSE << >>
  <2>1. o.ts \in 0 .. TimeMod - 1
    BY OutIs
  <2>2. Basic(c, 3) \in Seq(Items) /\ Ext(o.ts) \in Seq(Items)
    BY <2>1, Parts
  <2>3. << >> \in Seq(Items)
    OBVIOUS
  <2> QED
    BY <2>2, <2>3, Zenon
<1>5. PICK h \in Seq(Items) : h = x \o z /\ Joins(h, x, y, z)
  <2>1. x \o y \o z \in Seq(Items) /\ Joins(x \o y \o z, x, y, z)
    BY Joined
  <2>2. x \o y = x
    BY <1>4, ConcatEmptySeq
  <2> QED
    BY <2>1, <2>2
<1>6. Puts(c, h, o)
  BY <1>1, <1>4, <1>5 DEF ServerContinues
<1>7. PICK n \in Nat : n = Least(size, Len(o.body) - o.put)
  <2>1. size \in Nat /\ Len(o.body) - o.put \in Nat
    <3>1. size \in Sizes
      BY DEF IInv, TypeOK, Sizes, InSizes
    <3>2. o.put \in Nat /\ Len(o.body) \in Nat /\ o.put < Len(o.body)
      BY <1>2, OutIs DEF Going
    <3> QED
      BY <3>1, <3>2, Numbers
  <2> QED
    BY <2>1, LeastIs
<1>8. PICK k \in Pieces : k = [c |-> c, fmt |-> 3, first |-> FALSE, o |-> o, n |-> n]
  <2>1. 3 \in 0..3 /\ FALSE \in BOOLEAN
    OBVIOUS
  <2> QED
    BY <2>1 DEF Pieces
<1>9. k.c = c /\ k.fmt = 3 /\ ~k.first /\ k.o = o /\ k.n = n
  BY <1>8
<1>10. Heads(h, k)
  <2>1. ExtLen(k) = IF o.ext /\ RepeatsExt THEN ExtSize ELSE 0
    BY <1>9 DEF ExtLen
  <2>2. ExtSize # 0
    BY Numbers
  <2>3. z = IF ExtLen(k) = 0 THEN << >> ELSE Ext(k.o.ts)
    BY <1>4, <1>9, <2>1, <2>2, Zenon
  <2>4. x = Basic(k.c, k.fmt) /\ y = IF k.fmt = 3 THEN << >> ELSE Header(k.o.delta, Len(k.o.body))
    BY <1>4, <1>9
  <2> QED
    BY <1>5, <2>3, <2>4, HeadsIs
<1> QED
  BY <1>1, <1>2, <1>3, <1>6, <1>7, <1>9, <1>10, PutsGoesOn

-----------------------------------------------------------------------------
LEMMA BeginsSynced == Init => Sync
<1> SUFFICES ASSUME Init PROVE Understood
  BY DEF Sync
<1>1. IInv
  BY Begins
<1>2. PICK now \in Servers : now = Now
  BY <1>1, NowIs
<1>3. PICK places : places = {0}
  OBVIOUS
<1>4. PICK was : was = [b \in places |-> now]
  OBVIOUS
<1>5. was \in [places -> Servers] /\ was[0] = now
  BY <1>3, <1>4
<1>6. \A c \in Cids : /\ out[c].used = FALSE /\ out[c].ext = FALSE /\ out[c].delta = 0
                      /\ out[c].ts = 0 /\ out[c].body = << >> /\ out[c].put = 0
                      /\ sent[c] = << >>
  BY DEF Init
<1>7. now.out = out /\ now.sent = sent /\ now.size = size
  BY <1>2 DEF Now
<1>8. \A c \in Cids : ~Going(out[c])
  <2>1. Len(<< >>) = 0 /\ ~(0 < 0)
    OBVIOUS
  <2> QED
    BY <1>6, <2>1, Zenon DEF Going
<1>9. \A c \in Cids : Proper(c, now.out[c])
  <2> TAKE c \in Cids
  <2>1. Sane(c, out[c])
    BY <1>1 DEF IInv
  <2>2. ~(0 >= Threshold)
    BY ReaderAssumption
  <2>3. DOMAIN out[c].body = {}
    BY <1>6
  <2> QED
    BY <1>6, <1>7, <1>8, <2>1, <2>2, <2>3 DEF Proper
<1>10. \A c \in Cids : Prefix(now.sent[c], sent[c])
  BY <1>6, <1>7 DEF Prefix
<1>11. Story(<< >>, places, was)
  <2>1. << >> \in Seq(Items) /\ Len(<< >>) = 0 /\ 0 \in 0..0
    OBVIOUS
  <2> QED
    BY <1>2, <1>3, <1>5, <1>9, <1>10, <2>1 DEF Story
<1>12. Taken(<< >>, 0)
  <2>1. wire = << >>
    BY DEF Init
  <2> QED
    BY <2>1 DEF Taken, Behind
<1>13. Between(now)
  <2> SUFFICES ASSUME NEW c \in Cids PROVE Synced(chunk[c], out[c])
    BY <1>6, <1>7 DEF Between, Init
  <2>1. /\ chunk[c].seen = FALSE /\ chunk[c].ext = FALSE /\ chunk[c].delta = 0 /\ chunk[c].ts = 0
        /\ chunk[c].len = 0 /\ chunk[c].msg = FALSE /\ chunk[c].body = << >>
    BY DEF Init
  <2>2. Len(<< >>) = 0
    OBVIOUS
  <2>3. PICK x, o : x = chunk[c] /\ o = out[c]
    OBVIOUS
  <2>4. /\ o.used = FALSE /\ o.ext = FALSE /\ o.delta = 0 /\ o.ts = 0 /\ o.body = << >> /\ ~Going(o)
        /\ x.seen = FALSE /\ x.ext = FALSE /\ x.delta = 0 /\ x.ts = 0 /\ x.len = 0
        /\ x.msg = FALSE /\ x.body = << >>
    BY <1>6, <1>8, <2>1, <2>3
  <2>5. x.len = Len(o.body)
    BY <2>2, <2>4
  <2>6. x.msg = Going(o)
    <3>1. (0 < 0) = FALSE
      OBVIOUS
    <3>2. o.put = 0 /\ Len(o.body) = 0
      BY <1>6, <2>2, <2>3, Zenon
    <3>3. Going(o) = FALSE
      BY <3>1, <3>2, Zenon DEF Going
    <3> QED
      BY <2>4, <3>3, Zenon
  <2>7. Synced(x, o)
    BY <2>4, <2>5, <2>6, Zenon DEF Synced
  <2> QED
    BY <2>3, <2>7
<1>14. Here(<< >>, places, was, 0)
  BY <1>3, <1>5, <1>13 DEF Here, Waits, Init
<1> QED
  BY <1>11, <1>12, <1>14 DEF Understood

LEMMA ReadKeeps == ASSUME IInv, Unmistakable, Understood, Read PROVE Understood'
<1>1. PICK s, places, was, p : Story(s, places, was) /\ Taken(s, p) /\ Here(s, places, was, p)
  BY DEF Understood
<1>2. \E q : Taken(s, q)' /\ Here(s, places, was, q)'
  BY <1>1, ReadBasicKeeps, ReadHeaderKeeps, ReadExtKeeps, ReadEmptyKeeps, ReadPayloadKeeps DEF Read
<1>3. UNCHANGED server
  BY DEF Read, ReadBasic, ReadHeader, ReadExt, ReadEmpty, ReadPayload
<1>4. Story(s, places, was)'
  BY <1>1, <1>3, StoryStays
<1> QED
  BY <1>2, <1>4 DEF Understood

(* A grow that fails between two chunks.                                   *)
LEMMA GrowFailsKeeps == ASSUME IInv, Understood, GrowFails, ~failed' PROVE Understood'
<1>1. PICK s, places, was, p : Story(s, places, was) /\ Taken(s, p) /\ Here(s, places, was, p)
  BY DEF Understood
<1>2. /\ mode = "basic" /\ mode' \in {"basic", "dead"}
      /\ UNCHANGED <<wire, server, at, chunk, in_chunk_size, got>>
  BY DEF GrowFails
<1>3. Story(s, places, was)'
  BY <1>1, <1>2, StoryStays
<1>4. Taken(s, p)'
  BY <1>1, <1>2 DEF Taken
<1>5. p \in places /\ Between(was[p])
  BY <1>1, <1>2 DEF Here
<1>6. Between(was[p])'
  BY <1>2, <1>5 DEF Between
<1>7. mode' \notin Waits /\ mode' \in {"basic", "dead"}
  BY <1>2 DEF Waits
<1>8. Here(s, places, was, p)'
  BY <1>5, <1>6, <1>7 DEF Here
<1> QED
  BY <1>3, <1>4, <1>8 DEF Understood

(* What the reader waits for is what it finds.                             *)
LEMMA NeverLost == ASSUME IInv, Understood PROVE ~LoseSync
<1> SUFFICES ASSUME LoseSync PROVE FALSE
  OBVIOUS
<1>1. PICK s, places, was, p : Story(s, places, was) /\ Taken(s, p) /\ Here(s, places, was, p)
  BY DEF Understood
<1>2. s \in Seq(Items) /\ wire \in Seq(Items) /\ wire # << >> /\ 1 <= Len(wire)
  <2>1. s \in Seq(Items) /\ wire \in Seq(Items) /\ wire # << >>
    BY <1>1 DEF Story, IInv, TypeOK, LoseSync
  <2> QED
    BY <2>1, EmptySeq
<1>3. wire[1] = s[p + 1]
  <2>1. 1 \in Nat \ {0}
    OBVIOUS
  <2> QED
    BY <1>1, <1>2, <2>1, Sees
<1>4. CASE mode = "basic"
  <2>1. p # Len(s)
    <3>1. PICK a, d \in Nat : a = Len(wire) /\ d = Len(s)
      BY <1>2, LenProperties
    <3>2. a = d - p /\ 1 <= a
      BY <1>1, <1>2, <3>1 DEF Taken, Behind
    <3> QED
      BY <3>1, <3>2
  <2>2. p \in places \ {Len(s)}
    BY <1>1, <1>4, <2>1 DEF Here
  <2>3. PICK k \in Pieces : Chunk(s, places, was, p, k)
    BY <1>1, <2>2 DEF Story
  <2>4. wire[1].t = "basic"
    BY <1>3, <2>3 DEF Chunk, Laid
  <2> QED
    BY <1>4, <2>4 DEF LoseSync
<1>5. CASE mode = "header"
  <2>1. PICK b \in places \ {Len(s)}, k \in Pieces, f \in Nat :
          Chunk(s, places, was, b, k) /\ p = b + f /\ AtHeader(k, f, chunk[k.c], was[b].out[k.c])
    BY <1>1, <1>5 DEF Here, Inner, Within, Waits
  <2>2. f = 1 /\ k.fmt # 3 /\ b \in Nat
    BY <1>1, <2>1, InStory DEF AtHeader
  <2>3. p + 1 = b + 2
    BY <2>1, <2>2
  <2>4. wire[1].t = "header"
    BY <1>3, <2>1, <2>2, <2>3 DEF Chunk, Laid
  <2> QED
    BY <1>5, <2>4 DEF LoseSync
<1> QED
  BY <1>4, <1>5 DEF LoseSync

(* What is broken stays broken.                                            *)
LEMMA OnceDisturbed == ASSUME IInv, [Next]_vars, Undisturbed' PROVE Undisturbed
<1>1. conforming' /\ ~failed'
  BY DEF Undisturbed
<1>2. CASE UNCHANGED vars
  BY <1>1, <1>2 DEF vars, server, Undisturbed
<1>3. CASE ServerStarts
  <2>1. PICK c, fmt, len, t, v : Starts(c, fmt, len, t, v)
    BY <1>3 DEF ServerStarts
  <2>2. conforming /\ \E h, o : Puts(c, h, o)
    BY <2>1 DEF Starts
  <2>3. UNCHANGED failed
    BY <2>2 DEF Puts
  <2> QED
    BY <1>1, <2>2, <2>3 DEF Undisturbed
<1>4. ASSUME NEW c \in Cids, ServerContinues(c) PROVE Undisturbed
  <2>1. conforming /\ UNCHANGED failed
    BY <1>4 DEF ServerContinues, Puts
  <2> QED
    BY <1>1, <2>1 DEF Undisturbed
<1>5. ASSUME NEW c \in Cids, ServerErrs(c) PROVE FALSE
  BY <1>1, <1>5 DEF ServerErrs
<1>6. CASE Read
  <2>1. UNCHANGED <<conforming, failed>>
    BY <1>6 DEF Read, ReadBasic, ReadHeader, ReadExt, ReadEmpty, ReadPayload, server
  <2> QED
    BY <1>1, <2>1 DEF Undisturbed
<1>7. CASE GrowFails
  BY <1>1, <1>7 DEF GrowFails, server, Undisturbed
<1>8. CASE LoseSync
  BY <1>1, <1>8 DEF LoseSync, server, Undisturbed
<1> QED
  BY <1>2, <1>3, <1>4, <1>5, <1>6, <1>7, <1>8 DEF Next

LEMMA StepsSynced == IInv /\ IInv' /\ Sync /\ [Next]_vars => Sync'
<1> SUFFICES ASSUME IInv, IInv', Sync, [Next]_vars, Undisturbed'
             PROVE  Understood'
  BY DEF Sync
<1>1. Understood /\ conforming' /\ ~failed' /\ Unmistakable
  BY OnceDisturbed DEF Sync, Undisturbed
<1>2. CASE UNCHANGED vars
  <2>1. UNCHANGED <<wire, size, out, sent, mode, at, chunk, in_chunk_size, got>>
    BY <1>2 DEF vars, server
  <2>2. PICK s, places, was, p : Story(s, places, was) /\ Taken(s, p) /\ Here(s, places, was, p)
    BY <1>1 DEF Understood
  <2>3. Story(s, places, was)' /\ Taken(s, p)' /\ Here(s, places, was, p)'
    BY <2>1, <2>2 DEF Story, Now, Taken, Here, Between, Inner, Within
  <2> QED
    BY <2>3 DEF Understood
<1>3. CASE ServerStarts
  BY <1>1, <1>3, ServerStartsGoesOn
<1>4. ASSUME NEW c \in Cids, ServerContinues(c) PROVE Understood'
  BY <1>1, <1>4, ServerContinuesGoesOn
<1>5. ASSUME NEW c \in Cids, ServerErrs(c) PROVE FALSE
  BY <1>1, <1>5 DEF ServerErrs
<1>6. CASE Read
  BY <1>1, <1>6, ReadKeeps
<1>7. CASE GrowFails
  BY <1>1, <1>7, GrowFailsKeeps
<1>8. CASE LoseSync
  BY <1>1, <1>8, NeverLost
<1> QED
  BY <1>2, <1>3, <1>4, <1>5, <1>6, <1>7, <1>8 DEF Next

LEMMA AlwaysSynced == Spec => []Sync
  BY Invariance, BeginsSynced, StepsSynced, PTL DEF Spec

(* For any chunk streams, sizes, timestamps and interleavings, a server    *)
(* that keeps to the protocol has none of its chunks refused, and the      *)
(* reader never takes the bytes of one item for those of another, as long  *)
(* as no grow fails inside a chunk.                                        *)
THEOREM ServerIsUnderstood == Spec => []NeverMisread
<1>1. Sync => NeverMisread
  <2> SUFFICES ASSUME Sync, Undisturbed PROVE mode \notin {"refused", "lost"}
    BY DEF NeverMisread
  <2>1. mode \in {"basic", "dead"} \cup Waits
    BY DEF Sync, Understood, Here
  <2> QED
    BY <2>1 DEF Waits
<1> QED
  BY <1>1, AlwaysSynced, PTL

(* Whenever nothing is on its way, the reader and a server that keeps to   *)
(* the protocol agree on the chunk size, on what headers leave out, and on *)
(* how much of each message is there, for any streams, sizes, timestamps   *)
(* and interleavings of messages and SetChunkSizes.                        *)
THEOREM BothSidesAgree == Spec => []InStep
<1>1. IInv /\ Sync => InStep
  <2> SUFFICES ASSUME IInv, Understood, wire = << >>, mode = "basic"
               PROVE  in_chunk_size = size /\ got = sent /\ \A c \in Cids : Agrees(chunk[c], out[c])
    BY DEF InStep, Sync
  <2>1. PICK s, places, was, p : Story(s, places, was) /\ Taken(s, p) /\ Here(s, places, was, p)
    BY DEF Understood
  <2>2. p = Len(s)
    <3>1. s \in Seq(Items) /\ Len(<< >>) = 0
      BY <2>1 DEF Story
    <3>2. PICK d \in Nat : d = Len(s)
      BY <3>1, LenProperties
    <3>3. p \in 0..d /\ 0 = d - p
      BY <2>1, <3>1, <3>2 DEF Taken, Behind
    <3> QED
      BY <3>2, <3>3
  <2>3. Between(Now)
    BY <2>1, <2>2 DEF Here, Story
  <2>4. ASSUME NEW c \in Cids PROVE Agrees(chunk[c], out[c])
    <3>1. Synced(chunk[c], out[c])
      BY <2>3 DEF Between, Now
    <3> QED
      BY <3>1 DEF Synced, Agrees, Going
  <2> QED
    BY <2>3, <2>4 DEF Between, Now
<1> QED
  BY <1>1, Invariance, AlwaysSynced, PTL

-----------------------------------------------------------------------------
(* The streams.                                                            *)

(* The server finishes a message, or sends nothing whole.                  *)
LEMMA PutsIsSending ==
  ASSUME IInv, NEW c \in Cids, NEW h, NEW o, Puts(c, h, o)
  PROVE  /\ UNCHANGED <<got, failed>>
         /\ UNCHANGED sent \/ (UNCHANGED <<conforming, failed>> => Streams!Sends(c))
<1>1. UNCHANGED <<got, failed>>
  BY DEF Puts
<1>2. sent \in [Cids -> Seq(Messages)]
  BY DEF IInv, TypeOK
<1>3. PICK m : m = [ts |-> o.ts, body |-> o.body]
  OBVIOUS
<1>4. UNCHANGED sent \/ sent' = [sent EXCEPT ![c] = Append(@, m)]
  BY <1>3 DEF Puts
<1>5. ASSUME sent' = [sent EXCEPT ![c] = Append(@, m)], UNCHANGED <<conforming, failed>>
      PROVE  Streams!Sends(c)
  <2>0. PICK S : S = Messages \cup {m}
    OBVIOUS
  <2>1. PICK q \in Seq(S), r \in Seq(S) : q = sent[c] /\ r = Append(q, m)
    <3>1. sent[c] \in Seq(Messages) /\ m \in S
      BY <1>2, <2>0
    <3>2. PICK q \in Seq(S) : q = sent[c]
      BY <2>0, <3>1
    <3>3. Append(q, m) \in Seq(S)
      BY <3>1, AppendProperties
    <3> QED
      BY <3>2, <3>3
  <2>2. PICK n \in Nat : n = Len(q)
    BY LenProperties
  <2>3. Len(r) = n + 1 /\ \A i \in 1..n : r[i] = q[i]
    <3>1. m \in S
      BY <2>0
    <3> QED
      BY <2>1, <2>2, <3>1, AppendProperties
  <2>4. SubSeq(r, 1, n + 1 - 1) = q
    <3>1. n + 1 - 1 = n /\ n <= n + 1
      OBVIOUS
    <3>2. /\ SubSeq(r, 1, n) \in Seq(S) /\ Len(SubSeq(r, 1, n)) = n
          /\ \A i \in 1..n : SubSeq(r, 1, n)[i] = r[i]
      BY <2>3, <3>1, Front
    <3>3. SubSeq(r, 1, n) = q
      BY <2>2, <2>3, <3>2, SeqEqual
    <3> QED
      BY <3>1, <3>3
  <2>5. r # << >>
    <3>1. Len(<< >>) = 0 /\ n + 1 # 0
      OBVIOUS
    <3> QED
      BY <2>3, <3>1, Zenon
  <2>6. sent'[c] = r
    BY <1>2, <1>5, <2>1
  <2>7. sent = [sent' EXCEPT ![c] = SubSeq(sent'[c], 1, Len(sent'[c]) - 1)]
    <3>1. SubSeq(sent'[c], 1, Len(sent'[c]) - 1) = sent[c]
      BY <2>1, <2>3, <2>4, <2>6
    <3> QED
      BY <1>2, <1>5, <3>1
  <2>8. Undisturbed' = Undisturbed
    BY <1>5 DEF Undisturbed
  <2> QED
    BY <1>1, <2>5, <2>6, <2>7, <2>8 DEF Streams!Sends
<1> QED
  BY <1>1, <1>4, <1>5

(* What the reader hands out is the next message of the stream.            *)
LEMMA PayloadIsHandedOut ==
  ASSUME IInv, IInv', Undisturbed, Understood, ReadPayload
  PROVE  UNCHANGED sent /\ (UNCHANGED got \/ \E c \in Cids : Streams!HandsOut(c))
<1>1. UNCHANGED <<sent, conforming, failed>>
  BY DEF ReadPayload, server
<1>2. PICK c \in Cids : c = at.cid
  <2>1. mode \in Waits
    BY DEF ReadPayload, Waits
  <2> QED
    BY <2>1, AtChunk
<1>3. CASE UNCHANGED got
  BY <1>1, <1>3
<1>4. CASE ~UNCHANGED got
  <2>1. PICK m : mode' = "basic" /\ got' = [got EXCEPT ![c] = Append(@, m)]
    BY <1>2, <1>4 DEF ReadPayload
  <2>2. PICK s, places, was, p : /\ Story(s, places, was) /\ Taken(s, p)
                                 /\ Here(s, places, was, p)
    BY DEF Understood
  <2>3. PICK q : Here(s, places, was, q)'
    BY <2>2, ReadPayloadKeeps
  <2>4. q \in places /\ got' = was[q].sent
    BY <2>1, <2>3 DEF Here, Between
  <2>5. Prefix(got'[c], sent[c])
    BY <2>2, <2>4 DEF Story
  <2>6. got \in [Cids -> Seq(Messages)] /\ got' \in [Cids -> Seq(Messages)]
    BY DEF IInv, TypeOK
  <2>7. PICK u, v \in Seq(Messages) : u = got[c] /\ v = got'[c] /\ v = Append(u, m)
    <3>1. got[c] \in Seq(Messages) /\ got'[c] \in Seq(Messages) /\ got'[c] = Append(got[c], m)
      BY <2>1, <2>6
    <3> QED
      BY <3>1, Zenon
  <2>8. PICK n \in Nat : n = Len(u)
    BY LenProperties
  <2>9. Len(v) = n + 1 /\ v[n + 1] = m
    <3>1. PICK S : S = Messages \cup {m}
      OBVIOUS
    <3>2. u \in Seq(S) /\ m \in S
      BY <3>1
    <3> QED
      BY <2>7, <2>8, <3>2, AppendProperties
  <2>10. n < Len(sent[c]) /\ m = sent[c][n + 1]
    <3>1. PICK d \in Nat : d = Len(sent[c])
      <4>1. sent[c] \in Seq(Messages)
        BY DEF IInv, TypeOK
      <4> QED
        BY <4>1, LenProperties
    <3>2. n + 1 <= d /\ \A i \in 1 .. n + 1 : v[i] = sent[c][i]
      BY <2>5, <2>7, <2>9, <3>1 DEF Prefix
    <3>3. n + 1 \in 1 .. n + 1
      OBVIOUS
    <3> QED
      BY <2>9, <3>1, <3>2, <3>3
  <2>11. got' = [got EXCEPT ![c] = Append(got[c], sent[c][Len(got[c]) + 1])]
    BY <2>1, <2>7, <2>8, <2>10
  <2>12. Undisturbed'
    BY <1>1 DEF Undisturbed
  <2>13. Len(got[c]) < Len(sent[c])
    BY <2>7, <2>8, <2>10
  <2>14. Streams!HandsOut(c)
    BY <1>1, <2>11, <2>12, <2>13 DEF Streams!HandsOut
  <2> QED
    BY <1>1, <2>14
<1> QED
  BY <1>3, <1>4

LEMMA StreamsSteps == IInv /\ IInv' /\ Sync /\ [Next]_vars => [Streams!Next]_(Streams!vars)
<1> SUFFICES ASSUME IInv, IInv', Sync, [Next]_vars PROVE [Streams!Next]_(Streams!vars)
  OBVIOUS
<1>1. CASE ~Undisturbed'
  <2>1. Streams!Breaks
    BY <1>1 DEF Streams!Breaks
  <2> QED
    BY <2>1 DEF Streams!Next
<1>2. CASE Undisturbed'
  <2>1. Undisturbed /\ Understood
    BY <1>2, OnceDisturbed DEF Sync
  <2>2. UNCHANGED <<conforming, failed>>
    <3>1. /\ conforming \in BOOLEAN /\ failed \in BOOLEAN
          /\ conforming' \in BOOLEAN /\ failed' \in BOOLEAN
      BY DEF IInv, TypeOK
    <3> QED
      BY <1>2, <2>1, <3>1 DEF Undisturbed
  <2>3. ASSUME UNCHANGED <<sent, got>> PROVE UNCHANGED Streams!vars
    BY <1>2, <2>1, <2>3 DEF Streams!vars
  <2>4. ASSUME NEW c \in Cids, NEW h, NEW o, Puts(c, h, o)
        PROVE  [Streams!Next]_(Streams!vars)
    <3>1. UNCHANGED got /\ (UNCHANGED sent \/ Streams!Sends(c))
      BY <2>2, <2>4, PutsIsSending
    <3> QED
      BY <2>3, <3>1 DEF Streams!Next
  <2>5. CASE UNCHANGED vars
    BY <2>3, <2>5 DEF vars, server
  <2>6. CASE ServerStarts
    <3>1. PICK c, fmt, len, t, v : c \in Cids /\ Starts(c, fmt, len, t, v)
      BY <2>6 DEF ServerStarts
    <3>2. \E h, o : Puts(c, h, o)
      BY <3>1 DEF Starts
    <3> QED
      BY <2>4, <3>1, <3>2
  <2>7. ASSUME NEW c \in Cids, ServerContinues(c) PROVE [Streams!Next]_(Streams!vars)
    <3>1. \E h, o : Puts(c, h, o)
      BY <2>7 DEF ServerContinues
    <3> QED
      BY <2>4, <3>1
  <2>8. ASSUME NEW c \in Cids, ServerErrs(c) PROVE FALSE
    BY <1>2, <2>8 DEF ServerErrs, Undisturbed
  <2>9. CASE ReadPayload
    <3>1. UNCHANGED sent /\ (UNCHANGED got \/ \E c \in Cids : Streams!HandsOut(c))
      BY <2>1, <2>9, PayloadIsHandedOut
    <3> QED
      BY <2>3, <3>1 DEF Streams!Next
  <2>10. CASE Read /\ ~ReadPayload
    <3>1. UNCHANGED <<sent, got>>
      BY <2>10 DEF Read, ReadBasic, ReadHeader, ReadExt, ReadEmpty, server
    <3> QED
      BY <2>3, <3>1
  <2>11. CASE GrowFails \/ LoseSync
    <3>1. UNCHANGED <<sent, got>>
      BY <2>11 DEF GrowFails, LoseSync, server
    <3> QED
      BY <2>3, <3>1
  <2> QED
    BY <2>5, <2>6, <2>7, <2>8, <2>9, <2>10, <2>11 DEF Next
<1> QED
  BY <1>1, <1>2

(* Chunk stream by chunk stream the reader implements a queue of messages, *)
(* for any sizes, timestamps and interleavings: with a server that keeps   *)
(* to the protocol each message is handed out once, in order, with the     *)
(* bytes and the timestamp it was sent with, until a grow fails inside a   *)
(* chunk.                                                                  *)
THEOREM StreamsInOrder == Spec => ImplementsStreams
<1>1. Init => Streams!Init
  BY DEF Init, Streams!Init, Undisturbed
<1> QED
  BY <1>1, Invariance, AlwaysSynced, StreamsSteps, PTL DEF Spec, ImplementsStreams, Streams!Spec
=============================================================================
