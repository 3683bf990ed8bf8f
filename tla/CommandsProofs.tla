---------------------------- MODULE CommandsProofs ----------------------------
(***************************************************************************)
(* Proofs about Commands, for any URLs and replies.                        *)
(*                                                                         *)
(* The invariant has two halves. The store's half is KVInv of              *)
(* KVStoreProofs, kept by the client's calls as by any. The client's       *)
(* half, CommandInv, says at each place of the task                        *)
(* which packet is being made and how far: while the object is filled, the *)
(* first n slots of the store are its first n pairs in order, hence what   *)
(* Srs_GetObjectSize counts is what the encoder will write; while values   *)
(* are written, the room left is exactly what the remaining values cost.   *)
(***************************************************************************)
EXTENDS Commands, KVStoreProofs, SequenceTheorems

-----------------------------------------------------------------------------
(* The inductive invariant.                                                *)

(* The context is what was parsed of the URL, once that was done; the      *)
(* client's store is large enough for what it puts.                        *)
ContextInv ==
  /\ url \in Urls \cup {Null}
  /\ url = Null => context = Blank /\ ip = Null /\ pc = "idle"
  /\ url # Null => context \in {Blank, Parsed(url)} /\ ip \in {Null, Parsed(url).host}
  /\ ~wild
  /\ ip # Null => context = Parsed(url)

(* Where the packets that have a name are made, there is a name.           *)
Publishing == {"release", "fcpublish", "create", "reply", "decode", "publish"}

PlaceInv ==
  /\ pc \in Places
  /\ pc \in Publishing => context.stream # Null
  /\ pc = "dead" => short \/ ip = Null \/ context.app = Null \/ context.stream = Null
  /\ pc = "overrun" =>
       Overruns(url) \/ (url # Null /\ ip # Null /\ context.app # Null /\ TcUrlOverruns)
  /\ reply \in Replies \cup {NoReply}

NothingMade == packet = NoPacket /\ todo = << >> /\ buf = Initialized(0)

(* The store has the first n keys of connect's object, in order, and room. *)
KeyAt(i) == ObjectPairs[i].key
Filled(n) ==
  /\ there /\ capacity = 20 /\ DOMAIN pairs = 0 .. 19 /\ size = n
  /\ \A i \in 1 .. n : pairs[i - 1] = [key |-> KeyAt(i), value |-> Field[KeyAt(i)]]

FillInv ==
  /\ ip # Null /\ context.app # Null
  /\ packet = ConnectPacket /\ buf = Initialized(0)
  /\ ~there => short
  /\ \E n \in 0 .. 11 : todo = SubSeq(ObjectPairs, n + 1, 11) /\ (there => Filled(n))

(* The packets and their fields.                                           *)
NameKinds == {"release", "fcpublish", "publish"}

PacketOf(k) ==
  CASE k = "connect" -> ConnectPacket
    [] k = "set_window" -> SetWindowPacket
    [] k = "release" -> ReleasePacket(context.stream)
    [] k = "fcpublish" -> FcPublishPacket(context.stream)
    [] k = "create" -> CreatePacket
    [] k = "publish" -> PublishPacket(context.stream)

FieldsOf(k) ==
  CASE k = "connect" -> ConnectFields(PacketOf(k))
    [] k = "set_window" -> SetWindowFields(PacketOf(k))
    [] k \in {"release", "fcpublish"} -> NameFields(PacketOf(k))
    [] k = "create" -> CreateFields(PacketOf(k))
    [] k = "publish" -> PublishFields(PacketOf(k))

Many(k) ==
  CASE k = "connect" -> 15 [] k = "set_window" -> 1 [] k \in {"release", "fcpublish"} -> 4
    [] k = "create" -> 3 [] k = "publish" -> 5

(* What a field takes, and what is left to write behind the first m.       *)
Cost(pkt, f) ==
  CASE f.t = "string" -> SizeStr(f.v)
    [] f.t = "number" -> SizeNumber
    [] f.t = "null" -> SizeNull
    [] f.t = "int" -> 4
    [] f.t = "object" -> 1
    [] f.t = "end" -> SizeEnd
    [] OTHER -> SizeUtf8(Word(f.key)) + SizeOfType(f.t, pkt[Field[f.key]])

Costs(k) == [i \in 1 .. 15 |-> IF i <= Many(k) THEN Cost(PacketOf(k), FieldsOf(k)[i]) ELSE 0]

From(c, m, i) == IF m < i THEN c[i] ELSE 0
Left(c, m) ==
  From(c, m, 1) + From(c, m, 2) + From(c, m, 3) + From(c, m, 4) + From(c, m, 5) + From(c, m, 6)
    + From(c, m, 7) + From(c, m, 8) + From(c, m, 9) + From(c, m, 10) + From(c, m, 11)
    + From(c, m, 12) + From(c, m, 13) + From(c, m, 14) + From(c, m, 15)

(* What the first m fields are, once written: connect's pairs are two.     *)
DataLen(k, m) ==
  IF k = "connect" /\ m > 3 THEN IF m = 15 THEN 26 ELSE 2 * m - 3 ELSE m

Says(pkt, data, m) ==
  /\ pkt.type = "connect" =>
       \A i \in 1 .. 11 : i + 3 <= m =>
         data[2 * i + 2] = Word(KeyAt(i)) /\ data[2 * i + 3] = pkt[Field[KeyAt(i)]]
  /\ pkt.type \in NameKinds /\ 4 <= m => data[4] = pkt.stream_name

(* What may be in the buffer.                                              *)
Items == Texts \cup Nat \cup BOOLEAN \cup {"null", "{", "}"}
Buffers ==
  [p : Nat, nb : Nat, st : {"ok", "error", "aborted"}, data : Seq(Items), missing : BOOLEAN]

Encoded(k, m) ==
  /\ todo = SubSeq(FieldsOf(k), m + 1, Many(k))
  /\ buf.nb - buf.p = Left(Costs(k), m)
  /\ Len(buf.data) = DataLen(k, m)
  /\ Says(packet, buf.data, m)

EncodeInv ==
  /\ \E k \in Kinds :
       /\ packet.type = k /\ packet = PacketOf(k)
       /\ IF k = "connect" THEN ip # Null /\ context.app # Null /\ Filled(11) ELSE ~there
       /\ k \in NameKinds \cup {"create"} => context.stream # Null
       /\ \E m \in 0 .. Many(k) : Encoded(k, m)
  /\ buf.st = "ok" /\ buf.missing = FALSE

BufferInv == buf \in Buffers /\ buf.p <= buf.nb

MakingInv ==
  /\ packet.type \in Kinds \cup {"none"}
  /\ pc \notin {"fill", "encode", "dead"} => NothingMade
  /\ url # Null /\ pc \notin {"fill", "encode"} => ~there
  /\ pc = "fill" => FillInv
  /\ pc = "encode" => EncodeInv

SentInv ==
  /\ DOMAIN sent = Kinds
  /\ url = Null => \A k \in Kinds : sent[k] = << >>
  /\ sent["connect"] # << >> =>
       ip # Null /\ context.app # Null /\ Says(PacketOf("connect"), sent["connect"], 15)
  /\ \A k \in NameKinds : sent[k] # << >> =>
       context.stream # Null /\ Says(PacketOf(k), sent[k], Many(k))

CommandInv == ContextInv /\ PlaceInv /\ BufferInv /\ MakingInv /\ SentInv
CInv == KVInv /\ Returns /\ CommandInv
-----------------------------------------------------------------------------
(* The fields of the packets, as sequences.                                *)

LEMMA RestOf ==
  ASSUME NEW S, NEW s \in Seq(S), NEW k, k = Len(s), NEW n \in 0 .. k
  PROVE  /\ SubSeq(s, n + 1, k) = << >> <=> n = k
         /\ n < k => /\ Head(SubSeq(s, n + 1, k)) = s[n + 1]
                     /\ Tail(SubSeq(s, n + 1, k)) = SubSeq(s, (n + 1) + 1, k)
<1>1. k \in Nat
  BY LenProperties
<1>2. CASE n = k
  <2>1. n + 1 > k
    BY <1>1, <1>2
  <2> QED
    BY <1>1, <1>2, <2>1, SubSeqEmpty
<1>3. CASE n < k
  <2>1. n + 1 \in 1 .. Len(s) /\ k \in n + 1 .. Len(s)
    BY <1>1, <1>3
  <2>2. Len(SubSeq(s, n + 1, k)) # 0
    BY <1>1, <1>3, <2>1, SubSeqProperties
  <2>3. SubSeq(s, n + 1, k) # << >>
    BY <2>2
  <2> QED
    BY <1>3, <2>1, <2>3, HeadTailOfSubSeq
<1> QED
  BY <1>1, <1>2, <1>3

PairsOf == {ObjectPairs[i] : i \in 1 .. 11}
LEMMA PairsSeq == ObjectPairs \in Seq(PairsOf)
<1>1. ObjectPairs = [i \in 1 .. 11 |-> ObjectPairs[i]]
  BY DEF ObjectPairs
<1>2. 11 \in Nat
  OBVIOUS
<1>3. [i \in 1 .. 11 |-> ObjectPairs[i]] \in [1 .. 11 -> PairsOf]
  BY DEF PairsOf
<1> QED
  BY <1>1, <1>2, <1>3, SeqDef

LEMMA ConnectFieldsAre == ASSUME NEW pkt, NEW F, F = ConnectFields(pkt)
  PROVE  /\ \E S : F \in Seq(S)
         /\ Len(F) = 15
         /\ F[1] = Text(pkt.command_name) /\ F[2] = Number(pkt.transaction_id) 
         /\ F[3] = [t |-> "object"] /\ F[15] = [t |-> "end"]
         /\ \A i \in 1 .. 11 : F[i + 3] = ObjectPairs[i]
<1> DEFINE a == <<Text(pkt.command_name), Number(pkt.transaction_id), [t |-> "object"]>>
           z == <<[t |-> "end"]>>
           S == PairsOf \cup {a[1], a[2], a[3], z[1]}
<1>1. a \in Seq(S) /\ Len(a) = 3
  OBVIOUS
<1>2. z \in Seq(S) /\ Len(z) = 1
  OBVIOUS
<1>3. ObjectPairs \in Seq(S) /\ Len(ObjectPairs) = 11
  <2>1. Len(ObjectPairs) = 11
    BY DEF ObjectPairs
  <2> QED
    BY <2>1, PairsSeq, SeqMonotonic
<1> HIDE DEF a, z, S
<1>4. PICK b : b = a \o ObjectPairs
  OBVIOUS
<1>5. b \in Seq(S) /\ Len(b) = 14 /\ \A i \in 1 .. 14 : b[i] = IF i <= 3 THEN a[i] ELSE ObjectPairs[i - 3]
  <2>1. a \in Seq(S) /\ ObjectPairs \in Seq(S)
    BY <1>1, <1>3
  <2>2. /\ a \o ObjectPairs \in Seq(S) /\ Len(a \o ObjectPairs) = Len(a) + Len(ObjectPairs)
        /\ \A i \in 1 .. Len(a) + Len(ObjectPairs) :
              (a \o ObjectPairs)[i] = IF i <= Len(a) THEN a[i] ELSE ObjectPairs[i - Len(a)]
    BY ONLY <2>1, ConcatProperties
  <2>3. Len(a) + Len(ObjectPairs) = 14
    BY <1>1, <1>3
  <2> QED
    BY <1>1, <1>4, <2>2, <2>3
<1>6. F = b \o z
  BY <1>4 DEF ConnectFields, a, z
<1>7. F \in Seq(S) /\ Len(F) = 15 /\ \A i \in 1 .. 15 : F[i] = IF i <= 14 THEN b[i] ELSE z[i - 14]
  <2>1. b \in Seq(S) /\ z \in Seq(S)
    BY <1>2, <1>5
  <2>2. /\ b \o z \in Seq(S) /\ Len(b \o z) = Len(b) + Len(z)
        /\ \A i \in 1 .. Len(b) + Len(z) : (b \o z)[i] = IF i <= Len(b) THEN b[i] ELSE z[i - Len(b)]
    BY ONLY <2>1, ConcatProperties
  <2>3. Len(b) + Len(z) = 15
    BY <1>2, <1>5
  <2> QED
    BY <1>5, <1>6, <2>2, <2>3
<1> QED
  <2>1. F[1] = a[1] /\ F[2] = a[2] /\ F[3] = a[3] /\ F[15] = z[1]
    BY <1>5, <1>7
  <2>2. \A i \in 1 .. 11 : F[i + 3] = ObjectPairs[i]
    BY <1>5, <1>7
  <2> QED
    BY <1>7, <2>1, <2>2 DEF a, z
LEMMA NameFieldsAre ==
  ASSUME NEW pkt, NEW F, F = NameFields(pkt)
  PROVE  /\ \E S : F \in Seq(S)
         /\ Len(F) = 4
         /\ F[1] = Text(pkt.command_name) /\ F[2] = Number(pkt.transaction_id) /\ F[3] = NullValue
         /\ F[4] = Text(pkt.stream_name)
<1> DEFINE a == <<Text(pkt.command_name), Number(pkt.transaction_id), NullValue>>
           z == <<Text(pkt.stream_name)>>
           S == {a[1], a[2], a[3], z[1]}
<1>1. a \in Seq(S) /\ Len(a) = 3
  OBVIOUS
<1>2. z \in Seq(S) /\ Len(z) = 1
  OBVIOUS
<1> HIDE DEF a, z, S
<1>3. F = a \o z
  BY DEF NameFields, CreateFields, a, z
<1>4. F \in Seq(S) /\ Len(F) = 4 /\ \A i \in 1 .. 4 : F[i] = IF i <= 3 THEN a[i] ELSE z[i - 3]
  <2>1. a \in Seq(S) /\ z \in Seq(S)
    BY <1>1, <1>2
  <2>2. /\ a \o z \in Seq(S) /\ Len(a \o z) = Len(a) + Len(z)
        /\ \A i \in 1 .. Len(a) + Len(z) : (a \o z)[i] = IF i <= Len(a) THEN a[i] ELSE z[i - Len(a)]
    BY ONLY <2>1, ConcatProperties
  <2>3. Len(a) + Len(z) = 4
    BY <1>1, <1>2
  <2> QED
    BY <1>1, <1>3, <2>2, <2>3
<1> QED
  <2>1. F[1] = a[1] /\ F[2] = a[2] /\ F[3] = a[3] /\ F[4] = z[1]
    BY <1>4
  <2> QED
    BY <1>4, <2>1 DEF a, z

LEMMA PublishFieldsAre ==
  ASSUME NEW pkt, NEW F, F = PublishFields(pkt)
  PROVE  /\ \E S : F \in Seq(S)
         /\ Len(F) = 5
         /\ F[1] = Text(pkt.command_name) /\ F[2] = Number(pkt.transaction_id) /\ F[3] = NullValue
         /\ F[4] = Text(pkt.stream_name) /\ F[5] = Text(pkt.stype)
<1> DEFINE a == NameFields(pkt)
           z == <<Text(pkt.stype)>>
<1>1. PICK T : a \in Seq(T)
  BY NameFieldsAre
<1>2. PICK S : S = T \cup {z[1]}
  OBVIOUS
<1>3. a \in Seq(S) /\ Len(a) = 4
  BY <1>1, <1>2, NameFieldsAre, SeqMonotonic
<1>4. z \in Seq(S) /\ Len(z) = 1
  BY <1>2
<1> HIDE DEF a, z
<1>5. F = a \o z
  BY DEF PublishFields, a, z
<1>6. F \in Seq(S) /\ Len(F) = 5 /\ \A i \in 1 .. 5 : F[i] = IF i <= 4 THEN a[i] ELSE z[i - 4]
  <2>1. a \in Seq(S) /\ z \in Seq(S)
    BY <1>3, <1>4
  <2>2. /\ a \o z \in Seq(S) /\ Len(a \o z) = Len(a) + Len(z)
        /\ \A i \in 1 .. Len(a) + Len(z) : (a \o z)[i] = IF i <= Len(a) THEN a[i] ELSE z[i - Len(a)]
    BY ONLY <2>1, ConcatProperties
  <2>3. Len(a) + Len(z) = 5
    BY <1>3, <1>4
  <2> QED
    BY <1>3, <1>5, <2>2, <2>3
<1> QED
  <2>1. F[1] = a[1] /\ F[2] = a[2] /\ F[3] = a[3] /\ F[4] = a[4] /\ F[5] = z[1]
    BY <1>6
  <2> QED
    BY <1>6, <2>1, NameFieldsAre DEF a, z

LEMMA ShortFieldsAre ==
  ASSUME NEW pkt
  PROVE  /\ \E S : CreateFields(pkt) \in Seq(S)
         /\ Len(CreateFields(pkt)) = 3
         /\ CreateFields(pkt)[1] = Text(pkt.command_name)
         /\ CreateFields(pkt)[2] = Number(pkt.transaction_id)
         /\ CreateFields(pkt)[3] = NullValue
         /\ \E S : SetWindowFields(pkt) \in Seq(S)
         /\ Len(SetWindowFields(pkt)) = 1
         /\ SetWindowFields(pkt)[1] = [t |-> "int", v |-> pkt.ackowledgement_window_size]
<1>1. CreateFields(pkt) \in Seq({Text(pkt.command_name), Number(pkt.transaction_id), NullValue})
  BY DEF CreateFields
<1>2. SetWindowFields(pkt) \in Seq({[t |-> "int", v |-> pkt.ackowledgement_window_size]})
  BY DEF SetWindowFields
<1> QED
  BY <1>1, <1>2 DEF CreateFields, SetWindowFields
-----------------------------------------------------------------------------
(* The pairs of connect's object and the texts that are sent.              *)

LEMMA PairsAre ==
  /\ Len(ObjectPairs) = 11 /\ DOMAIN ObjectPairs = 1 .. 11
  /\ KeyAt(1) = "app" /\ KeyAt(2) = "flashVer" /\ KeyAt(3) = "swfUrl" /\ KeyAt(4) = "tcUrl"
  /\ KeyAt(5) = "fpad" /\ KeyAt(6) = "capabilities" /\ KeyAt(7) = "audioCodecs"
  /\ KeyAt(8) = "videoCodecs" /\ KeyAt(9) = "videoFunction" /\ KeyAt(10) = "pageUrl"
  /\ KeyAt(11) = "objectEncoding"
  /\ \A i \in 1 .. 11 : DOMAIN ObjectPairs[i] = {"t", "key"}
  /\ \A i \in {1, 2, 3, 4, 10} : ObjectPairs[i].t = "text"
  /\ ObjectPairs[5].t = "flag"
  /\ \A i \in {6, 7, 8, 9, 11} : ObjectPairs[i].t = "count"
<1>1. Len(ObjectPairs) = 11 /\ DOMAIN ObjectPairs = 1 .. 11
  BY DEF ObjectPairs
<1>2. /\ KeyAt(1) = "app" /\ KeyAt(2) = "flashVer" /\ KeyAt(3) = "swfUrl" /\ KeyAt(4) = "tcUrl"
      /\ KeyAt(5) = "fpad" /\ KeyAt(6) = "capabilities" /\ KeyAt(7) = "audioCodecs"
      /\ KeyAt(8) = "videoCodecs" /\ KeyAt(9) = "videoFunction" /\ KeyAt(10) = "pageUrl"
      /\ KeyAt(11) = "objectEncoding"
  BY DEF ObjectPairs, Pair, KeyAt
<1>3. \A i \in 1 .. 11 : DOMAIN ObjectPairs[i] = {"t", "key"}
  BY DEF ObjectPairs, Pair
<1>4. /\ \A i \in {1, 2, 3, 4, 10} : ObjectPairs[i].t = "text"
      /\ ObjectPairs[5].t = "flag"
      /\ \A i \in {6, 7, 8, 9, 11} : ObjectPairs[i].t = "count"
  BY DEF ObjectPairs, Pair
<1> QED
  BY <1>1, <1>2, <1>3, <1>4

LEMMA KeysDiffer == \A i, j \in 1 .. 11 : KeyAt(i) = KeyAt(j) => i = j
  BY DEF ObjectPairs, Pair, KeyAt

LEMMA KeysStored ==
  ASSUME NEW i \in 1 .. 11
  PROVE  KeyAt(i) \in Keys /\ Field[KeyAt(i)] \in Values /\ Word(KeyAt(i)) \in Texts
<1>1. i \in DOMAIN ObjectPairs
  BY PairsAre
<1> QED
  BY <1>1, ObjectAssumption DEF KeyAt, Texts, Words

LEMMA WordsAreTexts == \A s \in Words : Word(s) \in Texts
  BY DEF Texts

Addressable == ip # Null /\ context.app # Null

LEMMA UrlTexts ==
  ASSUME ContextInv
  PROVE  /\ context.stream # Null => context.stream \in Texts
         /\ Addressable => context.app \in Texts /\ TcUrl(ip, context.port, context.app) \in Texts
<1>1. ASSUME context.stream # Null PROVE context.stream \in Texts
  <2>1. context # Blank
    BY <1>1 DEF Blank
  <2>2. url \in Urls /\ context = Parsed(url)
    BY <2>1 DEF ContextInv
  <2> QED
    BY <1>1, <2>2 DEF Texts
<1>2. ASSUME Addressable
      PROVE  context.app \in Texts /\ TcUrl(ip, context.port, context.app) \in Texts
  <2>1. url \in Urls /\ context = Parsed(url) /\ ip = context.host
    BY <1>2 DEF Addressable, ContextInv
  <2>2. context \in Addressed
    BY <1>2, <2>1 DEF Addressed, Addressable
  <2> QED
    BY <2>1, <2>2 DEF Texts
<1> QED
  BY <1>1, <1>2

(* The type and the value of a pair.                                       *)
PairTyped(t, v) ==
  \/ t = "text" /\ v \in Texts
  \/ t = "flag" /\ v \in BOOLEAN
  \/ t = "count" /\ v \in Nat

LEMMA PairValues ==
  /\ ConnectPacket[Field[KeyAt(1)]] = context.app
  /\ ConnectPacket[Field[KeyAt(2)]] = Word("WIN 15,0,0,239")
  /\ ConnectPacket[Field[KeyAt(3)]] = Word("")
  /\ ConnectPacket[Field[KeyAt(4)]] = TcUrl(ip, context.port, context.app)
  /\ ConnectPacket[Field[KeyAt(5)]] \in BOOLEAN
  /\ \A i \in {6, 7, 8, 9, 11} : ConnectPacket[Field[KeyAt(i)]] \in Nat
  /\ ConnectPacket[Field[KeyAt(10)]] = Word("")
<1>1. ConnectPacket[Field[KeyAt(1)]] = context.app
  <2>1. KeyAt(1) = "app"
    BY PairsAre
  <2>2. Field["app"] = "app_value"
    BY DEF Field
  <2>3. ConnectPacket["app_value"] = context.app
    BY DEF ConnectPacket
  <2> QED
    BY <2>1, <2>2, <2>3, Zenon
<1>2. ConnectPacket[Field[KeyAt(2)]] = Word("WIN 15,0,0,239")
  <2>1. KeyAt(2) = "flashVer"
    BY PairsAre
  <2>2. Field["flashVer"] = "flashver_value"
    BY DEF Field
  <2>3. ConnectPacket["flashver_value"] = Word("WIN 15,0,0,239")
    BY DEF ConnectPacket
  <2> QED
    BY <2>1, <2>2, <2>3, Zenon
<1>3. ConnectPacket[Field[KeyAt(3)]] = Word("")
  <2>1. KeyAt(3) = "swfUrl"
    BY PairsAre
  <2>2. Field["swfUrl"] = "swfurl_alue"
    BY DEF Field
  <2>3. ConnectPacket["swfurl_alue"] = Word("")
    BY DEF ConnectPacket
  <2> QED
    BY <2>1, <2>2, <2>3, Zenon
<1>4. ConnectPacket[Field[KeyAt(4)]] = TcUrl(ip, context.port, context.app)
  <2>1. KeyAt(4) = "tcUrl"
    BY PairsAre
  <2>2. Field["tcUrl"] = "tcurl_value"
    BY DEF Field
  <2>3. ConnectPacket["tcurl_value"] = TcUrl(ip, context.port, context.app)
    BY DEF ConnectPacket
  <2> QED
    BY <2>1, <2>2, <2>3, Zenon
<1>5. ConnectPacket[Field[KeyAt(10)]] = Word("")
  <2>1. KeyAt(10) = "pageUrl"
    BY PairsAre
  <2>2. Field["pageUrl"] = "pageUrl_value"
    BY DEF Field
  <2>3. ConnectPacket["pageUrl_value"] = Word("")
    BY DEF ConnectPacket
  <2> QED
    BY <2>1, <2>2, <2>3, Zenon
<1>6. ConnectPacket[Field[KeyAt(5)]] \in BOOLEAN
  <2>1. KeyAt(5) = "fpad"
    BY PairsAre
  <2>2. Field["fpad"] = "fpad_value"
    BY DEF Field
  <2>3. ConnectPacket["fpad_value"] \in BOOLEAN
    BY DEF ConnectPacket
  <2> QED
    BY <2>1, <2>2, <2>3, Zenon
<1>7. ConnectPacket[Field[KeyAt(6)]] \in Nat
  <2>1. KeyAt(6) = "capabilities"
    BY PairsAre
  <2>2. Field["capabilities"] = "capabilities_value"
    BY DEF Field
  <2>3. ConnectPacket["capabilities_value"] \in Nat
    BY DEF ConnectPacket
  <2> QED
    BY <2>1, <2>2, <2>3, Zenon
<1>8. ConnectPacket[Field[KeyAt(7)]] \in Nat
  <2>1. KeyAt(7) = "audioCodecs"
    BY PairsAre
  <2>2. Field["audioCodecs"] = "audiocodecs_value"
    BY DEF Field
  <2>3. ConnectPacket["audiocodecs_value"] \in Nat
    BY DEF ConnectPacket
  <2> QED
    BY <2>1, <2>2, <2>3, Zenon
<1>9. ConnectPacket[Field[KeyAt(8)]] \in Nat
  <2>1. KeyAt(8) = "videoCodecs"
    BY PairsAre
  <2>2. Field["videoCodecs"] = "videocodecs_value"
    BY DEF Field
  <2>3. ConnectPacket["videocodecs_value"] \in Nat
    BY DEF ConnectPacket
  <2> QED
    BY <2>1, <2>2, <2>3, Zenon
<1>10. ConnectPacket[Field[KeyAt(9)]] \in Nat
  <2>1. KeyAt(9) = "videoFunction"
    BY PairsAre
  <2>2. Field["videoFunction"] = "videofunction_value"
    BY DEF Field
  <2>3. ConnectPacket["videofunction_value"] \in Nat
    BY DEF ConnectPacket
  <2> QED
    BY <2>1, <2>2, <2>3, Zenon
<1>11. ConnectPacket[Field[KeyAt(11)]] \in Nat
  <2>1. KeyAt(11) = "objectEncoding"
    BY PairsAre
  <2>2. Field["objectEncoding"] = "objectEncoding_value"
    BY DEF Field
  <2>3. ConnectPacket["objectEncoding_value"] \in Nat
    BY DEF ConnectPacket
  <2> QED
    BY <2>1, <2>2, <2>3, Zenon
<1>12. \A i \in {6, 7, 8, 9, 11} : ConnectPacket[Field[KeyAt(i)]] \in Nat
  <2> DEFINE V(i) == ConnectPacket[Field[KeyAt(i)]]
  <2>1. V(6) \in Nat /\ V(7) \in Nat /\ V(8) \in Nat /\ V(9) \in Nat /\ V(11) \in Nat
    BY <1>7, <1>8, <1>9, <1>10, <1>11
  <2> HIDE DEF V
  <2>2. \A i \in {6, 7, 8, 9, 11} : V(i) \in Nat
    BY <2>1
  <2> QED
    BY <2>2 DEF V
<1> QED
  BY <1>1, <1>2, <1>3, <1>4, <1>5, <1>6, <1>12, Zenon

LEMMA PairsTyped ==
  ASSUME ContextInv, Addressable, NEW i \in 1 .. 11
  PROVE  PairTyped(ObjectPairs[i].t, ConnectPacket[Field[KeyAt(i)]])
<1> DEFINE V(j) == ConnectPacket[Field[KeyAt(j)]]
<1>1. /\ Word("WIN 15,0,0,239") \in Texts /\ Word("") \in Texts
      /\ context.app \in Texts /\ TcUrl(ip, context.port, context.app) \in Texts
  BY WordsAreTexts, UrlTexts DEF Words
<1>2. V(1) \in Texts /\ V(2) \in Texts /\ V(3) \in Texts /\ V(4) \in Texts /\ V(10) \in Texts
  BY <1>1, PairValues, Zenon
<1>3. V(5) \in BOOLEAN
  BY PairValues, Zenon
<1>4. \A j \in {6, 7, 8, 9, 11} : V(j) \in Nat
  BY PairValues, Zenon
<1> HIDE DEF V
<1>5. CASE i \in {1, 2, 3, 4, 10}
  <2>1. V(i) \in Texts /\ ObjectPairs[i].t = "text"
    BY <1>2, <1>5, PairsAre
  <2> QED
    BY <2>1 DEF PairTyped, V
<1>6. CASE i \in {6, 7, 8, 9, 11}
  <2>1. V(i) \in Nat /\ ObjectPairs[i].t = "count"
    BY <1>4, <1>6, PairsAre
  <2> QED
    BY <2>1 DEF PairTyped, V
<1>7. CASE i = 5
  <2>1. V(i) \in BOOLEAN /\ ObjectPairs[i].t = "flag"
    BY <1>3, <1>7, PairsAre
  <2> QED
    BY <2>1, Zenon DEF PairTyped, V
<1> QED
  BY <1>5, <1>6, <1>7
-----------------------------------------------------------------------------
(* The fields of each kind of packet: values, but for connect's pairs.     *)

Sendable(k) == (k = "connect" => Addressable) /\ (k \in NameKinds => context.stream # Null)

IsValue(f) ==
  /\ "key" \notin DOMAIN f
  /\ \/ f.t = "string" /\ f.v \in Texts
     \/ f.t = "number" /\ f.v \in Nat
     \/ f.t = "int" /\ f.v \in Nat
     \/ f.t \in {"null", "object", "end"}

LEMMA TextIsValue == \A v \in Texts : IsValue(Text(v))
  BY DEF IsValue, Text

LEMMA NumberIsValue == \A n \in Nat : IsValue(Number(n))
  BY DEF IsValue, Number

LEMMA OthersAreValues ==
  /\ IsValue(NullValue) /\ IsValue([t |-> "object"]) /\ IsValue([t |-> "end"])
  /\ \A n \in Nat : IsValue([t |-> "int", v |-> n])
  BY DEF IsValue, NullValue

LEMMA KindCases ==
  ASSUME NEW k \in Kinds
  PROVE  k \in {"connect", "set_window", "release", "fcpublish", "create", "publish"}
  BY DEF Kinds

LEMMA ConnectFieldsKnown ==
  LET F == FieldsOf("connect")
  IN /\ \E S : F \in Seq(S)
     /\ Len(F) = 15 /\ Many("connect") = 15
     /\ IsValue(F[1]) /\ IsValue(F[2]) /\ IsValue(F[3]) /\ IsValue(F[15])
     /\ \A i \in 1 .. 11 : F[i + 3] = ObjectPairs[i]
<1> DEFINE F == FieldsOf("connect")
           P == ConnectPacket
<1>1. F = ConnectFields(P)
  BY DEF FieldsOf, PacketOf
<1>2. Many("connect") = 15
  BY DEF Many
<1>3. P.command_name = Word("connect") /\ P.transaction_id \in Nat
  BY DEF ConnectPacket
<1>4. IsValue(Text(Word("connect"))) /\ IsValue(Number(P.transaction_id))
  BY <1>3, WordsAreTexts, TextIsValue, NumberIsValue DEF Words
<1> HIDE DEF F, P
<1>5. /\ \E S : F \in Seq(S)
      /\ Len(F) = 15
      /\ F[1] = Text(P.command_name) /\ F[2] = Number(P.transaction_id)
      /\ F[3] = [t |-> "object"] /\ F[15] = [t |-> "end"]
      /\ \A i \in 1 .. 11 : F[i + 3] = ObjectPairs[i]
  BY ONLY <1>1, ConnectFieldsAre
<1>6. IsValue(F[1])
  BY <1>3, <1>4, <1>5, Zenon
<1>7. IsValue(F[2])
  BY <1>4, <1>5, Zenon
<1>8. IsValue(F[3])
  BY <1>5, OthersAreValues, Zenon
<1>9. IsValue(F[15])
  BY <1>5, OthersAreValues, Zenon
<1> QED
  BY <1>2, <1>5, <1>6, <1>7, <1>8, <1>9, Zenon DEF F

LEMMA SetWindowFieldsKnown ==
  LET F == FieldsOf("set_window")
  IN (\E S : F \in Seq(S)) /\ Len(F) = 1 /\ Many("set_window") = 1 /\ IsValue(F[1])
<1>1. FieldsOf("set_window") = SetWindowFields(SetWindowPacket) /\ Many("set_window") = 1
  BY DEF FieldsOf, PacketOf, Many
<1>2. SetWindowPacket.ackowledgement_window_size \in Nat
  BY DEF SetWindowPacket
<1> QED
  BY <1>1, <1>2, ShortFieldsAre, OthersAreValues

LEMMA CreateFieldsKnown ==
  LET F == FieldsOf("create")
  IN /\ \E S : F \in Seq(S)
     /\ Len(F) = 3 /\ Many("create") = 3
     /\ IsValue(F[1]) /\ IsValue(F[2]) /\ IsValue(F[3])
<1>1. FieldsOf("create") = CreateFields(CreatePacket) /\ Many("create") = 3
  BY DEF FieldsOf, PacketOf, Many
<1>2. CreatePacket.command_name = Word("createStream") /\ CreatePacket.transaction_id \in Nat
  BY DEF CreatePacket
<1>3. IsValue(Text(Word("createStream"))) /\ IsValue(Number(CreatePacket.transaction_id))
  BY <1>2, WordsAreTexts, TextIsValue, NumberIsValue DEF Words
<1> QED
  BY <1>1, <1>2, <1>3, ShortFieldsAre, OthersAreValues

LEMMA NameFieldsKnown ==
  ASSUME NEW k \in {"release", "fcpublish"}, context.stream # Null => context.stream \in Texts
  PROVE  LET F == FieldsOf(k)
         IN /\ \E S : F \in Seq(S)
            /\ Len(F) = 4 /\ Many(k) = 4
            /\ IsValue(F[1]) /\ IsValue(F[2]) /\ IsValue(F[3])
            /\ F[4] = Text(context.stream)
            /\ context.stream # Null => IsValue(F[4])
<1>1. FieldsOf(k) = NameFields(PacketOf(k)) /\ Many(k) = 4
  BY DEF FieldsOf, Many
<1>2. PICK w \in {"releaseStream", "FCPublish"} :
        /\ PacketOf(k).command_name = Word(w) /\ PacketOf(k).transaction_id \in Nat
        /\ PacketOf(k).stream_name = context.stream
  BY DEF PacketOf, ReleasePacket, FcPublishPacket
<1>3. IsValue(Text(Word(w))) /\ IsValue(Number(PacketOf(k).transaction_id))
  BY <1>2, WordsAreTexts, TextIsValue, NumberIsValue DEF Words
<1> QED
  BY <1>1, <1>2, <1>3, NameFieldsAre, OthersAreValues, TextIsValue

LEMMA PublishFieldsKnown ==
  ASSUME context.stream # Null => context.stream \in Texts
  PROVE  LET F == FieldsOf("publish")
         IN /\ \E S : F \in Seq(S)
            /\ Len(F) = 5 /\ Many("publish") = 5
            /\ IsValue(F[1]) /\ IsValue(F[2]) /\ IsValue(F[3]) /\ IsValue(F[5])
            /\ F[4] = Text(context.stream)
            /\ context.stream # Null => IsValue(F[4])
<1>1. FieldsOf("publish") = PublishFields(PacketOf("publish")) /\ Many("publish") = 5
  BY DEF FieldsOf, Many
<1> DEFINE P == PacketOf("publish")
<1>2. /\ P.command_name = Word("publish") /\ P.transaction_id \in Nat
      /\ P.stream_name = context.stream /\ P.stype = Word("live")
  BY DEF PacketOf, PublishPacket
<1>3. IsValue(Text(Word("publish"))) /\ IsValue(Text(Word("live"))) /\ IsValue(Number(P.transaction_id))
  BY <1>2, WordsAreTexts, TextIsValue, NumberIsValue DEF Words
<1> HIDE DEF P
<1> QED
  BY <1>1, <1>2, <1>3, PublishFieldsAre, OthersAreValues, TextIsValue DEF P

IsPair(k, i) == k = "connect" /\ i \in 4 .. 14

(* What holds of a sequence F of n fields, those of kind k.                *)
FieldsFit(F, n, k) ==
  /\ \E S : F \in Seq(S)
  /\ Len(F) = n /\ n \in 1 .. 15
  /\ k # "connect" => n <= 5
  /\ k \in NameKinds => F[4] = Text(context.stream) /\ n \in {4, 5}
  /\ Sendable(k) =>
       \A i \in 1 .. n : IF IsPair(k, i) THEN F[i] = ObjectPairs[i - 3] ELSE IsValue(F[i])

LEMMA FieldsKnown ==
  ASSUME ContextInv, NEW k \in Kinds
  PROVE  FieldsFit(FieldsOf(k), Many(k), k)
<1>0. context.stream # Null => context.stream \in Texts
  BY UrlTexts
<1> DEFINE F == FieldsOf(k)
           N == Many(k)
<1>1. CASE k = "connect"
  <2>1. /\ \E S : F \in Seq(S)
        /\ Len(F) = 15 /\ N = 15
        /\ IsValue(F[1]) /\ IsValue(F[2]) /\ IsValue(F[3]) /\ IsValue(F[15])
        /\ \A i \in 1 .. 11 : F[i + 3] = ObjectPairs[i]
    BY <1>1, ConnectFieldsKnown, Zenon
  <2> HIDE DEF F, N
  <2>2. \A i \in 4 .. 14 : F[i] = ObjectPairs[i - 3]
    <3>1. \A i \in 4 .. 14 : i - 3 \in 1 .. 11 /\ (i - 3) + 3 = i
      OBVIOUS
    <3> QED
      BY <2>1, <3>1
  <2>3. \A i \in 1 .. N : IF IsPair(k, i) THEN F[i] = ObjectPairs[i - 3] ELSE IsValue(F[i])
    <3>1. \A i \in 1 .. 15 : i \in 4 .. 14 \/ i = 1 \/ i = 2 \/ i = 3 \/ i = 15
      OBVIOUS
    <3> QED
      BY <1>1, <2>1, <2>2, <3>1 DEF IsPair
  <2>4. k \notin NameKinds
    BY <1>1 DEF NameKinds
  <2>5. Len(F) = N
    BY <2>1
  <2>6. N \in 1 .. 15
    BY <2>1
  <2> QED
    BY <1>1, <2>1, <2>3, <2>4, <2>5, <2>6, Zenon DEF FieldsFit, F, N
<1>2. CASE k = "set_window"
  <2>1. (\E S : F \in Seq(S)) /\ Len(F) = 1 /\ N = 1 /\ IsValue(F[1])
    BY <1>2, SetWindowFieldsKnown, Zenon
  <2> HIDE DEF F, N
  <2>2. \A i \in 1 .. N : ~IsPair(k, i) /\ IsValue(F[i])
    <3>1. \A i \in 1 .. 1 : i = 1
      OBVIOUS
    <3> QED
      BY <1>2, <2>1, <3>1 DEF IsPair
  <2>3. k \notin NameKinds /\ k # "connect"
    BY <1>2 DEF NameKinds
  <2>4. N \in 1 .. 15 /\ N <= 5 /\ Len(F) = N
    BY <2>1
  <2> QED
    BY <2>1, <2>2, <2>3, <2>4, Zenon DEF FieldsFit, F, N
<1>3. CASE k \in {"release", "fcpublish"}
  <2>1. /\ \E S : F \in Seq(S)
        /\ Len(F) = 4 /\ N = 4
        /\ IsValue(F[1]) /\ IsValue(F[2]) /\ IsValue(F[3])
        /\ F[4] = Text(context.stream)
        /\ context.stream # Null => IsValue(F[4])
    BY <1>0, <1>3, NameFieldsKnown, Zenon
  <2> HIDE DEF F, N
  <2>2. k # "connect" /\ (Sendable(k) => context.stream # Null)
    BY <1>3 DEF Sendable, NameKinds
  <2>3. Sendable(k) => \A i \in 1 .. N : ~IsPair(k, i) /\ IsValue(F[i])
    <3>1. \A i \in 1 .. 4 : i = 1 \/ i = 2 \/ i = 3 \/ i = 4
      OBVIOUS
    <3> QED
      BY <2>1, <2>2, <3>1 DEF IsPair
  <2>4. N \in 1 .. 15 /\ N <= 5 /\ Len(F) = N /\ N \in {4, 5}
    BY <2>1
  <2> QED
    BY <2>1, <2>2, <2>3, <2>4, Zenon DEF FieldsFit, F, N
<1>4. CASE k = "create"
  <2>1. /\ \E S : F \in Seq(S)
        /\ Len(F) = 3 /\ N = 3
        /\ IsValue(F[1]) /\ IsValue(F[2]) /\ IsValue(F[3])
    BY <1>4, CreateFieldsKnown, Zenon
  <2> HIDE DEF F, N
  <2>2. \A i \in 1 .. N : ~IsPair(k, i) /\ IsValue(F[i])
    <3>1. \A i \in 1 .. 3 : i = 1 \/ i = 2 \/ i = 3
      OBVIOUS
    <3> QED
      BY <1>4, <2>1, <3>1 DEF IsPair
  <2>3. k \notin NameKinds /\ k # "connect"
    BY <1>4 DEF NameKinds
  <2>4. N \in 1 .. 15 /\ N <= 5 /\ Len(F) = N
    BY <2>1
  <2> QED
    BY <2>1, <2>2, <2>3, <2>4, Zenon DEF FieldsFit, F, N
<1>5. CASE k = "publish"
  <2>1. /\ \E S : F \in Seq(S)
        /\ Len(F) = 5 /\ N = 5
        /\ IsValue(F[1]) /\ IsValue(F[2]) /\ IsValue(F[3]) /\ IsValue(F[5])
        /\ F[4] = Text(context.stream)
        /\ context.stream # Null => IsValue(F[4])
    BY <1>0, <1>5, PublishFieldsKnown, Zenon
  <2> HIDE DEF F, N
  <2>2. k # "connect" /\ (Sendable(k) => context.stream # Null)
    BY <1>5 DEF Sendable, NameKinds
  <2>3. Sendable(k) => \A i \in 1 .. N : ~IsPair(k, i) /\ IsValue(F[i])
    <3>1. \A i \in 1 .. 5 : i = 1 \/ i = 2 \/ i = 3 \/ i = 4 \/ i = 5
      OBVIOUS
    <3> QED
      BY <2>1, <2>2, <3>1 DEF IsPair
  <2>4. N \in 1 .. 15 /\ N <= 5 /\ Len(F) = N /\ N \in {4, 5}
    BY <2>1
  <2> QED
    BY <2>1, <2>2, <2>3, <2>4, Zenon DEF FieldsFit, F, N
<1> QED
  BY <1>1, <1>2, <1>3, <1>4, <1>5, KindCases
-----------------------------------------------------------------------------
(* The buffer: while there is room, a value takes its size and is appended. *)

Ok(b) == b \in Buffers /\ b.p <= b.nb /\ b.st = "ok" /\ b.missing = FALSE

Moved(b, w, n) == Ok(w) /\ w.p = b.p + n /\ w.nb = b.nb /\ w.data = b.data
Wrote(b, w, n, v) == Ok(w) /\ w.p = b.p + n /\ w.nb = b.nb /\ w.data = Append(b.data, v)

LEMMA Moves ==
  ASSUME NEW b, Ok(b), NEW n \in Nat, n <= b.nb - b.p
  PROVE  Moved(b, Asserted(b, n), n) /\ Moved(b, Checked(b, n), n)
<1>1. Asserted(b, n) = [b EXCEPT !.p = b.p + n] /\ Checked(b, n) = Asserted(b, n)
  BY DEF Asserted, Checked, Require, Ok
<1> DEFINE w == [b EXCEPT !.p = b.p + n]
<1>2. w.p = b.p + n /\ w.nb = b.nb /\ w.data = b.data /\ w.st = b.st /\ w.missing = b.missing
  BY DEF Ok, Buffers
<1>3. w \in Buffers
  BY DEF Ok, Buffers
<1>4. w.p <= w.nb
  BY <1>2 DEF Ok, Buffers
<1> HIDE DEF w
<1>5. Moved(b, w, n)
  BY <1>2, <1>3, <1>4 DEF Ok, Moved
<1> QED
  BY <1>1, <1>5 DEF w

LEMMA MovesOn ==
  ASSUME NEW b, Ok(b), NEW w, NEW n \in Nat, Moved(b, w, n), NEW m \in Nat, n + m <= b.nb - b.p
  PROVE  Moved(b, Asserted(w, m), n + m) /\ Moved(b, Checked(w, m), n + m)
<1>1. Ok(w) /\ w.p = b.p + n /\ w.nb = b.nb /\ w.data = b.data
  BY DEF Moved
<1>2. b.p \in Nat /\ b.nb \in Nat
  BY DEF Ok, Buffers
<1>3. m <= w.nb - w.p
  BY <1>1, <1>2
<1>4. Moved(w, Asserted(w, m), m) /\ Moved(w, Checked(w, m), m)
  BY <1>1, <1>3, Moves
<1>5. (b.p + n) + m = b.p + (n + m)
  BY <1>2
<1> QED
  BY <1>1, <1>4, <1>5 DEF Moved

LEMMA Holds ==
  ASSUME NEW b, NEW w, NEW n, Moved(b, w, n), NEW v \in Items
  PROVE  Wrote(b, Holding(w, v), n, v)
<1>1. Ok(w) /\ w.p = b.p + n /\ w.nb = b.nb /\ w.data = b.data
  BY DEF Moved
<1> DEFINE d == Append(w.data, v)
           h == [w EXCEPT !.data = d]
<1>2. Holding(w, v) = h
  BY <1>1 DEF Holding, Ok
<1>3. d \in Seq(Items)
  BY <1>1 DEF Ok, Buffers
<1> HIDE DEF d
<1>4. h.p = w.p /\ h.nb = w.nb /\ h.data = d /\ h.st = w.st /\ h.missing = w.missing
  BY <1>1 DEF Ok, Buffers
<1>5. h \in Buffers
  BY <1>1, <1>3 DEF Ok, Buffers
<1> HIDE DEF h
<1>6. Ok(h)
  BY <1>1, <1>4, <1>5 DEF Ok
<1>7. Wrote(b, h, n, v)
  BY <1>1, <1>4, <1>6 DEF Wrote, d
<1> QED
  BY <1>2, <1>7

LEMMA Keeps == ASSUME NEW b, Ok(b) PROVE Ignoring(b) = b
  BY DEF Ok, Ignoring

LEMMA TextItems == ASSUME NEW s \in Texts PROVE Length(s) \in Nat /\ SizeUtf8(s) \in Nat /\ SizeStr(s) \in Nat /\ s \in Items
<1>1. Length(s) \in Nat
  BY LengthAssumption
<1>2. SizeUtf8(s) \in Nat /\ SizeStr(s) \in Nat
  BY <1>1 DEF SizeUtf8, SizeStr
<1>3. s \in Items
  BY Zenon DEF Items
<1> QED
  BY <1>1, <1>2, <1>3

LEMMA WritesUtf8 ==
  ASSUME NEW b, Ok(b), NEW s \in Texts, SizeUtf8(s) <= b.nb - b.p
  PROVE  Wrote(b, WriteUtf8(b, s), SizeUtf8(s), s)
<1>1. Length(s) \in Nat /\ s \in Items
  BY TextItems
<1>2. 2 + Length(s) <= b.nb - b.p /\ b.p \in Nat /\ b.nb \in Nat
  BY DEF SizeUtf8, Ok, Buffers
<1>3. Moved(b, Asserted(b, 2), 2)
  BY <1>1, <1>2, Moves
<1>4. Moved(b, Checked(Asserted(b, 2), Length(s)), 2 + Length(s))
  BY <1>1, <1>2, <1>3, MovesOn
<1> QED
  BY <1>1, <1>4, Holds DEF WriteUtf8, SizeUtf8

LEMMA WritesString ==
  ASSUME NEW b, Ok(b), NEW s \in Texts, SizeStr(s) <= b.nb - b.p
  PROVE  Wrote(b, WriteString(b, s), SizeStr(s), s)
<1>1. Length(s) \in Nat /\ s \in Items
  BY TextItems
<1>2. 1 + (2 + Length(s)) <= b.nb - b.p /\ b.p \in Nat /\ b.nb \in Nat
  BY DEF SizeStr, SizeUtf8, Ok, Buffers
<1> DEFINE w == Checked(b, 1)
<1>3. Moved(b, w, 1)
  BY <1>1, <1>2, Moves
<1> HIDE DEF w
<1>4. Ok(w) /\ w.p = b.p + 1 /\ w.nb = b.nb /\ w.data = b.data
  BY <1>3 DEF Moved
<1>5. SizeUtf8(s) <= w.nb - w.p
  BY <1>1, <1>2, <1>4 DEF SizeUtf8
<1>6. Wrote(w, WriteUtf8(w, s), SizeUtf8(s), s)
  BY <1>4, <1>5, WritesUtf8
<1>7. (b.p + 1) + SizeUtf8(s) = b.p + SizeStr(s)
  BY <1>1, <1>2 DEF SizeStr, SizeUtf8
<1> QED
  BY <1>4, <1>6, <1>7 DEF Wrote, WriteString, w

LEMMA WritesOne ==
  ASSUME NEW b, Ok(b), NEW n \in Nat, n <= b.nb - b.p, NEW v \in Items
  PROVE  Wrote(b, Holding(Checked(b, n), v), n, v)
  BY Moves, Holds

LEMMA WritesTwo ==
  ASSUME NEW b, Ok(b), NEW n \in Nat, NEW m \in Nat, n + m <= b.nb - b.p, NEW v \in Items
  PROVE  Wrote(b, Holding(Checked(Checked(b, n), m), v), n + m, v)
<1>1. n <= b.nb - b.p
  BY DEF Ok, Buffers
<1>2. Moved(b, Checked(b, n), n)
  BY <1>1, Moves
<1>3. Moved(b, Checked(Checked(b, n), m), n + m)
  BY <1>2, MovesOn
<1> QED
  BY <1>3, Holds

(* One value.                                                              *)
Written(b, f) ==
  IF f.t \in {"object", "end"} THEN Ignoring(Write(b, f)) ELSE Write(b, f)

LEMMA ValueCosts ==
  ASSUME NEW f, IsValue(f), NEW pkt
  PROVE  Cost(pkt, f) \in Nat
<1>1. CASE f.t = "string" /\ f.v \in Texts
  BY <1>1, TextItems DEF Cost
<1>2. CASE f.t # "string"
  BY <1>2 DEF IsValue, Cost, SizeNumber, SizeNull, SizeEnd
<1> QED
  BY <1>1, <1>2 DEF IsValue

LEMMA WritesValue ==
  ASSUME NEW b, Ok(b), NEW f, IsValue(f), NEW pkt, Cost(pkt, f) <= b.nb - b.p
  PROVE  \E v \in Items : Wrote(b, Written(b, f), Cost(pkt, f), v) /\ (f.t = "string" => v = f.v)
<1>1. CASE f.t = "string" /\ f.v \in Texts
  <2>1. Written(b, f) = WriteString(b, f.v) /\ Cost(pkt, f) = SizeStr(f.v)
    BY <1>1 DEF Written, Write, Cost
  <2>2. Wrote(b, WriteString(b, f.v), SizeStr(f.v), f.v) /\ f.v \in Items
    BY <1>1, <2>1, WritesString, TextItems
  <2> QED
    BY <2>1, <2>2
<1>2. CASE f.t = "number" /\ f.v \in Nat
  <2>1. Written(b, f) = WriteNumber(b, f.v) /\ Cost(pkt, f) = 1 + 8
    BY <1>2 DEF Written, Write, Cost, SizeNumber
  <2>2. f.v \in Items
    BY <1>2 DEF Items
  <2>3. Wrote(b, WriteNumber(b, f.v), 1 + 8, f.v)
    BY <2>1, <2>2, WritesTwo DEF WriteNumber
  <2> QED
    BY <1>2, <2>1, <2>2, <2>3
<1>3. CASE f.t = "int" /\ f.v \in Nat
  <2>1. Written(b, f) = WriteInt(b, f.v) /\ Cost(pkt, f) = 4
    BY <1>3 DEF Written, Write, Cost
  <2>2. f.v \in Items
    BY <1>3 DEF Items
  <2>3. Wrote(b, WriteInt(b, f.v), 4, f.v)
    BY <2>1, <2>2, WritesOne DEF WriteInt
  <2> QED
    BY <1>3, <2>1, <2>2, <2>3
<1>4. CASE f.t = "null"
  <2>1. Written(b, f) = WriteNull(b) /\ Cost(pkt, f) = 1
    BY <1>4 DEF Written, Write, Cost, SizeNull
  <2>2. "null" \in Items
    BY DEF Items
  <2>3. Wrote(b, WriteNull(b), 1, "null")
    BY <2>1, <2>2, WritesOne DEF WriteNull
  <2> QED
    BY <1>4, <2>1, <2>2, <2>3
<1>5. CASE f.t = "object"
  <2>1. Written(b, f) = Ignoring(WriteObject(b)) /\ Cost(pkt, f) = 1
    BY <1>5 DEF Written, Write, Cost
  <2>2. "{" \in Items
    BY DEF Items
  <2>3. Wrote(b, WriteObject(b), 1, "{")
    BY <2>1, <2>2, WritesOne DEF WriteObject
  <2>4. Ignoring(WriteObject(b)) = WriteObject(b)
    BY <2>3, Keeps DEF Wrote
  <2> QED
    BY <1>5, <2>1, <2>2, <2>3, <2>4
<1>6. CASE f.t = "end"
  <2>1. Written(b, f) = Ignoring(WriteEnd(b)) /\ Cost(pkt, f) = 2 + 1
    BY <1>6 DEF Written, Write, Cost, SizeEnd
  <2>2. "}" \in Items
    BY DEF Items
  <2>3. Wrote(b, WriteEnd(b), 2 + 1, "}")
    BY <2>1, <2>2, WritesTwo DEF WriteEnd
  <2>4. Ignoring(WriteEnd(b)) = WriteEnd(b)
    BY <2>3, Keeps DEF Wrote
  <2> QED
    BY <1>6, <2>1, <2>2, <2>3, <2>4
<1> QED
  BY <1>1, <1>2, <1>3, <1>4, <1>5, <1>6 DEF IsValue

(* One pair of connect's object.                                           *)
PairCost(f, v) == SizeUtf8(Word(f.key)) + SizeOfType(f.t, v)

LEMMA PairCosts ==
  ASSUME NEW f, Word(f.key) \in Texts, NEW v, PairTyped(f.t, v)
  PROVE  /\ SizeUtf8(Word(f.key)) \in Nat /\ SizeOfType(f.t, v) \in Nat
         /\ PairCost(f, v) \in Nat /\ v \in Items
<1>1. SizeUtf8(Word(f.key)) \in Nat
  BY TextItems
<1>2. SizeOfType(f.t, v) \in Nat /\ v \in Items
  <2>1. CASE f.t = "text" /\ v \in Texts
    BY <2>1, TextItems DEF SizeOfType
  <2>2. CASE f.t = "flag" /\ v \in BOOLEAN
    <3>1. SizeOfType(f.t, v) = 1 + 1
      BY <2>2 DEF SizeOfType, SizeBoolean
    <3>2. v \in Items
      BY <2>2, Zenon DEF Items
    <3>3. 1 + 1 \in Nat
      OBVIOUS
    <3> QED
      BY <3>1, <3>2, <3>3, Zenon
  <2>3. CASE f.t = "count" /\ v \in Nat
    <3>1. SizeOfType(f.t, v) = 1 + 8
      BY <2>3 DEF SizeOfType, SizeNumber
    <3>2. v \in Items
      BY <2>3, Zenon DEF Items
    <3> QED
      BY <3>1, <3>2
  <2> QED
    BY <2>1, <2>2, <2>3 DEF PairTyped
<1> QED
  BY <1>1, <1>2 DEF PairCost

LEMMA WritesPair ==
  ASSUME NEW b, Ok(b), NEW f, Word(f.key) \in Texts, NEW v, PairTyped(f.t, v),
         PairCost(f, v) <= b.nb - b.p
  PROVE  LET w == WritePair(b, f, v)
         IN /\ Ok(w) /\ w.p = b.p + PairCost(f, v) /\ w.nb = b.nb
            /\ w.data = Append(Append(b.data, Word(f.key)), v)
<1> DEFINE k == SizeUtf8(Word(f.key))
           s == SizeOfType(f.t, v)
           named == WriteUtf8(b, Word(f.key))
<1>1. k \in Nat /\ s \in Nat /\ v \in Items
  BY PairCosts
<1>2. k + s <= b.nb - b.p /\ b.p \in Nat /\ b.nb \in Nat
  BY DEF PairCost, Ok, Buffers
<1>3. k <= b.nb - b.p
  <2> HIDE DEF k, s
  <2> QED
    BY <1>1, <1>2
<1>4. Wrote(b, named, k, Word(f.key))
  BY <1>3, WritesUtf8
<1>5. Ignoring(named) = named
  BY <1>4, Keeps DEF Wrote
<1> HIDE DEF named, k
<1>6. Ok(named) /\ s <= named.nb - named.p
  <2> HIDE DEF s
  <2> QED
    BY <1>1, <1>2, <1>4 DEF Wrote
<1> DEFINE w == CASE f.t = "text" -> WriteString(named, v)
                  [] f.t = "flag" -> WriteBoolean(named, v)
                  [] f.t = "count" -> WriteNumber(named, v)
<1>7. Wrote(named, w, s, v)
  <2>1. CASE f.t = "text" /\ v \in Texts
    <3>1. w = WriteString(named, v) /\ s = SizeStr(v)
      BY <2>1 DEF SizeOfType
    <3> QED
      BY <1>6, <2>1, <3>1, WritesString
  <2>2. CASE f.t = "flag" /\ v \in BOOLEAN
    <3>1. w = WriteBoolean(named, v) /\ s = 1 + 1
      BY <2>2 DEF SizeOfType, SizeBoolean
    <3>2. Wrote(named, WriteBoolean(named, v), 1 + 1, v)
      BY <1>1, <1>6, <3>1, WritesTwo DEF WriteBoolean
    <3> QED
      BY <3>1, <3>2, Zenon
  <2>3. CASE f.t = "count" /\ v \in Nat
    <3>1. w = WriteNumber(named, v) /\ s = 1 + 8
      BY <2>3 DEF SizeOfType, SizeNumber
    <3>2. Wrote(named, WriteNumber(named, v), 1 + 8, v)
      BY <1>1, <1>6, <3>1, WritesTwo DEF WriteNumber
    <3> QED
      BY <3>1, <3>2, Zenon
  <2> QED
    BY <2>1, <2>2, <2>3 DEF PairTyped
<1>8. WritePair(b, f, v) = Ignoring(w)
  BY <1>5, Zenon DEF WritePair, named, w
<1> HIDE DEF w
<1>9. Ignoring(w) = w
  BY <1>7, Keeps DEF Wrote
<1>10. w.p = b.p + (k + s)
  <2> HIDE DEF s
  <2> QED
    BY <1>1, <1>2, <1>4, <1>7 DEF Wrote
<1>11. PairCost(f, v) = k + s
  BY DEF PairCost, k
<1>12. w.nb = b.nb /\ w.data = Append(Append(b.data, Word(f.key)), v) /\ Ok(w)
  BY <1>4, <1>7, Zenon DEF Wrote
<1> QED
  BY <1>8, <1>9, <1>10, <1>11, <1>12, Zenon
-----------------------------------------------------------------------------
(* What the fields of a packet take, one by one and together.              *)

LEMMA PairCostIs ==
  ASSUME NEW i \in 1 .. 11, NEW pkt
  PROVE  Cost(pkt, ObjectPairs[i]) = PairCost(ObjectPairs[i], pkt[Field[KeyAt(i)]])
<1>1. ObjectPairs[i].t \in {"text", "flag", "count"}
  BY PairsAre
<1>2. KeyAt(i) = ObjectPairs[i].key
  BY DEF KeyAt
<1> QED
  BY <1>1, <1>2 DEF Cost, PairCost

LEMMA PairIsKnown ==
  ASSUME ContextInv, Addressable, NEW i \in 1 .. 11
  PROVE  LET f == ObjectPairs[i]
             v == ConnectPacket[Field[KeyAt(i)]]
         IN /\ Word(f.key) \in Texts /\ PairTyped(f.t, v)
            /\ PairCost(f, v) \in Nat /\ Cost(ConnectPacket, f) = PairCost(f, v)
<1>1. Word(ObjectPairs[i].key) \in Texts
  BY KeysStored DEF KeyAt
<1>2. PairTyped(ObjectPairs[i].t, ConnectPacket[Field[KeyAt(i)]])
  BY PairsTyped
<1>3. PairCost(ObjectPairs[i], ConnectPacket[Field[KeyAt(i)]]) \in Nat
  BY <1>1, <1>2, PairCosts
<1> QED
  BY <1>1, <1>2, <1>3, PairCostIs

LEMMA CostsTyped ==
  ASSUME ContextInv, NEW k \in Kinds, Sendable(k)
  PROVE  /\ Costs(k) \in [1 .. 15 -> Nat]
         /\ \A i \in 1 .. Many(k) : Costs(k)[i] = Cost(PacketOf(k), FieldsOf(k)[i])
         /\ \A i \in 1 .. 15 : i > Many(k) => Costs(k)[i] = 0
<1>1. FieldsFit(FieldsOf(k), Many(k), k)
  BY FieldsKnown
<1>2. Many(k) \in 1 .. 15
  BY <1>1 DEF FieldsFit
<1>3. ASSUME NEW i \in 1 .. Many(k) PROVE Cost(PacketOf(k), FieldsOf(k)[i]) \in Nat
  <2>1. IF IsPair(k, i) THEN FieldsOf(k)[i] = ObjectPairs[i - 3] ELSE IsValue(FieldsOf(k)[i])
    BY <1>1, Zenon DEF FieldsFit
  <2>2. CASE IsPair(k, i)
    <3>1. k = "connect" /\ i - 3 \in 1 .. 11
      BY <2>2 DEF IsPair
    <3>2. Addressable /\ PacketOf(k) = ConnectPacket
      BY <3>1 DEF Sendable, PacketOf
    <3>3. PICK j \in 1 .. 11 : j = i - 3
      BY <3>1
    <3>4. FieldsOf(k)[i] = ObjectPairs[j]
      BY <2>1, <2>2, <3>3
    <3> QED
      BY <3>2, <3>4, PairIsKnown, Zenon
  <2>3. CASE ~IsPair(k, i)
    BY <2>1, <2>3, ValueCosts, Zenon
  <2> QED
    BY <2>2, <2>3
<1> QED
  BY <1>2, <1>3 DEF Costs

LEMMA LeftStep ==
  ASSUME NEW c \in [1 .. 15 -> Nat], NEW m \in 0 .. 14
  PROVE  Left(c, m) = c[m + 1] + Left(c, m + 1) /\ Left(c, m + 1) \in Nat /\ c[m + 1] \in Nat
<1> DEFINE a(i) == From(c, m, i)
           b(i) == From(c, m + 1, i)
<1>1. \A i \in 1 .. 15 : a(i) \in Nat /\ b(i) \in Nat /\ (i # m + 1 => a(i) = b(i))
  BY DEF From
<1>2. a(m + 1) = c[m + 1] /\ b(m + 1) = 0 /\ c[m + 1] \in Nat
  BY DEF From
<1>3. Left(c, m) = a(1) + a(2) + a(3) + a(4) + a(5) + a(6) + a(7) + a(8) + a(9) + a(10) + a(11)
                     + a(12) + a(13) + a(14) + a(15)
  BY DEF Left
<1>4. Left(c, m + 1) = b(1) + b(2) + b(3) + b(4) + b(5) + b(6) + b(7) + b(8) + b(9) + b(10) + b(11)
                         + b(12) + b(13) + b(14) + b(15)
  BY DEF Left
<1> HIDE DEF a, b
<1>5. /\ a(1) \in Nat /\ a(2) \in Nat /\ a(3) \in Nat /\ a(4) \in Nat /\ a(5) \in Nat
      /\ a(6) \in Nat /\ a(7) \in Nat /\ a(8) \in Nat /\ a(9) \in Nat /\ a(10) \in Nat
      /\ a(11) \in Nat /\ a(12) \in Nat /\ a(13) \in Nat /\ a(14) \in Nat /\ a(15) \in Nat
  BY <1>1
<1>6. /\ b(1) \in Nat /\ b(2) \in Nat /\ b(3) \in Nat /\ b(4) \in Nat /\ b(5) \in Nat
      /\ b(6) \in Nat /\ b(7) \in Nat /\ b(8) \in Nat /\ b(9) \in Nat /\ b(10) \in Nat
      /\ b(11) \in Nat /\ b(12) \in Nat /\ b(13) \in Nat /\ b(14) \in Nat /\ b(15) \in Nat
  BY <1>1
<1>7. Left(c, m + 1) \in Nat
  BY <1>4, <1>6
<1> DEFINE d == c[m + 1]
<1>8. \A i \in 1 .. 15 : a(i) = b(i) + (IF i = m + 1 THEN d ELSE 0)
  BY <1>1, <1>2
<1>9. d \in Nat
  BY <1>2
<1> HIDE DEF d
<1>10. Left(c, m) = d + Left(c, m + 1)
  <2>1. CASE m \in 0 .. 4
    BY ONLY <1>3, <1>4, <1>6, <1>8, <1>9, <2>1, SMTT(60)
  <2>2. CASE m \in 5 .. 9
    BY ONLY <1>3, <1>4, <1>6, <1>8, <1>9, <2>2, SMTT(60)
  <2>3. CASE m \in 10 .. 14
    BY ONLY <1>3, <1>4, <1>6, <1>8, <1>9, <2>3, SMTT(60)
  <2> QED
    BY <2>1, <2>2, <2>3
<1> QED
  BY <1>7, <1>9, <1>10 DEF d

LEMMA LeftEnds ==
  ASSUME NEW c \in [1 .. 15 -> Nat], NEW n \in 1 .. 15, \A i \in 1 .. 15 : i > n => c[i] = 0
  PROVE  Left(c, n) = 0
<1>1. \A i \in 1 .. 15 : From(c, n, i) = 0
  BY DEF From
<1> HIDE DEF From
<1> QED
  BY <1>1 DEF Left

LEMMA LeftBegins ==
  ASSUME NEW c \in [1 .. 15 -> Nat]
  PROVE  Left(c, 0) = c[1] + c[2] + c[3] + c[4] + c[5] + c[6] + c[7] + c[8] + c[9] + c[10] + c[11]
                        + c[12] + c[13] + c[14] + c[15]
<1>1. \A i \in 1 .. 15 : From(c, 0, i) = c[i]
  BY DEF From
<1> QED
  BY <1>1 DEF Left
-----------------------------------------------------------------------------
(* The store while connect's packet is made.                               *)

LEMMA FilledFinds ==
  ASSUME KVInv, NEW n \in 0 .. 11, Filled(n)
  PROVE  /\ \A i \in 1 .. n : Found(KeyAt(i)) = Field[KeyAt(i)]
         /\ \A i \in 1 .. 11 : i > n => ~Has(KeyAt(i))
<1>1. there /\ size = n
  BY DEF Filled
<1>2. ASSUME NEW i \in 1 .. n PROVE Found(KeyAt(i)) = Field[KeyAt(i)]
  <2>1. i \in 1 .. 11
    OBVIOUS
  <2>2. KeyAt(i) \in Keys /\ Field[KeyAt(i)] \in Values
    BY <2>1, KeysStored
  <2>3. PICK e : e = pairs[i - 1]
    OBVIOUS
  <2>4. e = [key |-> KeyAt(i), value |-> Field[KeyAt(i)]]
    BY <2>3 DEF Filled
  <2>5. e # Nothing /\ e.key = KeyAt(i) /\ e.value = Field[KeyAt(i)]
    BY <2>2, <2>4, EntryIs
  <2>6. i - 1 \in PlacesIn(pairs, size, KeyAt(i))
    BY <1>1, <2>3, <2>5 DEF PlacesIn
  <2>7. Value(pairs, size, KeyAt(i)) = pairs[i - 1].value
    BY <1>1, <2>6, FirstIsOnly DEF KVInv
  <2> QED
    BY <1>1, <2>3, <2>5, <2>7, Searches
<1>3. ASSUME NEW i \in 1 .. 11, i > n PROVE ~Has(KeyAt(i))
  <2> SUFFICES ASSUME NEW j \in PlacesIn(pairs, size, KeyAt(i)) PROVE FALSE
    BY Searches
  <2>1. j \in 0 .. n - 1 /\ pairs[j].key = KeyAt(i)
    BY <1>1 DEF PlacesIn
  <2>2. PICK l \in 1 .. n : l - 1 = j
    BY <2>1
  <2>3. pairs[l - 1] = [key |-> KeyAt(l), value |-> Field[KeyAt(l)]]
    BY DEF Filled
  <2>4. KeyAt(l) = KeyAt(i)
    BY <2>1, <2>2, <2>3
  <2>5. l \in 1 .. 11
    OBVIOUS
  <2>6. l = i
    BY <2>4, <2>5, KeysDiffer
  <2> QED
    BY <1>3, <2>6
<1> QED
  BY <1>2, <1>3

LEMMA FilledMore ==
  ASSUME KVInv, NEW n \in 0 .. 10, Filled(n), Put(KeyAt(n + 1), Field[KeyAt(n + 1)])
  PROVE  Filled(n + 1)' /\ UNCHANGED wild
<1> DEFINE k == KeyAt(n + 1)
           v == Field[KeyAt(n + 1)]
<1>1. there /\ capacity = 20 /\ DOMAIN pairs = 0 .. 19 /\ size = n
  BY DEF Filled
<1>2. ~Has(k)
  BY FilledFinds
<1>3. ~Full(size + 1) /\ size \in DOMAIN pairs
  BY <1>1 DEF Full
<1> HIDE DEF k, v
<1>4. PutNew(k, v)
  BY <1>2, <1>3 DEF Put, PutOver, PutNewExpand, PutNewExpandFails, PutOutside, k, v
<1>5. /\ pairs' = [pairs EXCEPT ![size] = [key |-> k, value |-> v]]
      /\ size' = n + 1 /\ there' = there /\ capacity' = capacity /\ wild' = wild
  BY <1>1, <1>4 DEF PutNew
<1>6. DOMAIN pairs' = 0 .. 19
  BY <1>1, <1>5
<1>7. ASSUME NEW i \in 1 .. n + 1
      PROVE  pairs'[i - 1] = [key |-> KeyAt(i), value |-> Field[KeyAt(i)]]
  <2>1. CASE i = n + 1
    <3>1. i - 1 = size
      BY <1>1, <2>1
    <3> QED
      BY <1>3, <1>5, <2>1, <3>1 DEF k, v
  <2>2. CASE i # n + 1
    <3>1. i \in 1 .. n /\ i - 1 # size /\ i - 1 \in DOMAIN pairs
      BY <1>1, <2>2
    <3>2. pairs[i - 1] = [key |-> KeyAt(i), value |-> Field[KeyAt(i)]]
      BY <3>1 DEF Filled
    <3> QED
      BY <1>5, <3>1, <3>2
  <2> QED
    BY <2>1, <2>2
<1> QED
  BY <1>1, <1>5, <1>6, <1>7 DEF Filled

LEMMA FilledFirst == Create(20, 5) => Filled(0)' /\ UNCHANGED wild
<1> SUFFICES ASSUME Create(20, 5) PROVE Filled(0)' /\ UNCHANGED wild
  OBVIOUS
<1>1. /\ there' = TRUE /\ pairs' = [i \in 0 .. 20 - 1 |-> Nothing] /\ size' = 0 /\ capacity' = 20
      /\ wild' = wild
  BY DEF Create
<1>2. DOMAIN pairs' = 0 .. 19
  BY <1>1
<1>3. 1 .. 0 = {}
  OBVIOUS
<1> QED
  BY <1>1, <1>2, <1>3 DEF Filled

(* The sizes that get_size computes.                                       *)
LEMMA ConnectSizeIs ==
  ASSUME KVInv, ContextInv, Addressable, Filled(11)
  PROVE  ConnectSize(ConnectPacket) = Left(Costs("connect"), 0)
<1> DEFINE P == ConnectPacket
           F == FieldsOf("connect")
           c == Costs("connect")
           s(i) == PairSize(P, i)
<1>1. "connect" \in Kinds /\ Sendable("connect") /\ PacketOf("connect") = P /\ Many("connect") = 15
  BY DEF Kinds, Sendable, NameKinds, PacketOf, Many
<1>2. c \in [1 .. 15 -> Nat] /\ \A i \in 1 .. 15 : c[i] = Cost(P, F[i])
  BY <1>1, CostsTyped
<1>3. FieldsFit(F, 15, "connect")
  BY <1>1, FieldsKnown
<1>4. \A i \in 1 .. 15 : IsPair("connect", i) => F[i] = ObjectPairs[i - 3]
  BY <1>1, <1>3, Zenon DEF FieldsFit
<1>5. ASSUME NEW i \in 1 .. 11 PROVE c[i + 3] = s(i)
  <2>1. i + 3 \in 1 .. 15 /\ IsPair("connect", i + 3) /\ (i + 3) - 3 = i
    BY DEF IsPair
  <2>2. F[i + 3] = ObjectPairs[i]
    BY <1>4, <2>1
  <2>3. c[i + 3] = PairCost(ObjectPairs[i], P[Field[KeyAt(i)]])
    BY <1>2, <2>1, <2>2, PairCostIs
  <2>4. Found(KeyAt(i)) = Field[KeyAt(i)]
    BY FilledFinds
  <2> QED
    BY <2>3, <2>4 DEF PairSize, PairCost, KeyAt
<1>6. c[1] = SizeStr(P.command_name) /\ c[2] = SizeNumber /\ c[3] = 1 /\ c[15] = SizeEnd
  <2>1. F = ConnectFields(P)
    BY DEF FieldsOf, PacketOf
  <2> HIDE DEF P, F, c
  <2>2. /\ F[1] = Text(P.command_name) /\ F[2] = Number(P.transaction_id)
        /\ F[3] = [t |-> "object"] /\ F[15] = [t |-> "end"]
    BY ONLY <2>1, ConnectFieldsAre
  <2>3. Cost(P, F[1]) = SizeStr(P.command_name)
    BY <2>2 DEF Cost, Text
  <2>4. Cost(P, F[2]) = SizeNumber
    BY <2>2 DEF Cost, Number
  <2>5. Cost(P, F[3]) = 1 /\ Cost(P, F[15]) = SizeEnd
    BY <2>2 DEF Cost
  <2> QED
    BY <1>2, <2>3, <2>4, <2>5
<1> HIDE DEF P, F, c, s
<1>7. /\ c[4] = s(1) /\ c[5] = s(2) /\ c[6] = s(3) /\ c[7] = s(4) /\ c[8] = s(5) /\ c[9] = s(6)
      /\ c[10] = s(7) /\ c[11] = s(8) /\ c[12] = s(9) /\ c[13] = s(10) /\ c[14] = s(11)
  BY <1>5
<1>8. \A i \in 1 .. 15 : c[i] \in Nat
  BY <1>2
<1>9. ObjectSize(P) = 1 + s(1) + s(2) + s(3) + s(4) + s(5) + s(6) + s(7) + s(8) + s(9) + s(10)
                        + s(11) + SizeEnd
  BY DEF ObjectSize, s
<1>10. ConnectSize(P) = SizeStr(P.command_name) + SizeNumber + ObjectSize(P)
  BY DEF ConnectSize
<1>11. Left(c, 0) = c[1] + c[2] + c[3] + c[4] + c[5] + c[6] + c[7] + c[8] + c[9] + c[10] + c[11]
                     + c[12] + c[13] + c[14] + c[15]
  BY <1>2, LeftBegins
<1> QED
  BY <1>6, <1>7, <1>8, <1>9, <1>10, <1>11 DEF P, c

LEMMA OtherSizesAre ==
  ASSUME ContextInv, NEW k \in Kinds, Sendable(k), k # "connect"
  PROVE  /\ k = "set_window" => 4 = Left(Costs(k), 0)
         /\ k = "create" => CreateSize(PacketOf(k)) = Left(Costs(k), 0)
         /\ k \in {"release", "fcpublish"} => NameSize(PacketOf(k)) = Left(Costs(k), 0)
         /\ k = "publish" => PublishSize(PacketOf(k)) = Left(Costs(k), 0)
<1> DEFINE c == Costs(k)
           P == PacketOf(k)
           F == FieldsOf(k)
           m == Many(k)
<1>1. /\ c \in [1 .. 15 -> Nat]
      /\ \A i \in 1 .. m : c[i] = Cost(P, F[i])
      /\ \A i \in 1 .. 15 : i > m => c[i] = 0
  BY CostsTyped
<1>2. Left(c, 0) = c[1] + c[2] + c[3] + c[4] + c[5] + c[6] + c[7] + c[8] + c[9] + c[10] + c[11]
                     + c[12] + c[13] + c[14] + c[15]
  BY <1>1, LeftBegins
<1>3. \A i \in 1 .. 15 : c[i] \in Nat
  BY <1>1
<1>4. CASE k = "set_window"
  <2>1. m = 1 /\ F = SetWindowFields(P)
    BY <1>4, Zenon DEF Many, FieldsOf
  <2> HIDE DEF c, P, F, m
  <2>2. F[1] = [t |-> "int", v |-> P.ackowledgement_window_size]
    BY <2>1, ShortFieldsAre, Zenon
  <2>3. Cost(P, F[1]) = 4
    BY <2>2 DEF Cost
  <2>4. c[1] = 4 /\ \A i \in 2 .. 15 : c[i] = 0
    BY <1>1, <2>1, <2>3
  <2>5. Left(c, 0) = 4
    BY <1>2, <2>4
  <2> QED
    BY <1>4, <2>5 DEF c
<1>5. ASSUME F[1] = Text(P.command_name), F[2] = Number(P.transaction_id), F[3] = NullValue, m \in 3 .. 15
      PROVE  c[1] = SizeStr(P.command_name) /\ c[2] = SizeNumber /\ c[3] = SizeNull
  <2> HIDE DEF c, P, F, m
  <2>1. Cost(P, F[1]) = SizeStr(P.command_name)
    BY <1>5 DEF Cost, Text
  <2>2. Cost(P, F[2]) = SizeNumber
    BY <1>5 DEF Cost, Number
  <2>3. Cost(P, F[3]) = SizeNull
    BY <1>5 DEF Cost, NullValue
  <2> QED
    BY <1>1, <1>5, <2>1, <2>2, <2>3
<1>6. \A v : Cost(P, Text(v)) = SizeStr(v)
  BY DEF Cost, Text
<1>7. CASE k = "create"
  <2>1. m = 3 /\ F = CreateFields(P)
    BY <1>7, Zenon DEF Many, FieldsOf
  <2> HIDE DEF c, P, F, m
  <2>2. F[1] = Text(P.command_name) /\ F[2] = Number(P.transaction_id) /\ F[3] = NullValue
    BY <2>1, ShortFieldsAre, Zenon
  <2>3. c[1] = SizeStr(P.command_name) /\ c[2] = SizeNumber /\ c[3] = SizeNull
    BY <1>5, <2>1, <2>2
  <2>4. \A i \in 4 .. 15 : c[i] = 0
    BY <1>1, <2>1
  <2>5. Left(c, 0) = CreateSize(P)
    BY <1>2, <1>3, <2>3, <2>4 DEF CreateSize
  <2> QED
    BY <1>7, <2>5 DEF c, P
<1>8. CASE k \in {"release", "fcpublish"}
  <2>1. m = 4 /\ F = NameFields(P)
    BY <1>8, Zenon DEF Many, FieldsOf
  <2> HIDE DEF c, P, F, m
  <2>2. /\ F[1] = Text(P.command_name) /\ F[2] = Number(P.transaction_id) /\ F[3] = NullValue
        /\ F[4] = Text(P.stream_name)
    BY ONLY <2>1, NameFieldsAre
  <2>3. c[1] = SizeStr(P.command_name) /\ c[2] = SizeNumber /\ c[3] = SizeNull
    BY <1>5, <2>1, <2>2
  <2>4. c[4] = SizeStr(P.stream_name) /\ \A i \in 5 .. 15 : c[i] = 0
    BY <1>1, <1>6, <2>1, <2>2
  <2>5. Left(c, 0) = NameSize(P)
    BY <1>2, <1>3, <2>3, <2>4 DEF CreateSize, NameSize
  <2> QED
    BY <1>8, <2>5 DEF c, P
<1>9. CASE k = "publish"
  <2>1. m = 5 /\ F = PublishFields(P)
    BY <1>9, Zenon DEF Many, FieldsOf
  <2> HIDE DEF c, P, F, m
  <2>2. /\ F[1] = Text(P.command_name) /\ F[2] = Number(P.transaction_id) /\ F[3] = NullValue
        /\ F[4] = Text(P.stream_name) /\ F[5] = Text(P.stype)
    BY ONLY <2>1, PublishFieldsAre
  <2>3. c[1] = SizeStr(P.command_name) /\ c[2] = SizeNumber /\ c[3] = SizeNull
    BY <1>5, <2>1, <2>2
  <2>4. c[4] = SizeStr(P.stream_name) /\ c[5] = SizeStr(P.stype) /\ \A i \in 6 .. 15 : c[i] = 0
    BY <1>1, <1>6, <2>1, <2>2
  <2>5. Left(c, 0) = PublishSize(P)
    BY <1>2, <1>3, <2>3, <2>4 DEF CreateSize, NameSize, PublishSize
  <2> QED
    BY <1>9, <2>5 DEF c, P
<1> QED
  BY <1>4, <1>7, <1>8, <1>9
-----------------------------------------------------------------------------
(* Where the making of a packet is.                                        *)

FillingAt(n) ==
  /\ todo = SubSeq(ObjectPairs, n + 1, 11) /\ (there => Filled(n))
  /\ todo = << >> <=> n = 11
  /\ n < 11 => /\ Head(todo).key = KeyAt(n + 1)
               /\ Tail(todo) = SubSeq(ObjectPairs, (n + 1) + 1, 11)

LEMMA FillingIs ==
  ASSUME FillInv
  PROVE  \E n \in 0 .. 11 : FillingAt(n)
<1>1. PICK n \in 0 .. 11 : todo = SubSeq(ObjectPairs, n + 1, 11) /\ (there => Filled(n))
  BY DEF FillInv
<1>2. /\ SubSeq(ObjectPairs, n + 1, 11) = << >> <=> n = 11
      /\ n < 11 => /\ Head(SubSeq(ObjectPairs, n + 1, 11)) = ObjectPairs[n + 1]
                   /\ Tail(SubSeq(ObjectPairs, n + 1, 11)) = SubSeq(ObjectPairs, (n + 1) + 1, 11)
  <2> DEFINE q == ObjectPairs
             l == Len(q)
  <2>0. q \in Seq(PairsOf)
    BY PairsSeq
  <2>1. l = 11
    BY PairsAre
  <2>2. n \in 0 .. l
    BY <2>1
  <2> HIDE DEF q
  <2>3. /\ SubSeq(q, n + 1, l) = << >> <=> n = l
        /\ n < l => /\ Head(SubSeq(q, n + 1, l)) = q[n + 1]
                    /\ Tail(SubSeq(q, n + 1, l)) = SubSeq(q, (n + 1) + 1, l)
    BY ONLY <2>0, <2>2, RestOf
  <2> HIDE DEF l
  <2> QED
    BY <2>1, <2>3 DEF q
<1> QED
  BY <1>1, <1>2 DEF FillingAt, KeyAt

EncodingAt(k, m) ==
  /\ packet.type = k /\ packet = PacketOf(k)
  /\ Sendable(k)
  /\ IF k = "connect" THEN Filled(11) ELSE ~there
  /\ k \in NameKinds \cup {"create"} => context.stream # Null
  /\ Encoded(k, m)
  /\ todo = << >> <=> m = Many(k)
  /\ m < Many(k) => /\ Head(todo) = FieldsOf(k)[m + 1]
                    /\ Tail(todo) = SubSeq(FieldsOf(k), (m + 1) + 1, Many(k))

LEMMA EncodingIs ==
  ASSUME ContextInv, EncodeInv
  PROVE  \E k \in Kinds : \E m \in 0 .. Many(k) : EncodingAt(k, m)
<1>1. PICK k \in Kinds :
       /\ packet.type = k /\ packet = PacketOf(k)
       /\ IF k = "connect" THEN ip # Null /\ context.app # Null /\ Filled(11) ELSE ~there
       /\ k \in NameKinds \cup {"create"} => context.stream # Null
       /\ \E m \in 0 .. Many(k) : Encoded(k, m)
  BY DEF EncodeInv
<1>2. PICK m \in 0 .. Many(k) : Encoded(k, m)
  BY <1>1
<1>3. todo = SubSeq(FieldsOf(k), m + 1, Many(k))
  BY <1>2 DEF Encoded
<1>4. PICK S : FieldsOf(k) \in Seq(S)
  BY FieldsKnown DEF FieldsFit
<1>5. Many(k) = Len(FieldsOf(k)) /\ Many(k) \in 1 .. 15
  BY FieldsKnown DEF FieldsFit
<1>6. /\ todo = << >> <=> m = Many(k)
      /\ m < Many(k) => /\ Head(todo) = FieldsOf(k)[m + 1]
                        /\ Tail(todo) = SubSeq(FieldsOf(k), (m + 1) + 1, Many(k))
  BY <1>3, <1>4, <1>5, RestOf
<1>7. Sendable(k)
  BY <1>1 DEF Sendable, Addressable
<1> QED
  BY <1>1, <1>2, <1>6, <1>7 DEF EncodingAt

(* A field is a pair of the object or a value, and which one is told by    *)
(* its key.                                                                *)
LEMMA NextField ==
  ASSUME ContextInv, NEW k \in Kinds, NEW m \in 0 .. Many(k), EncodingAt(k, m), todo # << >>
  PROVE  /\ m + 1 \in 1 .. Many(k) /\ m \in 0 .. 14 /\ Many(k) \in 1 .. 15
         /\ Head(todo) = FieldsOf(k)[m + 1]
         /\ "key" \in DOMAIN Head(todo) =>
              k = "connect" /\ m - 2 \in 1 .. 11 /\ Head(todo) = ObjectPairs[m - 2]
         /\ "key" \notin DOMAIN Head(todo) => IsValue(Head(todo)) /\ ~IsPair(k, m + 1)
<1>1. Many(k) \in 1 .. 15
  BY FieldsKnown DEF FieldsFit
<1>2. m < Many(k) /\ m + 1 \in 1 .. Many(k) /\ m \in 0 .. 14
  BY <1>1 DEF EncodingAt
<1>3. Head(todo) = FieldsOf(k)[m + 1]
  BY <1>2 DEF EncodingAt
<1>4. IF IsPair(k, m + 1) THEN FieldsOf(k)[m + 1] = ObjectPairs[(m + 1) - 3]
      ELSE IsValue(FieldsOf(k)[m + 1])
  <2>1. FieldsFit(FieldsOf(k), Many(k), k) /\ Sendable(k)
    BY FieldsKnown DEF EncodingAt
  <2>2. \A i \in 1 .. Many(k) : IF IsPair(k, i) THEN FieldsOf(k)[i] = ObjectPairs[i - 3]
                                ELSE IsValue(FieldsOf(k)[i])
    BY <2>1, Zenon DEF FieldsFit
  <2> QED
    BY <1>2, <2>2
<1>5. CASE IsPair(k, m + 1)
  <2>1. k = "connect" /\ m - 2 \in 1 .. 11 /\ (m + 1) - 3 = m - 2
    BY <1>5 DEF IsPair
  <2>2. Head(todo) = ObjectPairs[m - 2]
    BY <1>3, <1>4, <1>5, <2>1
  <2>3. "key" \in DOMAIN Head(todo)
    BY <2>1, <2>2, PairsAre
  <2> QED
    BY <1>1, <1>2, <1>3, <2>1, <2>2, <2>3
<1>6. CASE ~IsPair(k, m + 1)
  <2>1. IsValue(Head(todo)) /\ "key" \notin DOMAIN Head(todo)
    BY <1>3, <1>4, <1>6 DEF IsValue
  <2> QED
    BY <1>1, <1>2, <1>3, <1>6, <2>1
<1> QED
  BY <1>5, <1>6

(* What the client does to the store is what a user of it may do.          *)
LEMMA UsesStore ==
  ASSUME CInv, Next
  PROVE  [KVNext]_kvsVars
<1> USE DEF CInv, CommandInv
<1>1. ASSUME ResolveOverruns \/ ConnectOverruns PROVE UNCHANGED kvsVars
  BY <1>1 DEF ResolveOverruns, ConnectOverruns
<1>2. ASSUME ConnectApp PROVE KVNext
  <2>1. 20 \in Nat /\ 5 \in Nat
    OBVIOUS
  <2> QED
    BY <1>2, <2>1 DEF ConnectApp, KVNext
<1>3. ASSUME Fill PROVE KVNext
  <2>1. FillInv /\ todo # << >>
    BY <1>3 DEF Fill, MakingInv
  <2>2. PICK n \in 0 .. 11 : FillingAt(n)
    BY <2>1, FillingIs
  <2>3. n < 11 /\ n + 1 \in 1 .. 11 /\ Head(todo).key = KeyAt(n + 1)
    BY <2>1, <2>2 DEF FillingAt
  <2>4. KeyAt(n + 1) \in Keys /\ Field[KeyAt(n + 1)] \in Values
    BY <2>3, KeysStored
  <2> QED
    BY <1>3, <2>3, <2>4 DEF Fill, KVNext
<1>4. ASSUME Measure PROVE KVNext
  <2>1. "pageUrl" \in Keys
    BY KeysStored, PairsAre
  <2> QED
    BY <1>4, <2>1 DEF Measure, KVNext
<1>5. ASSUME EncodePair PROVE KVNext
  <2>1. EncodeInv /\ todo # << >> /\ "key" \in DOMAIN Head(todo) /\ Get(Head(todo).key)
    BY <1>5 DEF EncodePair, MakingInv
  <2>2. PICK k \in Kinds : \E m \in 0 .. Many(k) : EncodingAt(k, m)
    BY <2>1, EncodingIs
  <2>3. PICK m \in 0 .. Many(k) : EncodingAt(k, m)
    BY <2>2
  <2>4. m - 2 \in 1 .. 11 /\ Head(todo) = ObjectPairs[m - 2]
    BY <2>1, <2>3, NextField
  <2>5. Head(todo).key \in Keys
    BY <2>4, KeysStored DEF KeyAt
  <2> QED
    BY <2>1, <2>5 DEF KVNext
<1>6. ASSUME Send \/ SendFails PROVE [KVNext]_kvsVars
  BY <1>6 DEF Send, SendFails, Uninit, KVNext
<1>7. ASSUME \/ \E u \in Urls : NewContext(u)
             \/ Destroy \/ ResolveStops \/ Resolve \/ ConnectNothing \/ MeasureNothing \/ PublishStream
             \/ EncodeValue \/ Receive
      PROVE  UNCHANGED kvsVars
  BY <1>7 DEF NewContext, Destroy, ResolveStops, Resolve, ConnectNothing, MeasureNothing, PublishStream,
              EncodeValue, Receive
<1>8. ASSUME MakeSetWindow \/ MakeRelease \/ MakeFcPublish \/ MakeCreate \/ MakePublish
      PROVE  UNCHANGED kvsVars
  BY <1>8 DEF MakeSetWindow, MakeRelease, MakeFcPublish, MakeCreate, MakePublish, Encoding
<1>9. ASSUME DecodeNoName \/ DecodeOther \/ DecodeUntyped \/ DecodeFails \/ DecodeStream
      PROVE  UNCHANGED kvsVars
  BY <1>9 DEF DecodeNoName, DecodeOther, DecodeUntyped, DecodeFails, DecodeStream, DecodeIs
<1> QED
  BY <1>1, <1>2, <1>3, <1>4, <1>5, <1>6, <1>7, <1>8, <1>9 DEF Next
-----------------------------------------------------------------------------
(* The steps.  Each keeps what is said of the client; the store is above.  *)

LEMMA PacketsSame ==
  ASSUME UNCHANGED <<context, ip>>
  PROVE  /\ ConnectPacket' = ConnectPacket
         /\ \A k : PacketOf(k)' = PacketOf(k) /\ FieldsOf(k)' = FieldsOf(k) /\ Costs(k)' = Costs(k)
<1>1. ConnectPacket' = ConnectPacket
  BY DEF ConnectPacket
<1>2. \A k : PacketOf(k)' = PacketOf(k)
  BY <1>1 DEF PacketOf
<1>3. \A k : FieldsOf(k)' = FieldsOf(k)
  BY <1>2 DEF FieldsOf
<1>4. \A k : Costs(k)' = Costs(k)
  BY <1>2, <1>3 DEF Costs
<1> QED
  BY <1>1, <1>2, <1>3, <1>4

LEMMA SentSame ==
  ASSUME SentInv, UNCHANGED <<url, context, ip, sent>>
  PROVE  SentInv'
<1>1. \A k : PacketOf(k)' = PacketOf(k)
  BY PacketsSame
<1> QED
  BY <1>1 DEF SentInv

LEMMA ContextSame ==
  ASSUME ContextInv, url # Null, UNCHANGED <<url, context, ip, wild>>
  PROVE  ContextInv'
  BY DEF ContextInv

(* Nothing is being made.                                                  *)
LEMMA NothingStays ==
  ASSUME NothingMade, UNCHANGED making, pc' \notin {"fill", "encode"}, url' # Null => ~there'
  PROVE  BufferInv' /\ MakingInv'
<1>1. /\ packet' = NoPacket /\ todo' = << >> /\ buf' = Initialized(0)
  BY DEF NothingMade, making
<1>2. buf' \in Buffers /\ buf'.p <= buf'.nb
  BY <1>1 DEF Initialized, Buffers
<1>3. packet'.type = "none"
  BY <1>1 DEF NoPacket
<1>4. NothingMade'
  BY <1>1 DEF NothingMade, Initialized, NoPacket
<1> QED
  BY <1>2, <1>3, <1>4 DEF BufferInv, MakingInv

LEMMA IdleIs ==
  ASSUME CInv, pc \notin {"fill", "encode", "dead"}
  PROVE  NothingMade /\ (url # Null => ~there) /\ (pc # "idle" => url # Null)
  BY DEF CInv, CommandInv, MakingInv, ContextInv

LEMMA NewContextKeeps == ASSUME CInv, NEW u \in Urls, NewContext(u) PROVE CommandInv'
<1>1. /\ pc = "idle" /\ url = Null /\ ~there /\ ~wild /\ url' = u
      /\ UNCHANGED <<context, ip, pc, making, there, wild, short, reply, sent>>
  BY DEF NewContext, kvsVars, store
<1>2. ContextInv /\ PlaceInv /\ SentInv /\ NothingMade
  BY <1>1, IdleIs DEF CInv, CommandInv
<1>3. ContextInv' /\ PlaceInv'
  BY <1>1, <1>2 DEF ContextInv, PlaceInv, Places, Publishing
<1>4. BufferInv' /\ MakingInv'
  BY <1>1, <1>2, NothingStays
<1>5. SentInv'
  <2>1. \A k \in Kinds : sent[k] = << >>
    BY <1>1, <1>2 DEF SentInv
  <2>2. "connect" \in Kinds /\ NameKinds \subseteq Kinds
    BY DEF Kinds, NameKinds
  <2> QED
    BY <1>1, <1>2, <2>1, <2>2 DEF SentInv
<1> QED
  BY <1>3, <1>4, <1>5 DEF CommandInv

LEMMA DestroyKeeps == CInv /\ Destroy => CommandInv'
<1> SUFFICES ASSUME CInv, Destroy PROVE CommandInv'
  OBVIOUS
<1>1. /\ pc = "idle" /\ url' = Null /\ context' = Blank /\ ip' = Null /\ pc' = pc
      /\ reply' = NoReply /\ sent' = [k \in Kinds |-> << >>]
      /\ packet' = NoPacket /\ todo' = << >> /\ buf' = Initialized(0)
      /\ wild' = wild
  BY DEF Destroy, kvsVars
<1>2. NothingMade /\ ~wild
  BY <1>1, IdleIs DEF CInv, CommandInv, ContextInv
<1>3. ContextInv' /\ PlaceInv'
  BY <1>1, <1>2 DEF ContextInv, PlaceInv, Places, Publishing
<1>4. UNCHANGED making
  BY <1>1, <1>2 DEF NothingMade, making
<1>5. BufferInv' /\ MakingInv'
  BY <1>1, <1>2, <1>4, NothingStays
<1>6. SentInv'
  <2>1. "connect" \in Kinds /\ NameKinds \subseteq Kinds
    BY DEF Kinds, NameKinds
  <2>2. DOMAIN sent' = Kinds /\ \A k \in Kinds : sent'[k] = << >>
    BY <1>1
  <2> QED
    BY <2>1, <2>2 DEF SentInv
<1> QED
  BY <1>3, <1>5, <1>6 DEF CommandInv

LEMMA ResolveKeeps == CInv /\ (ResolveStops \/ Resolve) => CommandInv'
<1> SUFFICES ASSUME CInv, ResolveStops \/ Resolve PROVE CommandInv'
  OBVIOUS
<1>1. /\ pc = "idle" /\ url # Null /\ context' = Parsed(url)
      /\ UNCHANGED <<url, making, there, wild, reply, sent>>
      /\ \/ ip' = ip /\ pc' = pc
         \/ ip' = ip /\ pc' = "dead" /\ Parsed(url).host = Null
         \/ ip' = Parsed(url).host /\ pc' = pc /\ Parsed(url).host # Null
  BY DEF ResolveStops, Resolve, kvsVars, store
<1>2. ContextInv /\ PlaceInv /\ SentInv /\ NothingMade /\ ~there
  BY <1>1, IdleIs DEF CInv, CommandInv
<1>3. ContextInv'
  BY <1>1, <1>2 DEF ContextInv
<1>4. PlaceInv'
  <2>1. pc' = "dead" => ip' = Null
    BY <1>1, <1>2 DEF ContextInv
  <2> QED
    BY <1>1, <1>2, <2>1 DEF PlaceInv, Places, Publishing
<1>5. BufferInv' /\ MakingInv'
  BY <1>1, <1>2, NothingStays
<1>6. SentInv'
  <2>1. context.stream # Null \/ ip # Null => context' = context
    <3>1. Blank.stream = Null
      BY DEF Blank
    <3> QED
      BY <1>1, <1>2, <3>1 DEF ContextInv
  <2>2. ip # Null => ip' = ip
    BY <1>1, <1>2 DEF ContextInv
  <2>3. sent["connect"] # << >> => PacketOf("connect")' = PacketOf("connect") /\ UNCHANGED <<context, ip>>
    BY <1>2, <2>1, <2>2, PacketsSame DEF SentInv
  <2>4. \A k \in NameKinds : sent[k] # << >> => PacketOf(k)' = PacketOf(k) /\ UNCHANGED context
    <3>1. ASSUME context' = context, NEW k \in NameKinds PROVE PacketOf(k)' = PacketOf(k)
      BY <3>1 DEF NameKinds, PacketOf, ReleasePacket, FcPublishPacket, PublishPacket
    <3> QED
      BY <1>2, <2>1, <3>1 DEF SentInv
  <2> QED
    BY <1>1, <1>2, <2>3, <2>4 DEF SentInv
<1> QED
  BY <1>3, <1>4, <1>5, <1>6 DEF CommandInv

LEMMA OverrunKeeps == CInv /\ (ResolveOverruns \/ ConnectOverruns) => CommandInv'
<1> SUFFICES ASSUME CInv, ResolveOverruns \/ ConnectOverruns PROVE CommandInv'
  OBVIOUS
<1>1. /\ pc = "idle" /\ url # Null /\ pc' = "overrun"
      /\ UNCHANGED <<url, context, ip, making, there, wild, reply, sent>>
      /\ \/ Overruns(url)
         \/ ip # Null /\ context.app # Null /\ TcUrlOverruns
  BY DEF ResolveOverruns, ConnectOverruns, session, kvsVars, store
<1>2. ContextInv /\ PlaceInv /\ SentInv /\ NothingMade /\ ~there
  BY <1>1, IdleIs DEF CInv, CommandInv
<1>3. ContextInv' /\ SentInv'
  BY <1>1, <1>2, ContextSame, SentSame
<1>4. TcUrlOverruns' = TcUrlOverruns
  BY <1>1 DEF TcUrlOverruns
<1>5. Overruns(url') = Overruns(url)
  BY <1>1
<1>6. PlaceInv'
  BY <1>1, <1>2, <1>4, <1>5 DEF PlaceInv, Places, Publishing
<1>7. BufferInv' /\ MakingInv'
  BY <1>1, <1>2, NothingStays
<1> QED
  BY <1>3, <1>6, <1>7 DEF CommandInv

LEMMA ConnectNothingKeeps == CInv /\ (ConnectNothing \/ PublishStream) => CommandInv'
<1> SUFFICES ASSUME CInv, ConnectNothing \/ PublishStream PROVE CommandInv'
  OBVIOUS
<1>1. /\ pc = "idle" /\ url # Null
      /\ UNCHANGED <<url, context, ip, making, there, wild, reply, sent>>
      /\ \/ pc' = "dead" /\ (ip = Null \/ context.app = Null \/ context.stream = Null)
         \/ pc' = "release" /\ context.stream # Null
  BY DEF ConnectNothing, PublishStream, session, kvsVars, store
<1>2. ContextInv /\ PlaceInv /\ SentInv /\ NothingMade /\ ~there
  BY <1>1, IdleIs DEF CInv, CommandInv
<1>3. ContextInv' /\ SentInv'
  BY <1>1, <1>2, ContextSame, SentSame
<1>4. PlaceInv'
  BY <1>1, <1>2 DEF PlaceInv, Places, Publishing
<1>5. BufferInv' /\ MakingInv'
  BY <1>1, <1>2, NothingStays
<1> QED
  BY <1>3, <1>4, <1>5 DEF CommandInv

LEMMA ReceiveKeeps ==
  CInv /\ (Receive \/ DecodeNoName \/ DecodeOther \/ DecodeUntyped \/ DecodeFails \/ DecodeStream)
    => CommandInv'
<1> SUFFICES ASSUME CInv,
                    Receive \/ DecodeNoName \/ DecodeOther \/ DecodeUntyped \/ DecodeFails \/ DecodeStream
             PROVE  CommandInv'
  OBVIOUS
<1>1. /\ pc \in {"reply", "decode"} /\ pc' \in {"idle", "garbage", "reply", "publish", "decode"}
      /\ UNCHANGED <<url, context, ip, making, there, wild, sent>>
      /\ reply' \in Replies \cup {NoReply}
  BY DEF Receive, DecodeNoName, DecodeOther, DecodeUntyped, DecodeFails, DecodeStream, DecodeIs, session,
         kvsVars, store
<1>2. ContextInv /\ PlaceInv /\ SentInv /\ NothingMade /\ ~there /\ url # Null
  BY <1>1, IdleIs DEF CInv, CommandInv
<1>3. ContextInv' /\ SentInv'
  BY <1>1, <1>2, ContextSame, SentSame
<1>4. PlaceInv'
  <2>1. context'.stream # Null
    BY <1>1, <1>2 DEF PlaceInv, Publishing
  <2> QED
    BY <1>1, <2>1 DEF PlaceInv, Places
<1>5. BufferInv' /\ MakingInv'
  BY <1>1, <1>2, NothingStays
<1> QED
  BY <1>3, <1>4, <1>5 DEF CommandInv
LEMMA ConnectAppKeeps == CInv /\ ConnectApp => CommandInv'
<1> SUFFICES ASSUME CInv, ConnectApp PROVE CommandInv'
  OBVIOUS
<1>1. /\ pc = "idle" /\ url # Null /\ ip # Null /\ context.app # Null
      /\ packet' = ConnectPacket /\ todo' = ObjectPairs /\ pc' = "fill"
      /\ Create(20, 5) \/ CreateFails
      /\ UNCHANGED <<url, context, ip, buf, reply, sent>>
  BY DEF ConnectApp, session
<1>2. ContextInv /\ PlaceInv /\ SentInv /\ BufferInv /\ NothingMade
  BY <1>1, IdleIs DEF CInv, CommandInv
<1>3. wild' = wild /\ (~there' => short') /\ (there' => Filled(0)')
  BY <1>1, FilledFirst DEF Create, CreateFails, store
<1>4. ContextInv' /\ SentInv'
  BY <1>1, <1>2, <1>3, ContextSame, SentSame
<1>5. PlaceInv' /\ BufferInv'
  BY <1>1, <1>2 DEF PlaceInv, Places, Publishing, BufferInv
<1>6. ObjectPairs = SubSeq(ObjectPairs, 1, 11)
  <2>1. ObjectPairs \in Seq(PairsOf)
    BY PairsSeq
  <2>2. SubSeq(ObjectPairs, 1, Len(ObjectPairs)) = ObjectPairs
    BY ONLY <2>1, SubSeqFull
  <2> QED
    BY <2>2, PairsAre
<1>7. FillInv'
  <2>1. 0 \in 0 .. 11 /\ 0 + 1 = 1
    OBVIOUS
  <2>2. todo' = SubSeq(ObjectPairs, 0 + 1, 11)
    BY <1>1, <1>6, <2>1
  <2>3. \E n \in 0 .. 11 : todo' = SubSeq(ObjectPairs, n + 1, 11) /\ (there' => Filled(n)')
    BY <1>3, <2>1, <2>2
  <2>4. ConnectPacket' = ConnectPacket
    BY <1>1, PacketsSame
  <2>5. buf' = Initialized(0)
    BY <1>1, <1>2 DEF NothingMade
  <2> QED
    BY <1>1, <1>3, <2>3, <2>4, <2>5 DEF FillInv
<1>8. MakingInv'
  <2>1. packet'.type \in Kinds
    BY <1>1 DEF ConnectPacket, Kinds
  <2> QED
    BY <1>1, <1>7, <2>1 DEF MakingInv
<1> QED
  BY <1>4, <1>5, <1>8 DEF CommandInv

LEMMA FillKeeps == CInv /\ Fill => CommandInv'
<1> SUFFICES ASSUME CInv, Fill PROVE CommandInv'
  OBVIOUS
<1>1. /\ pc = "fill" /\ todo # << >> /\ pc' = pc /\ todo' = Tail(todo)
      /\ Put(Head(todo).key, Field[Head(todo).key]) \/ OnNull
      /\ UNCHANGED <<url, context, ip, packet, buf, reply, sent>>
  BY DEF Fill, session
<1>2. ContextInv /\ PlaceInv /\ SentInv /\ BufferInv /\ MakingInv /\ FillInv /\ url # Null /\ KVInv
  BY <1>1 DEF CInv, CommandInv, MakingInv, ContextInv
<1>3. PICK n \in 0 .. 11 : FillingAt(n)
  BY <1>2, FillingIs
<1>4. /\ n \in 0 .. 10 /\ (there => Filled(n)) /\ Head(todo).key = KeyAt(n + 1)
      /\ todo' = SubSeq(ObjectPairs, (n + 1) + 1, 11)
  <2>1. n # 11 /\ (there => Filled(n))
    BY <1>1, <1>3 DEF FillingAt
  <2>2. n \in 0 .. 10 /\ n < 11
    BY <2>1
  <2>3. Head(todo).key = KeyAt(n + 1) /\ Tail(todo) = SubSeq(ObjectPairs, (n + 1) + 1, 11)
    BY <1>3, <2>2 DEF FillingAt
  <2> QED
    BY <1>1, <2>1, <2>2, <2>3, Zenon
<1>5. wild' = wild /\ there' = there /\ (short => short') /\ (there' => Filled(n + 1)')
  <2>1. CASE OnNull
    BY <2>1 DEF OnNull, store
  <2>2. CASE Put(Head(todo).key, Field[Head(todo).key])
    <3>1. there
      BY <2>2 DEF Put, PutOver, PutNew, PutNewExpand, PutNewExpandFails, PutOutside, Has
    <3>2. Put(KeyAt(n + 1), Field[KeyAt(n + 1)])
      BY <1>4, <2>2
    <3>3. Filled(n + 1)' /\ wild' = wild
      BY <1>2, <1>4, <3>1, <3>2, FilledMore
    <3>4. there'
      BY <3>3 DEF Filled
    <3>5. short' = short \/ short' = TRUE
      BY <3>2 DEF Put, PutOver, PutNew, PutNewExpand, PutNewExpandFails, PutOutside
    <3>6. there = TRUE /\ there' = TRUE
      <4>1. there' = there
        BY <3>2 DEF Put, PutOver, PutNew, PutNewExpand, PutNewExpandFails, PutOutside, store
      <4> QED
        BY <1>2, <3>1, <4>1 DEF KVInv
    <3> QED
      BY <3>3, <3>5, <3>6
  <2> QED
    BY <1>1, <2>1, <2>2
<1>6. ContextInv' /\ SentInv'
  BY <1>1, <1>2, <1>5, ContextSame, SentSame
<1>7. PlaceInv' /\ BufferInv'
  BY <1>1, <1>2 DEF PlaceInv, Places, Publishing, BufferInv
<1>8. FillInv'
  <2>1. n + 1 \in 0 .. 11
    BY <1>4
  <2>2. \E l \in 0 .. 11 : todo' = SubSeq(ObjectPairs, l + 1, 11) /\ (there' => Filled(l)')
    BY <1>4, <1>5, <2>1
  <2>3. ConnectPacket' = ConnectPacket
    BY <1>1, PacketsSame
  <2> QED
    BY <1>1, <1>2, <1>5, <2>2, <2>3 DEF FillInv
<1>9. MakingInv'
  BY <1>1, <1>2, <1>8 DEF MakingInv
<1> QED
  BY <1>6, <1>7, <1>9 DEF CommandInv

LEMMA MeasureNothingKeeps == CInv /\ MeasureNothing => CommandInv'
<1> SUFFICES ASSUME CInv, MeasureNothing PROVE CommandInv'
  OBVIOUS
<1>1. /\ pc = "fill" /\ ~there /\ pc' = "dead"
      /\ UNCHANGED <<url, context, ip, packet, todo, buf, there, wild, short, reply, sent>>
  BY DEF MeasureNothing, session, making, kvsVars, store
<1>2. ContextInv /\ PlaceInv /\ SentInv /\ BufferInv /\ MakingInv /\ FillInv /\ url # Null
  BY <1>1 DEF CInv, CommandInv, MakingInv, ContextInv
<1>3. ContextInv' /\ SentInv'
  BY <1>1, <1>2, ContextSame, SentSame
<1>4. PlaceInv' /\ BufferInv'
  BY <1>1, <1>2 DEF PlaceInv, Places, Publishing, BufferInv, FillInv
<1>5. MakingInv'
  BY <1>1, <1>2 DEF MakingInv
<1> QED
  BY <1>3, <1>4, <1>5 DEF CommandInv

(* Encoding begins.                                                        *)
LEMMA EncodingBegins ==
  ASSUME ContextInv, NEW k \in Kinds, Sendable(k), k \in NameKinds \cup {"create"} => context.stream # Null,
         IF k = "connect" THEN Filled(11)' ELSE ~there',
         UNCHANGED <<context, ip>>, pc' = "encode", packet' = PacketOf(k), packet'.type = k,
         todo' = FieldsOf(k), buf' = Initialized(Left(Costs(k), 0))
  PROVE  BufferInv' /\ MakingInv'
<1>1. PICK n : n = Left(Costs(k), 0)
  OBVIOUS
<1>2. n \in Nat
  <2>1. Costs(k) \in [1 .. 15 -> Nat]
    BY CostsTyped
  <2>2. 0 \in 0 .. 14
    OBVIOUS
  <2>3. Left(Costs(k), 0) = Costs(k)[0 + 1] + Left(Costs(k), 0 + 1)
        /\ Left(Costs(k), 0 + 1) \in Nat /\ Costs(k)[0 + 1] \in Nat
    BY <2>1, <2>2, LeftStep
  <2> QED
    BY <1>1, <2>3
<1>3. buf' = [p |-> 0, nb |-> n, st |-> "ok", data |-> << >>, missing |-> FALSE]
  BY <1>1 DEF Initialized
<1>4. BufferInv'
  <2>1. << >> \in Seq(Items) /\ 0 \in Nat /\ FALSE \in BOOLEAN /\ 0 <= n
    BY <1>2
  <2>2. buf' \in Buffers
    BY ONLY <1>2, <1>3, <2>1 DEF Buffers
  <2>3. buf'.p = 0 /\ buf'.nb = n
    BY <1>3
  <2> QED
    BY <2>1, <2>2, <2>3 DEF BufferInv
<1>5. todo' = SubSeq(FieldsOf(k), 0 + 1, Many(k))
  <2>1. PICK S : FieldsOf(k) \in Seq(S)
    BY FieldsKnown DEF FieldsFit
  <2>2. SubSeq(FieldsOf(k), 1, Len(FieldsOf(k))) = FieldsOf(k)
    BY <2>1, SubSeqFull
  <2> QED
    BY <2>2, FieldsKnown DEF FieldsFit
<1>6. Encoded(k, 0)'
  <2>1. FieldsOf(k)' = FieldsOf(k) /\ Costs(k)' = Costs(k)
    BY PacketsSame
  <2>2. buf'.nb - buf'.p = n
    BY <1>2, <1>3
  <2>3. Len(buf'.data) = DataLen(k, 0)
    BY <1>3 DEF DataLen
  <2>4. Says(packet', buf'.data, 0)
    BY DEF Says
  <2> QED
    BY <1>1, <1>5, <2>1, <2>2, <2>3, <2>4 DEF Encoded
<1>7. 0 \in 0 .. Many(k)
  BY FieldsKnown DEF FieldsFit
<1>8. PacketOf(k)' = PacketOf(k)
  BY PacketsSame
<1>9. EncodeInv'
  BY <1>3, <1>6, <1>7, <1>8 DEF EncodeInv, Sendable, Addressable
<1>10. MakingInv'
  BY <1>9 DEF MakingInv
<1> QED
  BY <1>4, <1>10

LEMMA MeasureKeeps == CInv /\ Measure => CommandInv'
<1> SUFFICES ASSUME CInv, Measure PROVE CommandInv'
  OBVIOUS
<1>1. /\ pc = "fill" /\ todo = << >> /\ there /\ pc' = "encode"
      /\ buf' = Initialized(ConnectSize(packet)) /\ todo' = ConnectFields(packet)
      /\ UNCHANGED <<there, pairs, size, capacity, expand_rate, short, wild>>
      /\ UNCHANGED <<url, context, ip, packet, reply, sent>>
  BY DEF Measure, Get, session, store
<1>2. ContextInv /\ PlaceInv /\ SentInv /\ FillInv /\ url # Null /\ KVInv
  BY <1>1 DEF CInv, CommandInv, MakingInv, ContextInv
<1>3. PICK n \in 0 .. 11 : FillingAt(n)
  BY <1>2, FillingIs
<1>4. Filled(11) /\ Addressable /\ packet = ConnectPacket
  BY <1>1, <1>2, <1>3 DEF FillingAt, FillInv, Addressable
<1>5. ConnectSize(packet) = Left(Costs("connect"), 0)
  BY <1>2, <1>4, ConnectSizeIs
<1>6. "connect" \in Kinds /\ Sendable("connect") /\ "connect" \notin NameKinds \cup {"create"}
  BY <1>4 DEF Kinds, Sendable, NameKinds
<1>7. packet' = PacketOf("connect") /\ packet'.type = "connect" /\ todo' = FieldsOf("connect")
  <2>1. PacketOf("connect") = ConnectPacket /\ FieldsOf("connect") = ConnectFields(ConnectPacket)
    BY DEF PacketOf, FieldsOf
  <2>2. ConnectPacket.type = "connect"
    BY DEF ConnectPacket
  <2> QED
    BY <1>1, <1>4, <2>1, <2>2, Zenon
<1>8. Filled(11)'
  BY <1>1, <1>4 DEF Filled
<1>9. BufferInv' /\ MakingInv'
  BY <1>1, <1>2, <1>5, <1>6, <1>7, <1>8, EncodingBegins
<1>10. ContextInv' /\ SentInv'
  BY <1>1, <1>2, ContextSame, SentSame
<1>11. PlaceInv'
  BY <1>1, <1>2 DEF PlaceInv, Places, Publishing
<1> QED
  BY <1>9, <1>10, <1>11 DEF CommandInv

LEMMA MakeKeeps ==
  CInv /\ (MakeSetWindow \/ MakeRelease \/ MakeFcPublish \/ MakeCreate \/ MakePublish) => CommandInv'
<1> SUFFICES ASSUME CInv, MakeSetWindow \/ MakeRelease \/ MakeFcPublish \/ MakeCreate \/ MakePublish
             PROVE  CommandInv'
  OBVIOUS
<1>1. pc \in {"set_window", "release", "fcpublish", "create", "publish"}
  BY DEF MakeSetWindow, MakeRelease, MakeFcPublish, MakeCreate, MakePublish
<1>2. ContextInv /\ PlaceInv /\ SentInv /\ ~there /\ url # Null
  BY <1>1, IdleIs DEF CInv, CommandInv
<1>3. PICK k : k = pc
  OBVIOUS
<1>4. k \in Kinds /\ k # "connect" /\ (k \in NameKinds \cup {"create"} => context.stream # Null)
  BY <1>1, <1>2, <1>3 DEF Kinds, NameKinds, PlaceInv, Publishing
<1>5. Sendable(k)
  BY <1>4 DEF Sendable
<1>6. /\ packet' = PacketOf(k) /\ todo' = FieldsOf(k)
      /\ buf' = Initialized(Left(Costs(k), 0)) /\ pc' = "encode"
      /\ UNCHANGED <<url, context, ip, there, wild, reply, sent>>
  <2>1. CASE MakeSetWindow
    <3>1. k = "set_window" /\ packet' = SetWindowPacket /\ buf' = Initialized(4)
          /\ todo' = SetWindowFields(SetWindowPacket)
      BY <1>3, <2>1 DEF MakeSetWindow, Encoding
    <3>2. PacketOf(k) = SetWindowPacket /\ FieldsOf(k) = SetWindowFields(SetWindowPacket)
      BY <3>1 DEF PacketOf, FieldsOf
    <3>3. 4 = Left(Costs(k), 0)
      BY <1>2, <1>4, <1>5, <3>1, OtherSizesAre
    <3>4. buf' = Initialized(Left(Costs(k), 0))
      BY <3>1, <3>3, Zenon
    <3> QED
      BY <2>1, <3>1, <3>2, <3>4 DEF MakeSetWindow, Encoding, session, kvsVars, store
  <2>2. CASE MakeRelease
    <3>1. k = "release" /\ packet' = ReleasePacket(context.stream)
          /\ buf' = Initialized(NameSize(ReleasePacket(context.stream)))
          /\ todo' = NameFields(ReleasePacket(context.stream))
      BY <1>3, <2>2 DEF MakeRelease, Encoding
    <3>2. PacketOf(k) = ReleasePacket(context.stream) /\ FieldsOf(k) = NameFields(ReleasePacket(context.stream))
      BY <3>1 DEF PacketOf, FieldsOf
    <3>3. NameSize(PacketOf(k)) = Left(Costs(k), 0)
      BY <1>2, <1>4, <1>5, <3>1, OtherSizesAre
    <3> QED
      BY <2>2, <3>1, <3>2, <3>3 DEF MakeRelease, Encoding, session, kvsVars, store
  <2>3. CASE MakeFcPublish
    <3>1. k = "fcpublish" /\ packet' = FcPublishPacket(context.stream)
          /\ buf' = Initialized(NameSize(FcPublishPacket(context.stream)))
          /\ todo' = NameFields(FcPublishPacket(context.stream))
      BY <1>3, <2>3 DEF MakeFcPublish, Encoding
    <3>2. PacketOf(k) = FcPublishPacket(context.stream) /\ FieldsOf(k) = NameFields(FcPublishPacket(context.stream))
      BY <3>1 DEF PacketOf, FieldsOf
    <3>3. NameSize(PacketOf(k)) = Left(Costs(k), 0)
      BY <1>2, <1>4, <1>5, <3>1, OtherSizesAre
    <3> QED
      BY <2>3, <3>1, <3>2, <3>3 DEF MakeFcPublish, Encoding, session, kvsVars, store
  <2>4. CASE MakeCreate
    <3>1. k = "create" /\ packet' = CreatePacket /\ buf' = Initialized(CreateSize(CreatePacket))
          /\ todo' = CreateFields(CreatePacket)
      BY <1>3, <2>4 DEF MakeCreate, Encoding
    <3>2. PacketOf(k) = CreatePacket /\ FieldsOf(k) = CreateFields(CreatePacket)
      BY <3>1 DEF PacketOf, FieldsOf
    <3>3. CreateSize(PacketOf(k)) = Left(Costs(k), 0)
      BY <1>2, <1>4, <1>5, <3>1, OtherSizesAre
    <3> QED
      BY <2>4, <3>1, <3>2, <3>3 DEF MakeCreate, Encoding, session, kvsVars, store
  <2>5. CASE MakePublish
    <3>1. k = "publish" /\ packet' = PublishPacket(context.stream)
          /\ buf' = Initialized(PublishSize(PublishPacket(context.stream)))
          /\ todo' = PublishFields(PublishPacket(context.stream))
      BY <1>3, <2>5 DEF MakePublish, Encoding
    <3>2. PacketOf(k) = PublishPacket(context.stream) /\ FieldsOf(k) = PublishFields(PublishPacket(context.stream))
      BY <3>1 DEF PacketOf, FieldsOf
    <3>3. PublishSize(PacketOf(k)) = Left(Costs(k), 0)
      BY <1>2, <1>4, <1>5, <3>1, OtherSizesAre
    <3> QED
      BY <2>5, <3>1, <3>2, <3>3 DEF MakePublish, Encoding, session, kvsVars, store
  <2> QED
    BY <2>1, <2>2, <2>3, <2>4, <2>5
<1>7. packet'.type = k
  BY <1>4, <1>6 DEF PacketOf, Kinds, SetWindowPacket, ReleasePacket, FcPublishPacket, CreatePacket, PublishPacket
<1>8. BufferInv' /\ MakingInv'
  <2>1. IF k = "connect" THEN Filled(11)' ELSE ~there'
    BY <1>2, <1>4, <1>6
  <2> QED
    BY <1>2, <1>4, <1>5, <1>6, <1>7, <2>1, EncodingBegins
<1>9. ContextInv' /\ SentInv'
  BY <1>2, <1>6, ContextSame, SentSame
<1>10. PlaceInv'
  BY <1>2, <1>6 DEF PlaceInv, Places, Publishing
<1> QED
  BY <1>8, <1>9, <1>10 DEF CommandInv
LEMMA DataLens ==
  ASSUME NEW k \in Kinds, NEW m \in 0 .. 14, m + 1 <= Many(k), Many(k) \in 1 .. 15
  PROVE  /\ DataLen(k, m) \in Nat
         /\ ~IsPair(k, m + 1) => DataLen(k, m + 1) = DataLen(k, m) + 1
         /\ IsPair(k, m + 1) => /\ DataLen(k, m) = 2 * (m - 2) + 1
                                /\ DataLen(k, m + 1) = 2 * (m - 2) + 3
         /\ k = "connect" => \A i \in 1 .. 11 : i + 3 <= m => 2 * i + 3 <= DataLen(k, m)
         /\ k # "connect" => DataLen(k, m) = m
<1>1. CASE k # "connect"
  BY <1>1 DEF DataLen, IsPair
<1>2. CASE k = "connect"
  <2>1. DataLen(k, m) = IF m > 3 THEN 2 * m - 3 ELSE m
    BY <1>2 DEF DataLen
  <2>2. DataLen(k, m + 1) = IF m + 1 > 3 THEN IF m + 1 = 15 THEN 26 ELSE 2 * (m + 1) - 3 ELSE m + 1
    BY <1>2 DEF DataLen
  <2>3. IsPair(k, m + 1) <=> m + 1 \in 4 .. 14
    BY <1>2 DEF IsPair
  <2> QED
    BY <1>2, <2>1, <2>2, <2>3
<1> QED
  BY <1>1, <1>2

(* One more value keeps what the data say.                                 *)
LEMMA SaysOn ==
  ASSUME NEW k \in Kinds, NEW m \in 0 .. 14, m + 1 <= Many(k), Many(k) \in 1 .. 15,
         NEW pkt, pkt.type = k, ~IsPair(k, m + 1),
         NEW d \in Seq(Items), Len(d) = DataLen(k, m), Says(pkt, d, m),
         NEW v \in Items, k \in NameKinds /\ m = 3 => v = pkt.stream_name
  PROVE  Says(pkt, Append(d, v), m + 1) /\ Len(Append(d, v)) = DataLen(k, m + 1)
<1> DEFINE e == Append(d, v)
           n == Len(d)
<1>1. /\ Len(e) = n + 1 /\ e[n + 1] = v
      /\ \A i \in 1 .. n : e[i] = d[i]
  BY AppendProperties
<1>2. n \in Nat /\ n = DataLen(k, m)
  OBVIOUS
<1> HIDE DEF e, n
<1>3. Len(e) = DataLen(k, m + 1)
  BY <1>1, <1>2, DataLens
<1>4. ASSUME k = "connect", NEW i \in 1 .. 11, i + 3 <= m + 1
      PROVE  e[2 * i + 2] = Word(KeyAt(i)) /\ e[2 * i + 3] = pkt[Field[KeyAt(i)]]
  <2>1. i + 3 <= m
    BY <1>4 DEF IsPair
  <2>2. 2 * i + 3 <= n
    BY <1>2, <1>4, <2>1, DataLens
  <2>3. 2 * i + 2 \in 1 .. n /\ 2 * i + 3 \in 1 .. n
    BY <1>2, <2>2
  <2>4. d[2 * i + 2] = Word(KeyAt(i)) /\ d[2 * i + 3] = pkt[Field[KeyAt(i)]]
    BY <1>4, <2>1 DEF Says
  <2> QED
    BY <1>1, <2>3, <2>4
<1>5. ASSUME k \in NameKinds, 4 <= m + 1
      PROVE  e[4] = pkt.stream_name
  <2>1. n = m
    BY <1>2, <1>5, DataLens DEF NameKinds
  <2>2. CASE m = 3
    BY <1>1, <1>5, <2>1, <2>2
  <2>3. CASE m # 3
    <3>1. 4 <= m /\ 4 \in 1 .. n
      BY <1>5, <2>1, <2>3
    <3>2. d[4] = pkt.stream_name
      BY <1>5, <3>1 DEF Says
    <3> QED
      BY <1>1, <3>1, <3>2
  <2> QED
    BY <2>2, <2>3
<1>6. Says(pkt, e, m + 1)
  BY <1>4, <1>5 DEF Says
<1> QED
  BY <1>3, <1>6 DEF e

(* A pair says what it is.                                                 *)
LEMMA SaysPair ==
  ASSUME NEW j \in 1 .. 11, NEW pkt, pkt.type = "connect",
         NEW d \in Seq(Items), Len(d) = DataLen("connect", j + 2), Says(pkt, d, j + 2),
         NEW v, v = pkt[Field[KeyAt(j)]], v \in Items
  PROVE  LET e == Append(Append(d, Word(KeyAt(j))), v)
         IN Says(pkt, e, (j + 2) + 1) /\ Len(e) = DataLen("connect", (j + 2) + 1)
<1> DEFINE w == Word(KeyAt(j))
           c == Append(d, w)
           e == Append(c, v)
           n == Len(d)
<1>1. w \in Items
  <2>1. w \in Texts
    BY KeysStored
  <2> QED
    BY <2>1, TextItems
<1>2. c \in Seq(Items) /\ Len(c) = n + 1 /\ c[n + 1] = w /\ \A i \in 1 .. n : c[i] = d[i]
  BY <1>1, AppendProperties
<1>3. Len(e) = Len(c) + 1 /\ e[Len(c) + 1] = v /\ \A i \in 1 .. Len(c) : e[i] = c[i]
  <2>1. c \in Seq(Items)
    BY <1>2
  <2> HIDE DEF c
  <2> QED
    BY <2>1, AppendProperties
<1>4. "connect" \in Kinds /\ Many("connect") = 15 /\ j + 2 \in 0 .. 14 /\ IsPair("connect", (j + 2) + 1)
  BY DEF Kinds, Many, IsPair
<1>5. n = 2 * j + 1 /\ DataLen("connect", (j + 2) + 1) = 2 * j + 3
  <2>1. n = DataLen("connect", j + 2)
    OBVIOUS
  <2>2. (j + 2) - 2 = j /\ (j + 2) + 1 <= 15 /\ 15 \in 1 .. 15
    OBVIOUS
  <2> HIDE DEF n
  <2> QED
    BY <1>4, <2>1, <2>2, DataLens
<1>6. n \in Nat
  BY <1>5
<1> HIDE DEF e, c, n, w
<1>7. Len(e) = n + 2 /\ e[n + 1] = w /\ e[n + 2] = v /\ \A i \in 1 .. n : e[i] = d[i]
  BY <1>2, <1>3, <1>6
<1>8. ASSUME NEW i \in 1 .. 11, i + 3 <= (j + 2) + 1
      PROVE  e[2 * i + 2] = Word(KeyAt(i)) /\ e[2 * i + 3] = pkt[Field[KeyAt(i)]]
  <2>1. CASE i = j
    <3>1. 2 * i + 2 = n + 1 /\ 2 * i + 3 = n + 2
      BY <1>5, <2>1
    <3> QED
      BY <1>7, <2>1, <3>1 DEF w
  <2>2. CASE i # j
    <3>1. i + 3 <= j + 2 /\ 2 * i + 2 \in 1 .. n /\ 2 * i + 3 \in 1 .. n
      BY <1>5, <1>8, <2>2
    <3>2. d[2 * i + 2] = Word(KeyAt(i)) /\ d[2 * i + 3] = pkt[Field[KeyAt(i)]]
      BY <3>1 DEF Says
    <3> QED
      BY <1>7, <3>1, <3>2
  <2> QED
    BY <2>1, <2>2
<1>9. Says(pkt, e, (j + 2) + 1)
  BY <1>8 DEF Says, NameKinds
<1>10. Len(e) = DataLen("connect", (j + 2) + 1)
  BY <1>5, <1>7
<1> QED
  BY <1>9, <1>10 DEF e, c, w

(* Encoding goes on.                                                       *)
LEMMA EncodingGoesOn ==
  ASSUME CInv, pc = "encode", pc' = pc, NEW k \in Kinds, NEW m \in 0 .. 14, m + 1 <= Many(k),
         EncodingAt(k, m), UNCHANGED <<context, ip, packet>>,
         IF k = "connect" THEN Filled(11)' ELSE ~there',
         todo' = SubSeq(FieldsOf(k), (m + 1) + 1, Many(k)),
         Ok(buf'), buf'.nb - buf'.p = Left(Costs(k), m + 1),
         Len(buf'.data) = DataLen(k, m + 1), Says(packet, buf'.data, m + 1)
  PROVE  BufferInv' /\ MakingInv'
<1>1. BufferInv' /\ buf'.st = "ok" /\ buf'.missing = FALSE
  BY DEF Ok, BufferInv
<1>2. m + 1 \in 0 .. Many(k)
  BY FieldsKnown DEF CInv, CommandInv, FieldsFit
<1>3. PacketOf(k)' = PacketOf(k) /\ FieldsOf(k)' = FieldsOf(k) /\ Costs(k)' = Costs(k)
  BY PacketsSame
<1>4. packet'.type = k /\ packet' = PacketOf(k)' /\ Sendable(k)
  BY <1>3 DEF EncodingAt
<1>5. k \in NameKinds \cup {"create"} => context'.stream # Null
  BY DEF EncodingAt
<1>6. Encoded(k, m + 1)'
  BY <1>3 DEF Encoded
<1>7. k = "connect" => ip' # Null /\ context'.app # Null
  BY <1>4 DEF Sendable, Addressable
<1>8. EncodeInv'
  BY <1>1, <1>2, <1>4, <1>5, <1>6, <1>7 DEF EncodeInv
<1>9. MakingInv'
  BY <1>4, <1>8 DEF MakingInv
<1> QED
  BY <1>1, <1>9

LEMMA OkNow ==
  ASSUME CInv, pc = "encode"
  PROVE  Ok(buf) /\ ContextInv /\ EncodeInv /\ PlaceInv /\ SentInv /\ KVInv /\ url # Null
  BY DEF CInv, CommandInv, MakingInv, EncodeInv, BufferInv, Ok, ContextInv

(* What is left is enough for the next field.                              *)
LEMMA RoomLeft ==
  ASSUME ContextInv, NEW k \in Kinds, NEW m \in 0 .. 14, m + 1 \in 1 .. Many(k), EncodingAt(k, m),
         Ok(buf)
  PROVE  LET cost == Cost(packet, Head(todo))
         IN /\ cost \in Nat /\ cost <= buf.nb - buf.p
            /\ Left(Costs(k), m + 1) = buf.nb - (buf.p + cost)
<1> DEFINE c == Costs(k)
<1>1. c \in [1 .. 15 -> Nat] /\ c[m + 1] = Cost(PacketOf(k), FieldsOf(k)[m + 1])
  BY CostsTyped DEF EncodingAt
<1>2. Head(todo) = FieldsOf(k)[m + 1] /\ packet = PacketOf(k)
  <2>1. Many(k) \in Nat
    BY FieldsKnown DEF FieldsFit
  <2>2. m < Many(k)
    BY <2>1
  <2> QED
    BY <2>2 DEF EncodingAt
<1>3. Left(c, m) = c[m + 1] + Left(c, m + 1) /\ Left(c, m + 1) \in Nat /\ c[m + 1] \in Nat
  BY <1>1, LeftStep
<1>4. buf.nb - buf.p = Left(c, m) /\ buf.p \in Nat /\ buf.nb \in Nat
  BY DEF EncodingAt, Encoded, Ok, Buffers
<1> HIDE DEF c
<1>5. Cost(packet, Head(todo)) = c[m + 1]
  BY <1>1, <1>2, Zenon
<1> QED
  BY <1>3, <1>4, <1>5 DEF c

LEMMA EncodeValueKeeps == CInv /\ EncodeValue => CommandInv'
<1> SUFFICES ASSUME CInv, EncodeValue PROVE CommandInv'
  OBVIOUS
<1> DEFINE f == Head(todo)
           cost == Cost(packet, f)
<1>1. /\ pc = "encode" /\ todo # << >> /\ "key" \notin DOMAIN f /\ pc' = pc
      /\ buf' = Written(buf, f) /\ todo' = Tail(todo)
      /\ UNCHANGED <<url, context, ip, packet, reply, sent>>
      /\ UNCHANGED <<there, pairs, size, capacity, expand_rate, short, wild>>
  BY DEF EncodeValue, session, kvsVars, store, Written
<1>2. Ok(buf) /\ ContextInv /\ EncodeInv /\ PlaceInv /\ SentInv /\ url # Null
  BY <1>1, OkNow
<1>3. PICK k \in Kinds : \E m \in 0 .. Many(k) : EncodingAt(k, m)
  BY <1>2, EncodingIs
<1>4. PICK m \in 0 .. Many(k) : EncodingAt(k, m)
  BY <1>3
<1>5. /\ m + 1 \in 1 .. Many(k) /\ m \in 0 .. 14 /\ Many(k) \in 1 .. 15
      /\ f = FieldsOf(k)[m + 1] /\ IsValue(f) /\ ~IsPair(k, m + 1)
  BY <1>1, <1>2, <1>4, NextField
<1>6. m + 1 <= Many(k) /\ m < Many(k)
  BY <1>5
<1>7. cost \in Nat /\ cost <= buf.nb - buf.p /\ Left(Costs(k), m + 1) = buf.nb - (buf.p + cost)
  BY <1>2, <1>4, <1>5, RoomLeft
<1>8. PICK v \in Items : Wrote(buf, Written(buf, f), cost, v) /\ (f.t = "string" => v = f.v)
  BY <1>2, <1>5, <1>7, WritesValue
<1>9. /\ Ok(buf') /\ buf'.p = buf.p + cost /\ buf'.nb = buf.nb /\ buf'.data = Append(buf.data, v)
  BY <1>1, <1>8 DEF Wrote
<1>10. k \in NameKinds /\ m = 3 => v = packet.stream_name
  <2> SUFFICES ASSUME k \in NameKinds, m = 3 PROVE v = packet.stream_name
    OBVIOUS
  <2>1. f = Text(context.stream)
    BY <1>2, <1>5, FieldsKnown DEF FieldsFit
  <2>2. packet = PacketOf(k)
    BY <1>4 DEF EncodingAt
  <2>3. packet.stream_name = context.stream
    BY <2>2 DEF NameKinds, PacketOf, ReleasePacket, FcPublishPacket, PublishPacket
  <2>4. f.t = "string" /\ f.v = context.stream
    BY <2>1 DEF Text
  <2> QED
    BY <1>8, <2>3, <2>4
<1>11. Len(buf.data) = DataLen(k, m) /\ Says(packet, buf.data, m) /\ packet.type = k
       /\ buf.data \in Seq(Items)
  BY <1>2, <1>4 DEF EncodingAt, Encoded, Ok, Buffers
<1>12. Says(packet, buf'.data, m + 1) /\ Len(buf'.data) = DataLen(k, m + 1)
  <2>1. Says(packet, Append(buf.data, v), m + 1) /\ Len(Append(buf.data, v)) = DataLen(k, m + 1)
    BY <1>5, <1>6, <1>10, <1>11, SaysOn
  <2> QED
    BY <1>9, <2>1
<1>13. todo' = SubSeq(FieldsOf(k), (m + 1) + 1, Many(k))
  BY <1>1, <1>4, <1>6 DEF EncodingAt
<1>14. IF k = "connect" THEN Filled(11)' ELSE ~there'
  BY <1>1, <1>4 DEF EncodingAt, Filled
<1>15. BufferInv' /\ MakingInv'
  BY <1>1, <1>4, <1>5, <1>6, <1>7, <1>9, <1>12, <1>13, <1>14, EncodingGoesOn
<1>16. ContextInv' /\ SentInv'
  BY <1>1, <1>2, ContextSame, SentSame
<1>17. PlaceInv'
  BY <1>1, <1>2 DEF PlaceInv, Places, Publishing
<1> QED
  BY <1>15, <1>16, <1>17 DEF CommandInv
LEMMA EncodePairKeeps == CInv /\ EncodePair => CommandInv'
<1> SUFFICES ASSUME CInv, EncodePair PROVE CommandInv'
  OBVIOUS
<1> DEFINE f == Head(todo)
           v == packet[Found(f.key)]
<1>1. /\ pc = "encode" /\ todo # << >> /\ "key" \in DOMAIN f /\ pc' = pc
      /\ buf' = WritePair(buf, f, v) /\ todo' = Tail(todo)
      /\ UNCHANGED <<url, context, ip, packet, reply, sent>>
      /\ UNCHANGED <<there, pairs, size, capacity, expand_rate, short, wild>>
  BY DEF EncodePair, Get, session, store
<1>2. Ok(buf) /\ ContextInv /\ EncodeInv /\ PlaceInv /\ SentInv /\ KVInv /\ url # Null
  BY <1>1, OkNow
<1>3. PICK k \in Kinds : \E m \in 0 .. Many(k) : EncodingAt(k, m)
  BY <1>2, EncodingIs
<1>4. PICK m \in 0 .. Many(k) : EncodingAt(k, m)
  BY <1>3
<1>5. /\ m + 1 \in 1 .. Many(k) /\ m \in 0 .. 14 /\ Many(k) \in 1 .. 15
      /\ k = "connect" /\ m - 2 \in 1 .. 11 /\ f = ObjectPairs[m - 2]
  BY <1>1, <1>2, <1>4, NextField
<1>6. PICK j \in 1 .. 11 : j = m - 2
  BY <1>5
<1>7. m = j + 2 /\ m + 1 <= Many(k) /\ m < Many(k) /\ f = ObjectPairs[j] /\ f.key = KeyAt(j)
  BY <1>5, <1>6 DEF KeyAt
<1>8. /\ packet = PacketOf(k) /\ packet.type = "connect" /\ Filled(11) /\ Addressable
      /\ Len(buf.data) = DataLen("connect", j + 2) /\ Says(packet, buf.data, j + 2)
  BY <1>4, <1>5, <1>7 DEF EncodingAt, Encoded, Sendable
<1>9. packet = ConnectPacket
  BY <1>5, <1>8 DEF PacketOf
<1>10. v = packet[Field[KeyAt(j)]]
  <2>1. Found(KeyAt(j)) = Field[KeyAt(j)]
    BY <1>2, <1>8, FilledFinds
  <2> QED
    BY <1>7, <2>1
<1> DEFINE cost == Cost(packet, f)
<1>11. cost \in Nat /\ cost <= buf.nb - buf.p /\ Left(Costs(k), m + 1) = buf.nb - (buf.p + cost)
  BY <1>2, <1>4, <1>5, RoomLeft
<1>12. Word(f.key) \in Texts /\ PairTyped(f.t, v) /\ cost = PairCost(f, v)
  <2>1. LET g == ObjectPairs[j]
            w == ConnectPacket[Field[KeyAt(j)]]
        IN Word(g.key) \in Texts /\ PairTyped(g.t, w) /\ Cost(ConnectPacket, g) = PairCost(g, w)
    BY <1>2, <1>8, PairIsKnown, Zenon
  <2> HIDE DEF f, v
  <2> QED
    BY <1>7, <1>9, <1>10, <2>1, Zenon
<1>13. v \in Items
  BY <1>12, PairCosts
<1> HIDE DEF f, v, cost
<1>14. LET w == WritePair(buf, f, v)
       IN /\ Ok(w) /\ w.p = buf.p + PairCost(f, v) /\ w.nb = buf.nb
          /\ w.data = Append(Append(buf.data, Word(f.key)), v)
  BY <1>2, <1>11, <1>12, WritesPair
<1>15. /\ Ok(buf') /\ buf'.p = buf.p + cost /\ buf'.nb = buf.nb
       /\ buf'.data = Append(Append(buf.data, Word(KeyAt(j))), v)
  BY <1>1, <1>7, <1>12, <1>14, Zenon
<1>16. Says(packet, buf'.data, m + 1) /\ Len(buf'.data) = DataLen(k, m + 1)
  <2>1. buf.data \in Seq(Items)
    BY <1>2 DEF Ok, Buffers
  <2>2. LET e == Append(Append(buf.data, Word(KeyAt(j))), v)
        IN Says(packet, e, (j + 2) + 1) /\ Len(e) = DataLen("connect", (j + 2) + 1)
    BY <1>8, <1>10, <1>13, <2>1, SaysPair
  <2> QED
    BY <1>5, <1>7, <1>15, <2>2, Zenon
<1>17. todo' = SubSeq(FieldsOf(k), (m + 1) + 1, Many(k))
  BY <1>1, <1>4, <1>7 DEF EncodingAt
<1>18. IF k = "connect" THEN Filled(11)' ELSE ~there'
  BY <1>1, <1>5, <1>8 DEF Filled
<1>19. buf'.nb - buf'.p = Left(Costs(k), m + 1)
  BY <1>11, <1>15
<1>20. BufferInv' /\ MakingInv'
  BY <1>1, <1>4, <1>5, <1>7, <1>15, <1>16, <1>17, <1>18, <1>19, EncodingGoesOn
<1>21. ContextInv' /\ SentInv'
  BY <1>1, <1>2, ContextSame, SentSame
<1>22. PlaceInv'
  BY <1>1, <1>2 DEF PlaceInv, Places, Publishing
<1> QED
  BY <1>20, <1>21, <1>22 DEF CommandInv

(* The packet is freed, and its store with it.                             *)
LEMMA PacketFreed ==
  ASSUME CInv, pc = "encode", Uninit, pc' \notin {"fill", "encode"}, UNCHANGED <<url, context, ip>>,
         packet' = NoPacket, todo' = << >>, buf' = Initialized(0)
  PROVE  ContextInv' /\ BufferInv' /\ MakingInv'
<1>1. ContextInv /\ url # Null
  BY OkNow
<1>2. ~there' /\ wild' = wild
  BY DEF Uninit, ClearDestroy, kvsVars, store
<1>3. ContextInv'
  BY <1>1, <1>2, ContextSame
<1>4. buf' \in Buffers /\ buf'.p <= buf'.nb
  BY DEF Initialized, Buffers
<1>5. packet'.type = "none"
  BY DEF NoPacket
<1>6. NothingMade'
  BY DEF NothingMade, Initialized, NoPacket
<1> QED
  BY <1>2, <1>3, <1>4, <1>5, <1>6 DEF BufferInv, MakingInv

LEMMA SendKeeps == CInv /\ Send => CommandInv'
<1> SUFFICES ASSUME CInv, Send PROVE CommandInv'
  OBVIOUS
<1>1. /\ pc = "encode" /\ todo = << >>
      /\ sent' = [sent EXCEPT ![packet.type] = buf.data] /\ pc' = After[packet.type]
      /\ Uninit /\ packet' = NoPacket /\ todo' = << >> /\ buf' = Initialized(0)
      /\ UNCHANGED <<url, context, ip, reply>>
  BY DEF Send, session
<1>2. Ok(buf) /\ ContextInv /\ EncodeInv /\ PlaceInv /\ SentInv /\ url # Null
  BY <1>1, OkNow
<1>3. PICK k \in Kinds : \E m \in 0 .. Many(k) : EncodingAt(k, m)
  BY <1>2, EncodingIs
<1>4. PICK m \in 0 .. Many(k) : EncodingAt(k, m)
  BY <1>3
<1>5. /\ packet.type = k /\ packet = PacketOf(k) /\ Sendable(k) /\ m = Many(k)
      /\ k \in NameKinds \cup {"create"} => context.stream # Null
      /\ Says(packet, buf.data, m)
  BY <1>1, <1>4 DEF EncodingAt, Encoded
<1>6. /\ pc' \in {"set_window", "idle", "fcpublish", "create", "reply"}
      /\ pc' \in Publishing => k \in NameKinds \cup {"create"}
  BY <1>1, <1>5 DEF After, Kinds, Publishing, NameKinds
<1>7. ContextInv' /\ BufferInv' /\ MakingInv'
  BY <1>1, <1>6, PacketFreed
<1>8. PlaceInv'
  BY <1>1, <1>2, <1>5, <1>6 DEF PlaceInv, Places
<1>9. SentInv'
  <2>1. DOMAIN sent = Kinds /\ DOMAIN sent' = Kinds
    BY <1>1, <1>2 DEF SentInv
  <2>2. \A l \in Kinds : sent'[l] = IF l = k THEN buf.data ELSE sent[l]
    BY <1>1, <1>5, <2>1
  <2>3. \A l : PacketOf(l)' = PacketOf(l)
    BY <1>1, PacketsSame
  <2>4. /\ "connect" \in Kinds /\ Many("connect") = 15 /\ NameKinds \subseteq Kinds
    BY DEF Kinds, Many, NameKinds
  <2>5. sent'["connect"] # << >> =>
          ip # Null /\ context.app # Null /\ Says(PacketOf("connect"), sent'["connect"], 15)
    <3>1. CASE k = "connect"
      BY <1>5, <2>2, <2>4, <3>1 DEF Sendable, Addressable
    <3>2. CASE k # "connect"
      BY <1>2, <2>2, <2>4, <3>2 DEF SentInv
    <3> QED
      BY <3>1, <3>2
  <2>6. ASSUME NEW l \in NameKinds, sent'[l] # << >>
        PROVE  context.stream # Null /\ Says(PacketOf(l), sent'[l], Many(l))
    <3>1. CASE k = l
      BY <1>5, <2>2, <2>4, <3>1
    <3>2. CASE k # l
      BY <1>2, <2>2, <2>4, <2>6, <3>2 DEF SentInv
    <3> QED
      BY <3>1, <3>2
  <2> QED
    BY <1>1, <1>2, <2>1, <2>3, <2>5, <2>6 DEF SentInv
<1> QED
  BY <1>7, <1>8, <1>9 DEF CommandInv

LEMMA SendFailsKeeps == CInv /\ SendFails => CommandInv'
<1> SUFFICES ASSUME CInv, SendFails PROVE CommandInv'
  OBVIOUS
<1>1. /\ pc = "encode" /\ pc' = "idle"
      /\ Uninit /\ packet' = NoPacket /\ todo' = << >> /\ buf' = Initialized(0)
      /\ UNCHANGED <<url, context, ip, reply, sent>>
  BY DEF SendFails, session
<1>2. PlaceInv /\ SentInv
  BY <1>1, OkNow
<1>3. ContextInv' /\ BufferInv' /\ MakingInv'
  BY <1>1, PacketFreed
<1>4. PlaceInv' /\ SentInv'
  BY <1>1, <1>2, SentSame DEF PlaceInv, Places, Publishing
<1> QED
  BY <1>3, <1>4 DEF CommandInv

LEMMA CommandsStep == CInv /\ Next => CommandInv'
<1> SUFFICES ASSUME CInv, Next PROVE CommandInv'
  OBVIOUS
<1>1. ASSUME NEW u \in Urls, NewContext(u) PROVE CommandInv'
  BY <1>1, NewContextKeeps
<1> QED
  BY <1>1, OverrunKeeps, DestroyKeeps, ResolveKeeps, ConnectAppKeeps, ConnectNothingKeeps, FillKeeps,
     MeasureKeeps, MeasureNothingKeeps, MakeKeeps, EncodeValueKeeps, EncodePairKeeps, SendKeeps,
     SendFailsKeeps, ReceiveKeeps DEF Next

LEMMA CommandsBegin == Init => CInv
<1> SUFFICES ASSUME Init PROVE CInv
  OBVIOUS
<1>1. KVInv /\ Returns
  BY KVBegins DEF Init, KVInit, Returns
<1>2. /\ url = Null /\ context = Blank /\ ip = Null /\ pc = "idle"
      /\ packet = NoPacket /\ todo = << >> /\ buf = Initialized(0) /\ reply = NoReply
      /\ sent = [k \in Kinds |-> << >>] /\ wild = FALSE
  BY DEF Init, KVInit
<1>3. ContextInv /\ PlaceInv
  BY <1>2 DEF ContextInv, PlaceInv, Places, Publishing
<1>4. BufferInv /\ NothingMade
  BY <1>2 DEF BufferInv, Buffers, Initialized, NothingMade
<1>5. MakingInv
  BY <1>2, <1>4 DEF MakingInv, NoPacket
<1>6. SentInv
  <2>1. DOMAIN sent = Kinds /\ \A k \in Kinds : sent[k] = << >>
    BY <1>2
  <2>2. "connect" \in Kinds /\ NameKinds \subseteq Kinds
    BY DEF Kinds, NameKinds
  <2> QED
    BY <2>1, <2>2 DEF SentInv
<1> QED
  BY <1>1, <1>3, <1>4, <1>5, <1>6 DEF CInv, CommandInv

LEMMA CommandsStutter == CInv /\ UNCHANGED vars => CommandInv'
<1> SUFFICES ASSUME CInv, UNCHANGED vars PROVE CommandInv'
  OBVIOUS
<1>1. /\ UNCHANGED <<url, context, ip, pc, packet, todo, buf, reply, sent>>
      /\ UNCHANGED <<there, pairs, size, capacity, expand_rate, short, wild>>
  BY DEF vars, session, making, kvsVars, store
<1>2. ContextInv' /\ PlaceInv' /\ BufferInv'
  BY <1>1 DEF CInv, CommandInv, ContextInv, PlaceInv, TcUrlOverruns, BufferInv
<1>3. SentInv'
  BY <1>1, SentSame DEF CInv, CommandInv
<1>4. /\ ConnectPacket' = ConnectPacket
      /\ \A k : PacketOf(k)' = PacketOf(k) /\ FieldsOf(k)' = FieldsOf(k) /\ Costs(k)' = Costs(k)
  BY <1>1, PacketsSame
<1>5. FillInv => FillInv'
  BY <1>1, <1>4 DEF FillInv, Filled
<1>6. EncodeInv => EncodeInv'
  <2>1. \A k, m : Encoded(k, m) => Encoded(k, m)'
    BY <1>1, <1>4 DEF Encoded
  <2>2. Filled(11)' <=> Filled(11)
    BY <1>1 DEF Filled
  <2> QED
    BY <1>1, <1>4, <2>1, <2>2 DEF EncodeInv
<1>7. MakingInv'
  BY <1>1, <1>5, <1>6 DEF CInv, CommandInv, MakingInv, NothingMade
<1> QED
  BY <1>2, <1>3, <1>7 DEF CommandInv

(* The inductive invariant.                                                *)
THEOREM CommandsInvariance == Spec => []CInv
<1>1. CInv /\ [Next]_vars => CInv'
  <2> SUFFICES ASSUME CInv, [Next]_vars PROVE CInv'
    OBVIOUS
  <2>1. CommandInv'
    BY CommandsStep, CommandsStutter
  <2>2. [KVNext]_kvsVars
    BY UsesStore DEF vars
  <2>3. KVInv' /\ Returns'
    BY <2>2, StoreSteps, ReturnsStep DEF CInv, Step
  <2> QED
    BY <2>1, <2>3 DEF CInv
<1> QED
  BY <1>1, CommandsBegin, PTL DEF Spec
-----------------------------------------------------------------------------
(* What the invariant means.                                               *)

(* However URLs, calls and failures follow each other, every variable stays*)
(* what it is declared to be; above all the cursor stays within its buffer *)
(* and a context within its URL.                                           *)
THEOREM TypesAreKept == Spec => []TypeOK
<1>1. CInv => TypeOK
  <2> SUFFICES ASSUME CInv PROVE TypeOK
    OBVIOUS
  <2>1. StoreOK
    BY StoreTyped DEF CInv
  <2>2. ContextInv /\ PlaceInv /\ BufferInv /\ MakingInv /\ SentInv
    BY DEF CInv, CommandInv
  <2>3. ip \in {Null} \cup {u.host : u \in Urls} /\ context \in {Blank} \cup {Parsed(u) : u \in Urls}
    <3>1. CASE url = Null
      BY <2>2, <3>1 DEF ContextInv
    <3>2. CASE url # Null
      <4>1. url \in Urls /\ context \in {Blank, Parsed(url)} /\ ip \in {Null, Parsed(url).host}
        BY <2>2, <3>2 DEF ContextInv
      <4>2. Parsed(url).host \in {Null, url.host}
        BY DEF Parsed, Blank, Host
      <4> QED
        BY <4>1, <4>2
    <3> QED
      BY <3>1, <3>2
  <2>4. buf.p \in 0 .. buf.nb /\ buf.st \in {"ok", "error", "aborted"}
    BY <2>2 DEF BufferInv, Buffers
  <2> QED
    BY <2>1, <2>2, <2>3, <2>4 DEF TypeOK, ContextInv, PlaceInv, MakingInv, SentInv
<1> QED
  BY <1>1, CommandsInvariance, PTL

(* For any URL and any lengths of its texts, get_size of every packet is   *)
(* what its encode writes: nothing is refused, no assertion of the cursor  *)
(* fails and no byte is left over.                                         *)
THEOREM SizesAreExact == Spec => []FillsExactly
<1>1. CInv => FillsExactly
  <2> SUFFICES ASSUME CInv, pc = "encode"
               PROVE  buf.st = "ok" /\ ~buf.missing /\ (todo = << >> => buf.p = buf.nb)
    BY DEF FillsExactly
  <2>1. Ok(buf) /\ ContextInv /\ EncodeInv
    BY OkNow
  <2>2. buf.st = "ok" /\ buf.missing = FALSE /\ buf.p \in Nat /\ buf.nb \in Nat
    BY <2>1 DEF Ok, Buffers
  <2>3. ASSUME todo = << >> PROVE buf.p = buf.nb
    <3>1. PICK k \in Kinds : \E m \in 0 .. Many(k) : EncodingAt(k, m)
      BY <2>1, EncodingIs
    <3>2. PICK m \in 0 .. Many(k) : EncodingAt(k, m)
      BY <3>1
    <3>3. m = Many(k) /\ Sendable(k) /\ buf.nb - buf.p = Left(Costs(k), m)
      BY <2>3, <3>2 DEF EncodingAt, Encoded
    <3>4. Many(k) \in 1 .. 15
      BY <2>1, FieldsKnown DEF FieldsFit
    <3>5. /\ Costs(k) \in [1 .. 15 -> Nat]
          /\ \A i \in 1 .. 15 : i > Many(k) => Costs(k)[i] = 0
      BY <2>1, <3>3, CostsTyped
    <3>6. Left(Costs(k), Many(k)) = 0
      BY <3>4, <3>5, LeftEnds
    <3> QED
      BY <2>2, <3>3, <3>6
  <2> QED
    BY <2>2, <2>3
<1> QED
  BY <1>1, CommandsInvariance, PTL

-----------------------------------------------------------------------------
(* The parts of a URL.                                                     *)

LEMMA AppDepths ==
  ASSUME NEW path \in Seq(STRING), path # << >>
  PROVE  /\ AppDepth(path) \in 1 .. Len(path)
         /\ Len(path) > 1 => AppDepth(path) < Len(path)
<1>1. Len(path) \in Nat /\ Len(path) # 0
  BY EmptySeq
<1> DEFINE n == Len(path)
<1>2. AppDepth(path) = IF path[1] = "ondemand" \/ n <= 2 THEN 1 ELSE IF n = 3 THEN 2 ELSE 3
  BY DEF AppDepth
<1> HIDE DEF n
<1>3. n \in Nat /\ n # 0
  BY <1>1 DEF n
<1>4. AppDepth(path) \in 1 .. n /\ (n > 1 => AppDepth(path) < n)
  BY <1>2, <1>3
<1> QED
  BY <1>4 DEF n

LEMMA UrlIs ==
  ASSUME NEW u \in Urls
  PROVE  /\ u.scheme \in BOOLEAN /\ u.host \in STRING /\ u.port \in Nat \cup {Absent}
         /\ u.path \in Seq(STRING) /\ u.slist \in STRING
         /\ u.slist # "" => u.path # << >> /\ u.path[Len(u.path)] \o u.slist \in STRING
  BY CommandsAssumption

LEMMA ParsedIs ==
  ASSUME NEW u, Parsed(u).app # Null \/ Parsed(u).stream # Null
  PROVE  Parsed(u) = [host |-> Host(u), port |-> Port(u), app |-> App(u), stream |-> Stream(u)]
         /\ u.path # << >>
  BY DEF Parsed, Blank

LEMMA PathTogether ==
  ASSUME NEW u \in Urls, u.slist = "", u.path # << >>, Stream(u) # Null
  PROVE  App(u) \o Stream(u) = u.path
<1> DEFINE q == u.path
           n == AppDepth(q)
<1>1. q \in Seq(STRING)
  BY UrlIs
<1>2. n \in 1 .. Len(q)
  BY <1>1, AppDepths
<1>3. App(u) = SubSeq(q, 1, n) /\ Stream(u) = SubSeq(q, n + 1, Len(q))
  BY DEF App, Stream
<1> HIDE DEF n, q
<1>4. 1 \in 1 .. Len(q) + 1 /\ n \in 1 - 1 .. Len(q) /\ Len(q) \in n .. Len(q)
  <2>1. PICK l \in Nat : l = Len(q)
    BY <1>1, LenProperties
  <2>2. n \in 1 .. l
    BY <1>2, <2>1
  <2>3. 1 \in 1 .. l + 1 /\ n \in 1 - 1 .. l /\ l \in n .. l
    BY ONLY l \in Nat, <2>2
  <2> QED
    BY <2>1, <2>3, Zenon
<1>5. SubSeq(q, 1, n) \o SubSeq(q, n + 1, Len(q)) = SubSeq(q, 1, Len(q))
  BY <1>1, <1>4, ConcatAdjacentSubSeq
<1>6. SubSeq(q, 1, Len(q)) = q
  BY <1>1, SubSeqFull
<1> QED
  BY <1>3, <1>5, <1>6 DEF q

(* Whatever the URL, what reaches the server is what it says: app and name *)
(* put its path together again, and the tcUrl has its host and port.  With *)
(* a URL that is longer than the arrays of srs_parse_rtmp_url or of the    *)
(* tcUrl no packet is made of it, as the model has it.                     *)
THEOREM UrlIsSent == Spec => []ServerSeesUrl
<1>0. \A i \in 1 .. 11 : i + 3 <= 15
  OBVIOUS
<1>1. CInv => ServerSeesUrl
  <2> SUFFICES ASSUME CInv, url # Null, url.slist = "", sent["connect"] # << >>
               PROVE  /\ SentFor("tcUrl") =
                           TcUrl(url.host, IF url.port = Absent \/ url.port > MaxPort THEN 0 ELSE url.port,
                                 SentFor("app"))
                      /\ \A k \in NameKinds : sent[k] # << >> => SentFor("app") \o sent[k][4] = url.path
    BY DEF ServerSeesUrl, NameKinds
  <2>1. ContextInv /\ SentInv
    BY DEF CInv, CommandInv
  <2>2. /\ ip # Null /\ context.app # Null /\ url \in Urls /\ context = Parsed(url)
        /\ ip = Parsed(url).host
    BY <2>1 DEF ContextInv, SentInv
  <2>3. /\ context = [host |-> Host(url), port |-> Port(url), app |-> App(url), stream |-> Stream(url)]
        /\ url.path # << >>
    BY <2>2, ParsedIs
  <2>4. /\ context.port = Port(url) /\ context.app = App(url) /\ context.stream = Stream(url)
        /\ context.host = Host(url)
    BY <2>3
  <2>5. ip = url.host
    BY <2>2, <2>4 DEF Host
  <2> DEFINE d == sent["connect"]
  <2>6. \A i \in 1 .. 11 : d[2 * i + 2] = Word(KeyAt(i)) /\ d[2 * i + 3] = ConnectPacket[Field[KeyAt(i)]]
    <3>1. Says(PacketOf("connect"), d, 15)
      BY <2>1 DEF SentInv
    <3>2. PacketOf("connect") = ConnectPacket
      BY DEF PacketOf
    <3>3. ConnectPacket.type = "connect"
      BY DEF ConnectPacket
    <3> QED
      BY <1>0, <3>1, <3>2, <3>3, Zenon DEF Says
  <2>7. ASSUME NEW i \in 1 .. 11 PROVE SentFor(KeyAt(i)) = ConnectPacket[Field[KeyAt(i)]]
    <3>1. \A j \in DOMAIN ObjectPairs : ObjectPairs[j].key = KeyAt(i) <=> j = i
      BY PairsAre, KeysDiffer DEF KeyAt
    <3>2. (CHOOSE j \in DOMAIN ObjectPairs : ObjectPairs[j].key = KeyAt(i)) = i
      BY <3>1, PairsAre
    <3> HIDE DEF d
    <3> QED
      BY <2>6, <3>2 DEF SentFor, d
  <2>8. SentFor("app") = context.app
    <3>1. 1 \in 1 .. 11
      BY ONLY TRUE
    <3>2. SentFor(KeyAt(1)) = ConnectPacket[Field[KeyAt(1)]]
      BY <2>7, <3>1, Zenon
    <3> QED
      BY <3>2, PairsAre, PairValues, Zenon
  <2>9. SentFor("tcUrl") = TcUrl(ip, context.port, context.app)
    <3>1. 4 \in 1 .. 11
      BY ONLY TRUE
    <3>2. SentFor(KeyAt(4)) = ConnectPacket[Field[KeyAt(4)]]
      BY <2>7, <3>1, Zenon
    <3> QED
      BY <3>2, PairsAre, PairValues, Zenon
  <2>10. ASSUME NEW k \in NameKinds, sent[k] # << >> PROVE SentFor("app") \o sent[k][4] = url.path
    <3>1. context.stream # Null /\ Says(PacketOf(k), sent[k], Many(k))
      BY <2>1, <2>10 DEF SentInv
    <3>2. PacketOf(k).type = k /\ PacketOf(k).stream_name = context.stream
      BY ONLY k \in NameKinds DEF NameKinds, PacketOf, ReleasePacket, FcPublishPacket, PublishPacket
    <3>3. 4 <= Many(k)
      BY ONLY k \in NameKinds DEF NameKinds, Many
    <3>4. sent[k][4] = context.stream
      BY <3>1, <3>2, <3>3, Zenon DEF Says
    <3>5. App(url) \o Stream(url) = url.path
      BY <2>2, <2>3, <2>4, <3>1, PathTogether
    <3> QED
      BY <2>4, <2>8, <3>4, <3>5, Zenon
  <2> QED
    BY <2>4, <2>5, <2>8, <2>9, <2>10 DEF Port
<1> QED
  BY <1>1, CommandsInvariance, PTL
LEMMA OneText == ASSUME NEW S, NEW w \in S PROVE << w >> \in Seq(S)
  OBVIOUS

LEMMA CompleteParses ==
  ASSUME NEW u \in Urls, Complete(u)
  PROVE  Parsed(u).app # Null /\ Parsed(u).stream # Null
<1> DEFINE q == u.path
<1>1. q \in Seq(STRING) /\ u.slist \in STRING /\ Null \notin STRING /\ Null \notin Seq(STRING)
  BY UrlIs, CommandsAssumption
<1>2. q # << >> /\ ~NoHost(u)
  <2>1. u.slist # "" => q # << >>
    BY UrlIs
  <2>2. Len(q) > 1 => q # << >>
    BY EmptySeq
  <2>3. q # << >>
    BY <2>1, <2>2 DEF Complete
  <2> QED
    BY <2>3 DEF Complete, NoHost
<1>3. Parsed(u).app = App(u) /\ Parsed(u).stream = Stream(u)
  BY <1>2 DEF Parsed
<1>4. AppDepth(q) \in 1 .. Len(q) /\ (Len(q) > 1 => AppDepth(q) < Len(q))
  BY <1>1, <1>2, AppDepths
<1>5. CASE u.slist # ""
  <2>1. q[Len(q)] \o u.slist \in STRING
    BY <1>5, UrlIs
  <2>2. App(u) = [q EXCEPT ![Len(q)] = q[Len(q)] \o u.slist]
    BY <1>5 DEF App
  <2>3. App(u) \in Seq(STRING)
    <3>1. PICK w : w = q[Len(q)] \o u.slist
      OBVIOUS
    <3>2. w \in STRING
      BY <2>1, <3>1
    <3> HIDE DEF q
    <3>3. Len(q) \in 1 .. Len(q)
      <4>1. PICK l \in Nat : l = Len(q)
        BY <1>1, LenProperties
      <4>2. l # 0
        BY <1>1, <1>2, <4>1, EmptySeq
      <4>3. l \in 1 .. l
        BY ONLY l \in Nat, <4>2
      <4> QED
        BY <4>1, <4>3
    <3>4. [q EXCEPT ![Len(q)] = w] \in Seq(STRING)
      BY <1>1, <3>2, <3>3, ExceptSeq
    <3> QED
      BY <2>2, <3>1, <3>4
  <2>4. << u.slist >> \in Seq(STRING) /\ << u.slist >> # << >> /\ << u.slist >> # << "" >>
    <3>1. PICK w \in STRING : w = u.slist /\ w # ""
      BY <1>1, <1>5
    <3>2. << w >> \in Seq(STRING)
      BY ONLY w \in STRING, OneText
    <3>3. << w >> # << >>
      BY ONLY w \in STRING
    <3>4. << w >> # << "" >>
      BY ONLY <3>1
    <3> QED
      BY <3>1, <3>2, <3>3, <3>4
  <2>5. Stream(u) = << u.slist >>
    BY <1>5, <2>4 DEF Stream
  <2> QED
    BY <1>1, <1>3, <2>3, <2>4, <2>5
<1>6. CASE u.slist = ""
  <2> DEFINE n == AppDepth(q)
             rest == SubSeq(q, n + 1, Len(q))
  <2>1. Len(q) > 1 /\ q[Len(q)] # ""
    BY <1>6 DEF Complete
  <2>2. PICK l \in Nat : l = Len(q)
    BY <1>1, LenProperties
  <2>3. n \in 1 .. l /\ n < l
    BY <1>4, <2>1, <2>2
  <2>4. App(u) = SubSeq(q, 1, n) /\ Stream(u) = IF rest \in {<< >>, <<"">>} THEN Null ELSE rest
    BY <1>6 DEF App, Stream
  <2> HIDE DEF n, q
  <2>5. \A i \in 1 .. l : q[i] \in STRING
    BY <1>1, <2>2
  <2>6. App(u) \in Seq(STRING)
    <3>1. 1 \in Int /\ n \in Int /\ \A i \in 1 .. n : q[i] \in STRING
      BY <2>3, <2>5
    <3>2. SubSeq(q, 1, n) \in Seq(STRING)
      BY ONLY <3>1, SubSeqProperties
    <3> QED
      BY <2>4, <3>2
  <2>7. rest \in Seq(STRING) /\ Len(rest) = l - n /\ rest[l - n] = q[l]
    <3>1. n + 1 \in Int /\ l \in Int /\ \A i \in n + 1 .. l : q[i] \in STRING
      BY <2>3, <2>5
    <3>2. /\ SubSeq(q, n + 1, l) \in Seq(STRING)
          /\ Len(SubSeq(q, n + 1, l)) = IF n + 1 <= l THEN l - (n + 1) + 1 ELSE 0
          /\ \A i \in 1 .. l - (n + 1) + 1 : SubSeq(q, n + 1, l)[i] = q[(n + 1) + i - 1]
      BY ONLY <3>1, SubSeqProperties
    <3>3. n + 1 <= l /\ l - (n + 1) + 1 = l - n /\ l - n \in 1 .. l - n /\ (n + 1) + (l - n) - 1 = l
      BY <2>3
    <3> QED
      BY <2>2, <3>2, <3>3
  <2> HIDE DEF rest
  <2>8. rest # << >>
    BY <2>3, <2>7, EmptySeq
  <2>9. rest # <<"">>
    <3> SUFFICES ASSUME rest = <<"">> PROVE FALSE
      OBVIOUS
    <3>1. Len(rest) = 1 /\ rest[1] = ""
      OBVIOUS
    <3>2. rest[l - n] = ""
      BY <2>7, <3>1
    <3> QED
      BY <2>1, <2>2, <2>7, <3>2
  <2> QED
    BY <1>1, <1>3, <2>4, <2>6, <2>7, <2>8, <2>9
<1> QED
  BY <1>5, <1>6

(* With a complete URL that fits the arrays it is copied into, a session   *)
(* never comes to read through NULL or to write behind an array, unless    *)
(* memory ran out or the host's name was never resolved.                   *)
THEOREM CompleteUrlsWork == Spec => []CompleteUrlWorks
<1>1. CInv => CompleteUrlWorks
  <2> SUFFICES ASSUME CInv, Complete(url), Fits(url)
               PROVE  (pc = "dead" => short \/ ip = Null) /\ pc # "overrun"
    BY DEF CompleteUrlWorks
  <2>1. ContextInv /\ PlaceInv
    BY DEF CInv, CommandInv
  <2>2. ASSUME pc = "dead", ip # Null PROVE short
    <3>1. url \in Urls /\ context = Parsed(url)
      BY <2>1, <2>2 DEF ContextInv
    <3>2. context.app # Null /\ context.stream # Null
      BY <3>1, CompleteParses
    <3> QED
      BY <2>1, <2>2, <3>2 DEF PlaceInv
  <2>3. ASSUME pc = "overrun" PROVE FALSE
    <3>1. url # Null /\ ip # Null /\ context.app # Null /\ TcUrlOverruns
      BY <2>1, <2>3 DEF PlaceInv, Fits
    <3>2. url \in Urls /\ context = Parsed(url) /\ ip = Parsed(url).host
      BY <2>1, <3>1 DEF ContextInv
    <3>3. context.host = Host(url) /\ context.port = Port(url) /\ context.app = App(url)
      BY <3>1, <3>2, ParsedIs
    <3>4. ip = url.host
      BY <3>1, <3>2, <3>3 DEF Host
    <3>5. Length(TcUrl(url.host, Port(url), App(url))) < 128
      BY DEF Fits, TcUrlBuffer
    <3>6. TcUrl(ip, context.port, context.app) \in Texts
      BY <2>1, <3>1, UrlTexts DEF Addressable
    <3>7. Length(TcUrl(ip, context.port, context.app)) \in Nat
      BY <3>6, LengthAssumption
    <3>8. Length(TcUrl(ip, context.port, context.app)) >= 128
      BY <3>1 DEF TcUrlOverruns, TcUrlBuffer
    <3> QED
      BY <3>3, <3>4, <3>5, <3>7, <3>8
  <2> QED
    BY <2>2, <2>3
<1> QED
  BY <1>1, CommandsInvariance, PTL

-----------------------------------------------------------------------------
(* The store, among the commands.                                          *)

(* What the client does to its stores, one after the other and whether or  *)
(* not memory runs out, is what one may do to a map.                       *)
THEOREM CommandsUseMap == Spec => ImplementsMap
<1>1. Init => Map!Init
  BY KVBegins DEF Init
<1>2. CInv /\ [Next]_vars => [Map!Next]_(Map!vars)
  <2> SUFFICES ASSUME CInv, [Next]_vars PROVE [Map!Next]_(Map!vars)
    OBVIOUS
  <2>1. [KVNext]_kvsVars
    BY UsesStore DEF vars
  <2> QED
    BY <2>1, StoreSteps DEF CInv, Step
<1> QED
  BY <1>1, <1>2, CommandsInvariance, PTL DEF Spec, ImplementsMap, Map!Spec

(* The client, whose eleven keys go into twenty places, never leaves the   *)
(* array of its store at all, not even after an allocation failed.         *)
THEOREM CommandsStayInside == Spec => []~wild
<1>1. CInv => ~wild
  BY DEF CInv, CommandInv, ContextInv
<1> QED
  BY <1>1, CommandsInvariance, PTL
-----------------------------------------------------------------------------
(* The response to createStream.                                           *)

At(n, w) == [i |-> n, st |-> "ok", v |-> w]
Whole(n, type) == n <= Len(reply.fields) /\ type \in DOMAIN reply.fields[n]

LEMMA AtIs == \A n, w : At(n, w).i = n /\ At(n, w).st = "ok" /\ At(n, w).v = w
  BY DEF At

LEMMA Reads ==
  ASSUME NEW n \in Nat, NEW w, NEW type
  PROVE  /\ Whole(n, type) => ReadValue(At(n, w), type) = At(n + 1, reply.fields[n][type])
         /\ ~Whole(n, type) => ReadValue(At(n, w), type).st = "error"
  BY DEF At, Whole, ReadValue

LEMMA ErrorStays ==
  ASSUME NEW r, r = [i |-> r.i, st |-> r.st, v |-> r.v], r.st = "error", NEW type
  PROVE  LET e == ReadValue(r, type)
         IN e = [i |-> e.i, st |-> e.st, v |-> e.v] /\ e.st = "error"
<1>1. ReadValue(r, type) = [r EXCEPT !.st = "error", !.v = Null]
  BY DEF ReadValue
<1> QED
  BY <1>1

LEMMA ReadsRecord ==
  ASSUME NEW r, r = [i |-> r.i, st |-> r.st, v |-> r.v], NEW type
  PROVE  LET e == ReadValue(r, type) IN e = [i |-> e.i, st |-> e.st, v |-> e.v]
  BY DEF ReadValue

(* Values with one field are told by it.                                   *)
LEMMA ValuesAre ==
  ASSUME NEW f \in AmfValues
  PROVE  /\ "string" \in DOMAIN f => f = [string |-> f.string] /\ f.string \in STRING
         /\ "number" \in DOMAIN f => f = [number |-> f.number]
         /\ "null" \in DOMAIN f => f = [null |-> 0]
<1>1. CASE f \in [string : STRING]
  BY <1>1
<1>2. CASE f \in [number : Int]
  BY <1>2
<1>3. CASE f \in [null : {0}]
  BY <1>3
<1>4. CASE f \in [object : {0}]
  BY <1>4
<1>5. CASE f \in [byte : {0}]
  BY <1>5
<1> QED
  BY <1>1, <1>2, <1>3, <1>4, <1>5 DEF AmfValues

(* A response is a whole _result when its four values are.                 *)
LEMMA ResultIs ==
  ASSUME NEW f \in Seq(AmfValues)
  PROVE  IsResult(f) <=>
           /\ Len(f) >= 4
           /\ "string" \in DOMAIN f[1] /\ f[1].string = "_result"
           /\ "number" \in DOMAIN f[2] /\ f[2].number = 4
           /\ "null" \in DOMAIN f[3] /\ "number" \in DOMAIN f[4]
<1> DEFINE g == SubSeq(f, 1, 4)
           h == ResponseTo(f[4].number)
<1>1. CASE ~(Len(f) >= 4)
  BY <1>1 DEF IsResult
<1>2. CASE Len(f) >= 4
  <2>1. PICK l \in Nat : l = Len(f)
    BY LenProperties
  <2>2. l >= 4
    BY <1>2, <2>1
  <2>3. \A i \in 1 .. 4 : f[i] \in AmfValues
    BY <2>1, <2>2
  <2>4. \A i \in 1 .. 4 : g[i] = f[i]
    <3>1. 1 \in Int /\ 4 \in Int
      OBVIOUS
    <3>2. \A i \in 1 .. 4 - 1 + 1 : SubSeq(f, 1, 4)[i] = f[1 + i - 1]
      BY <2>3, <3>1, SubSeqProperties
    <3>3. \A i \in 1 .. 4 : i \in 1 .. 4 - 1 + 1 /\ 1 + i - 1 = i
      OBVIOUS
    <3> QED
      BY <3>2, <3>3
  <2>5. /\ h[1] = [string |-> "_result"] /\ h[2] = [number |-> 4] /\ h[3] = [null |-> 0]
        /\ h[4] = [number |-> f[4].number]
    BY DEF ResponseTo
  <2>6. ASSUME IsResult(f)
        PROVE  /\ "string" \in DOMAIN f[1] /\ f[1].string = "_result"
               /\ "number" \in DOMAIN f[2] /\ f[2].number = 4
               /\ "null" \in DOMAIN f[3] /\ "number" \in DOMAIN f[4]
    <3>1. g = h /\ "number" \in DOMAIN f[4]
      BY <2>6 DEF IsResult
    <3> HIDE DEF g, h
    <3>2. f[1] = [string |-> "_result"] /\ f[2] = [number |-> 4] /\ f[3] = [null |-> 0]
      BY <2>4, <2>5, <3>1
    <3> QED
      BY <3>1, <3>2
  <2>7. ASSUME "string" \in DOMAIN f[1], f[1].string = "_result",
               "number" \in DOMAIN f[2], f[2].number = 4,
               "null" \in DOMAIN f[3], "number" \in DOMAIN f[4]
        PROVE  g = h
    <3>1. f[1] \in AmfValues /\ f[2] \in AmfValues /\ f[3] \in AmfValues /\ f[4] \in AmfValues
      BY <2>3
    <3>2. f[1] = [string |-> "_result"] /\ f[2] = [number |-> 4]
      BY <2>7, <3>1, ValuesAre
    <3>3. f[3] = [null |-> 0] /\ f[4] = [number |-> f[4].number]
      BY <2>7, <3>1, ValuesAre
    <3>4. g = <<f[1], f[2], f[3], f[4]>>
      <4> DEFINE t == <<f[1], f[2], f[3], f[4]>>
      <4>1. t \in Seq(AmfValues) /\ Len(t) = 4
        BY <3>1
      <4>2. g \in Seq(AmfValues) /\ Len(g) = 4
        <5>1. 1 \in Int /\ 4 \in Int /\ \A i \in 1 .. 4 : f[i] \in AmfValues
          BY <2>3
        <5>2. /\ SubSeq(f, 1, 4) \in Seq(AmfValues)
              /\ Len(SubSeq(f, 1, 4)) = IF 1 <= 4 THEN 4 - 1 + 1 ELSE 0
          BY ONLY <5>1, SubSeqProperties
        <5> QED
          BY <5>2
      <4>3. t[1] = f[1] /\ t[2] = f[2] /\ t[3] = f[3] /\ t[4] = f[4]
        OBVIOUS
      <4> HIDE DEF t, g
      <4>4. \A i \in 1 .. 4 : t[i] = f[i]
        BY <4>3
      <4>5. Len(g) = Len(t) /\ \A i \in 1 .. Len(g) : g[i] = t[i]
        BY <2>4, <4>1, <4>2, <4>4
      <4>6. g = t
        BY <4>1, <4>2, <4>5, SeqEqual
      <4> QED
        BY <4>6 DEF t
    <3>5. h = <<f[1], f[2], f[3], f[4]>>
      BY <3>2, <3>3, Zenon DEF ResponseTo
    <3> QED
      BY <3>4, <3>5
  <2> QED
    BY <1>2, <2>6, <2>7 DEF IsResult
<1> QED
  BY <1>1, <1>2
Start == IF reply.amf3 THEN 2 ELSE 1

LEMMA PayloadIs ==
  ASSUME reply \in Replies, Known(reply)
  PROVE  LET f == Payload(reply)
         IN /\ f \in Seq(AmfValues)
            /\ \A i \in 1 .. 4 : Start + i - 1 <= Len(reply.fields) <=> i <= Len(f)
            /\ \A i \in 1 .. 4 : i <= Len(f) => reply.fields[Start + i - 1] = f[i] /\ f[i] \in AmfValues
<1> DEFINE q == reply.fields
           f == Payload(reply)
<1>1. q \in Seq(AmfValues) /\ reply.amf3 \in BOOLEAN
  BY CommandsAssumption
<1>2. Len(f) >= 2
  BY DEF Known
<1>3. CASE reply.amf3 /\ q # << >>
  <2>1. f = Tail(q) /\ Start = 2
    BY <1>3 DEF Payload, Start
  <2> HIDE DEF f, q
  <2>2. /\ f \in Seq(AmfValues) /\ Len(f) = Len(q) - 1
        /\ \A i \in 1 .. Len(f) : f[i] = q[i + 1]
    BY <1>1, <1>3, <2>1, HeadTailProperties
  <2>3. PICK l \in Nat : l = Len(q)
    BY <1>1, LenProperties
  <2>4. \A i \in 1 .. 4 : 2 + i - 1 = i + 1
    OBVIOUS
  <2>5. \A i \in 1 .. 4 : i <= Len(f) => i \in 1 .. Len(f)
    BY <2>2, <2>3
  <2>6. \A i \in 1 .. 4 : 2 + i - 1 <= Len(q) <=> i <= Len(f)
    BY <2>2, <2>3
  <2>7. \A i \in 1 .. 4 : i <= Len(f) => q[2 + i - 1] = f[i] /\ f[i] \in AmfValues
    BY <2>2, <2>4, <2>5
  <2> QED
    BY <2>1, <2>2, <2>6, <2>7 DEF f, q
<1>4. CASE ~reply.amf3
  <2>1. f = q /\ Start = 1
    BY <1>4 DEF Payload, Start
  <2> HIDE DEF f, q
  <2>2. PICK l \in Nat : l = Len(q)
    BY <1>1, LenProperties
  <2>3. \A i \in 1 .. 4 : 1 + i - 1 = i
    OBVIOUS
  <2>4. \A i \in 1 .. 4 : i <= Len(f) => i \in 1 .. Len(f)
    BY <2>1, <2>2
  <2>5. \A i \in 1 .. 4 : i <= Len(f) => q[1 + i - 1] = f[i] /\ f[i] \in AmfValues
    BY <1>1, <2>1, <2>3, <2>4
  <2>6. \A i \in 1 .. 4 : 1 + i - 1 <= Len(q) <=> i <= Len(f)
    BY <2>1, <2>3
  <2> QED
    BY <1>1, <2>1, <2>5, <2>6 DEF f, q
<1>5. CASE q = << >>
  <2>1. f = << >>
    BY <1>5 DEF Payload
  <2>2. Len(f) = 0
    BY <2>1
  <2> QED
    BY <1>2, <2>2
<1> QED
  BY <1>1, <1>3, <1>4, <1>5

LEMMA NameIs ==
  ASSUME reply \in Replies, Known(reply)
  PROVE  LET f == Payload(reply)
         IN /\ NameRead = At(Start + 1, f[1].string)
            /\ ReadString(Reading(StartOfCommand)) = At(Start + 1, f[1].string)
            /\ IdRead = At(Start + 2, f[2].number)
            /\ IsResponse
<1> DEFINE f == Payload(reply)
           s == Start
<1>1. /\ f[1].string \in {"_result", "_error"} /\ DOMAIN f[1] = {"string"}
      /\ f[2].number \in {1, 4} /\ DOMAIN f[2] = {"number"} /\ Len(f) >= 2
  BY DEF Known
<1>2. PICK l \in Nat : l = Len(f)
  BY PayloadIs, LenProperties
<1>3. 1 <= Len(f) /\ 2 <= Len(f) /\ s \in Nat
  BY <1>1, <1>2 DEF Start
<1>4. s + 1 - 1 = s /\ s + 2 - 1 = s + 1 /\ s + 1 \in Nat /\ 1 \in 1 .. 4 /\ 2 \in 1 .. 4
      /\ (s + 1) + 1 = s + 2
  BY ONLY <1>3
<1>5. /\ s <= Len(reply.fields) /\ reply.fields[s] = f[1]
      /\ s + 1 <= Len(reply.fields) /\ reply.fields[s + 1] = f[2]
  BY <1>3, <1>4, PayloadIs
<1> HIDE DEF f, s
<1>6. Whole(s, "string") /\ Whole(s + 1, "number")
  BY <1>1, <1>5 DEF Whole
<1>7. ReadValue(At(s, Null), "string") = At(s + 1, f[1].string)
  BY <1>3, <1>5, <1>6, Reads
<1>8. f[1].string # "" /\ f[1].string \in STRING /\ f[1].string # Null
  <2>1. f[1] \in AmfValues
    BY <1>3, <1>4, PayloadIs DEF f
  <2>2. Null \notin STRING
    BY CommandsAssumption
  <2>3. f[1].string \in STRING
    BY <1>1, <2>1, ValuesAre
  <2>4. f[1].string # ""
    BY <1>1
  <2> QED
    BY <2>2, <2>3, <2>4, Zenon
<1>9. ReadString(At(s, Null)) = At(s + 1, f[1].string)
  <2> DEFINE e == ReadValue(At(s, Null), "string")
  <2>1. At(s + 1, f[1].string).v = f[1].string
    BY AtIs
  <2>2. e = At(s + 1, f[1].string)
    BY <1>7
  <2>3. e.v # ""
    <3> HIDE DEF e
    <3> QED
      BY <1>8, <2>1, <2>2, Zenon
  <2>4. ReadString(At(s, Null)) = e
    BY <2>3, Zenon DEF ReadString
  <2> QED
    BY <2>2, <2>4
<1>10. Reading(IF reply.amf3 THEN 2 ELSE 1) = At(s, Null) /\ Reading(StartOfCommand) = At(s, Null)
  BY DEF Reading, At, s, Start, StartOfCommand
<1>11. NameRead = At(s + 1, f[1].string)
  BY <1>9, <1>10 DEF NameRead
<1>12. IdRead = At(s + 2, f[2].number)
  <2>1. ReadValue(At(s + 1, f[1].string), "number") = At((s + 1) + 1, reply.fields[s + 1]["number"])
    BY <1>4, <1>6, Reads
  <2>2. reply.fields[s + 1]["number"] = f[2].number
    BY <1>5
  <2> QED
    BY <1>4, <1>11, <2>1, <2>2, Zenon DEF IdRead, ReadNumber
<1>13. IsResponse
  BY <1>1, <1>8, <1>11 DEF IsResponse, Named, At
<1> QED
  BY <1>9, <1>10, <1>11, <1>12, <1>13 DEF f, s

LEMMA ResponseIs ==
  ASSUME reply \in Replies, Known(reply)
  PROVE  LET f == Payload(reply)
         IN /\ ResponseRead.st \in {"ok", "error"}
            /\ ResponseRead.st = "ok" <=>
                 /\ f[1].string = "_result"
                 /\ Len(f) >= 4 /\ "null" \in DOMAIN f[3] /\ "number" \in DOMAIN f[4]
            /\ ResponseRead.st = "ok" => ResponseRead.v = f[4].number
<1> DEFINE f == Payload(reply)
           s == Start
           name == ReadString(Reading(StartOfCommand))
<1>1. name = At(s + 1, f[1].string)
  BY NameIs
<1>2. name.st = "ok" /\ name.v = f[1].string
  BY <1>1 DEF At
<1>3. PICK l \in Nat : l = Len(f)
  BY PayloadIs, LenProperties
<1>4. s \in Nat
  BY DEF Start
<1>5. CASE f[1].string # "_result"
  <2>1. ResponseRead = [name EXCEPT !.st = "error"]
    BY <1>2, <1>5 DEF ResponseRead
  <2>2. name = [i |-> s + 1, st |-> "ok", v |-> f[1].string]
    BY <1>1 DEF At
  <2>3. ResponseRead.st = "error"
    BY <2>1, <2>2
  <2> QED
    BY <1>5, <2>3
<1>6. CASE f[1].string = "_result"
  <2> DEFINE a == ReadNumber(name)
             b == ReadNull(a)
             c == ReadNumber(b)
  <2>1. ResponseRead = c
    BY <1>2, <1>6 DEF ResponseRead
  <2>2. a = At(s + 2, f[2].number)
    <3>1. NameRead = name
      BY NameIs
    <3>2. IdRead = At(s + 2, f[2].number)
      BY NameIs
    <3> QED
      BY <3>1, <3>2 DEF IdRead
  <2>3. s + 2 \in Nat /\ s + 3 \in Nat /\ (s + 2) + 1 = s + 3 /\ (s + 3) + 1 = s + 4
        /\ s + 3 - 1 = s + 2 /\ s + 4 - 1 = s + 3 /\ 3 \in 1 .. 4 /\ 4 \in 1 .. 4
    BY ONLY <1>4
  <2>4. /\ s + 2 <= Len(reply.fields) <=> 3 <= Len(f)
        /\ s + 3 <= Len(reply.fields) <=> 4 <= Len(f)
        /\ 3 <= Len(f) => reply.fields[s + 2] = f[3]
        /\ 4 <= Len(f) => reply.fields[s + 3] = f[4]
    BY <2>3, PayloadIs
  <2>5. 4 <= Len(f) => 3 <= Len(f)
    BY <1>3
  <2> HIDE DEF f, s, a, b, c, name
  <2>6. /\ Whole(s + 2, "null") <=> 3 <= Len(f) /\ "null" \in DOMAIN f[3]
        /\ Whole(s + 3, "number") <=> 4 <= Len(f) /\ "number" \in DOMAIN f[4]
    BY <2>4 DEF Whole
  <2>7. CASE ~Whole(s + 2, "null")
    <3>1. b = ReadValue(At(s + 2, f[2].number), "null")
      BY <2>2 DEF b, ReadNull
    <3>2. b.st = "error"
      BY <2>3, <2>7, <3>1, Reads
    <3>3. b = [i |-> b.i, st |-> b.st, v |-> b.v]
      BY <3>1, ReadsRecord DEF At
    <3>4. c.st = "error"
      BY <3>2, <3>3, ErrorStays DEF c, ReadNumber
    <3> QED
      BY <2>1, <2>5, <2>6, <2>7, <3>4 DEF f
  <2>8. CASE Whole(s + 2, "null")
    <3>1. b = At(s + 3, reply.fields[s + 2]["null"])
      BY <2>2, <2>3, <2>8, Reads DEF b, ReadNull
    <3>2. CASE ~Whole(s + 3, "number")
      <4>1. c.st = "error"
        BY <2>3, <3>1, <3>2, Reads DEF c, ReadNumber
      <4> QED
        BY <2>1, <2>6, <3>2, <4>1 DEF f
    <3>3. CASE Whole(s + 3, "number")
      <4>1. c = At(s + 4, reply.fields[s + 3]["number"])
        BY <2>3, <3>1, <3>3, Reads DEF c, ReadNumber
      <4>2. reply.fields[s + 3] = f[4] /\ 4 <= Len(f)
        BY <2>4, <2>6, <3>3
      <4>3. c.st = "ok" /\ c.v = f[4].number
        BY <4>1, <4>2 DEF At
      <4> QED
        BY <1>6, <2>1, <2>6, <2>8, <3>3, <4>2, <4>3 DEF f
    <3> QED
      BY <3>2, <3>3
  <2> QED
    BY <2>7, <2>8
<1> QED
  BY <1>5, <1>6

(* Of the known responses, of any values in any number, publish_stream     *)
(* goes on with a whole _result of createStream only, and with its id.     *)
THEOREM ReplyUnderstood == Spec => ReplyIsUnderstood
<1> DEFINE f == Payload(reply)
           Goes == /\ pc' = "publish" <=> IsResult(Payload(reply))
                   /\ pc' = "publish" => stream_id' = Payload(reply)[4].number
<1>1. CInv /\ [Next]_vars => [pc = "decode" /\ Known(reply) => Goes]_vars
  <2> SUFFICES ASSUME CInv, Next, pc = "decode", Known(reply) PROVE Goes
    OBVIOUS
  <2>1. reply \in Replies
    <3>1. ~Known(NoReply)
      <4>1. Payload(NoReply) = << >>
        BY DEF Payload, NoReply
      <4>2. Len(Payload(NoReply)) = 0
        BY <4>1
      <4> QED
        BY <4>2 DEF Known
    <3> QED
      BY <3>1 DEF CInv, CommandInv, PlaceInv
  <2>2. IsResponse /\ Named /\ IdRead.st = "ok" /\ IdRead.v = f[2].number
    BY <2>1, NameIs DEF IsResponse, At
  <2>3. f[2].number \in {1, 4} /\ DOMAIN f[1] = {"string"} /\ DOMAIN f[2] = {"number"}
    BY DEF Known
  <2>4. IsResult(f) <=> f[2].number = 4 /\ ResponseRead.st = "ok"
    <3>1. f \in Seq(AmfValues)
      BY <2>1, PayloadIs
    <3> HIDE DEF f
    <3>2. IsResult(f) <=>
           /\ Len(f) >= 4
           /\ "string" \in DOMAIN f[1] /\ f[1].string = "_result"
           /\ "number" \in DOMAIN f[2] /\ f[2].number = 4
           /\ "null" \in DOMAIN f[3] /\ "number" \in DOMAIN f[4]
      BY <3>1, ResultIs
    <3>3. ResponseRead.st = "ok" <=>
            /\ f[1].string = "_result"
            /\ Len(f) >= 4 /\ "null" \in DOMAIN f[3] /\ "number" \in DOMAIN f[4]
      BY <2>1, ResponseIs DEF f
    <3> QED
      BY <2>3, <3>2, <3>3, Zenon
  <2>5. /\ ResponseRead.st \in {"ok", "error"}
        /\ ResponseRead.st = "ok" => ResponseRead.v = f[4].number
    BY <2>1, ResponseIs
  <2>6. DecodeNoName \/ DecodeOther \/ DecodeUntyped \/ DecodeFails \/ DecodeStream
    BY DEF Next, NewContext, Destroy, ResolveStops, Resolve, ResolveOverruns, ConnectOverruns,
           ConnectApp, ConnectNothing, Fill, Measure, MeasureNothing, PublishStream, MakeSetWindow, MakeRelease, MakeFcPublish, MakeCreate,
           MakePublish, EncodeValue, EncodePair, Send, SendFails, Receive
  <2> HIDE DEF f
  <2>7. ~DecodeNoName /\ ~DecodeUntyped
    BY <2>2, <2>3 DEF DecodeNoName, DecodeUntyped
  <2>8. CASE DecodeOther
    <3>1. f[2].number = 1 /\ pc' = "reply"
      BY <2>2, <2>8 DEF DecodeOther, DecodeIs
    <3> QED
      BY <2>4, <3>1 DEF f
  <2>9. CASE DecodeFails
    <3>1. pc' = "idle" /\ f[2].number = 4 /\ ResponseRead.st = "error"
      BY <2>2, <2>9 DEF DecodeFails, DecodeIs
    <3> QED
      BY <2>4, <3>1 DEF f
  <2>10. CASE DecodeStream
    <3>1. pc' = "publish" /\ f[2].number = 4 /\ ResponseRead.st = "ok" /\ stream_id' = ResponseRead.v
      BY <2>2, <2>10 DEF DecodeStream, DecodeIs
    <3> QED
      BY <2>4, <2>5, <3>1 DEF f
  <2> QED
    BY <2>6, <2>7, <2>8, <2>9, <2>10
<1> QED
  BY <1>1, CommandsInvariance, PTL DEF Spec, ReplyIsUnderstood
=============================================================================
