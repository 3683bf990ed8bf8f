-------------------------- MODULE AacPublishProofs --------------------------
(***************************************************************************)
(* Proofs about AacPublish, for every set of buffers and any number of     *)
(* calls: what the arithmetic of the ADTS header gives, types, the one     *)
(* sequence header and what it says, the pieces that lie end to end, and   *)
(* that a whole buffer is sent.                                            *)
(***************************************************************************)
EXTENDS AacPublish, TLAPS

Bits2 == 0..3
Bits3 == 0..7
Bits4 == 0..15
Bits11 == 0..2047

(* The first 16 bits of a header and the last 24, and what the shifts and  *)
(* masks are to take out of them.                                          *)
First(v, a, b, c, d) == v = a * 16384 + b * 1024 + c * 64 + d
Last(w, low) == w = low * 8192 + 8188

FirstRead(v, a, b, c, d) ==
  /\ (v \div 16384) % 4 = a
  /\ (v \div 1024) % 16 = b
  /\ (v \div 64) % 8 = c
  /\ v % 4 = d
  /\ (v % 256) % 4 = d

LastRead(w, low) ==
  /\ (w \div 8192) % 2048 = low
  /\ w \div 65536 = low \div 8
  /\ ((w \div 256) % 256) \div 32 = low % 8

LEMMA FirstBits ==
  ASSUME NEW a \in Bits2, NEW b \in Bits4, NEW c \in Bits3, NEW d \in Bits2,
         NEW v \in Int, First(v, a, b, c, d)
  PROVE  FirstRead(v, a, b, c, d)
<1> USE DEF First, Bits2, Bits3, Bits4
<1>1. v \div 16384 = a /\ a % 4 = a
  OBVIOUS
<1>2. v \div 1024 = a * 16 + b /\ (a * 16 + b) % 16 = b
  OBVIOUS
<1>3. v \div 64 = a * 256 + b * 16 + c /\ (a * 256 + b * 16 + c) % 8 = c
  OBVIOUS
<1>4. v % 4 = d
  OBVIOUS
<1>5. (v % 256) % 4 = d
  <2>1. v % 256 = (c % 4) * 64 + d
    OBVIOUS
  <2>2. ((c % 4) * 64 + d) % 4 = d
    OBVIOUS
  <2> QED  BY <2>1, <2>2
<1> QED
  BY <1>1, <1>2, <1>3, <1>4, <1>5 DEF FirstRead

LEMMA LastBits ==
  ASSUME NEW low \in Bits11, NEW v \in Int, Last(v, low)
  PROVE  LastRead(v, low)
<1> USE DEF Last, Bits11
<1>1. v \div 8192 = low /\ low % 2048 = low
  OBVIOUS
<1>2. v \div 65536 = low \div 8
  OBVIOUS
<1>3. v \div 256 = low * 32 + 31
  OBVIOUS
<1>4. (low * 32 + 31) % 256 = (low % 8) * 32 + 31
  OBVIOUS
<1>5. ((low % 8) * 32 + 31) \div 32 = low % 8
  OBVIOUS
<1> QED
  BY <1>1, <1>2, <1>3, <1>4, <1>5 DEF LastRead

(* The numbers a header is made of: the length is cut in two where the     *)
(* first 16 bits end.                                                      *)
Values(h, v, w, a, b, c, d, low) ==
  /\ h.profile = a /\ h.sfi = b /\ h.channels = c
  /\ h.flen = 2048 * d + low
  /\ Sfiv(h) = v /\ Abfv(h) = w

LEMMA HeaderValues ==
  ASSUME NEW h \in Headers
  PROVE  \E a \in Bits2, b \in Bits4, c \in Bits3, d \in Bits2, low \in Bits11,
            v \in Int, w \in Int :
           First(v, a, b, c, d) /\ Last(w, low) /\ Values(h, v, w, a, b, c, d, low)
<1>1. /\ h.profile \in 0..3 /\ h.sfi \in 0..15 /\ h.channels \in 0..7
      /\ h.flen \in 0..8191
  BY DEF Headers
<1>a. PICK a \in 0..3 : h.profile = a
  BY <1>1
<1>b. PICK b \in 0..15 : h.sfi = b
  BY <1>1
<1>c. PICK c \in 0..7 : h.channels = c
  BY <1>1
<1>n. PICK n \in 0..8191 : h.flen = n
  BY <1>1
<1>2. h.profile = a /\ h.sfi = b /\ h.channels = c /\ h.flen = n
  BY <1>a, <1>b, <1>c, <1>n
<1> DEFINE d == n \div 2048
           low == n % 2048
<1>3. d \in 0..3 /\ low \in 0..2047 /\ n = 2048 * d + low
  <2>1. low \in 0..2047
    OBVIOUS
  <2>2. d \in Int /\ n = 2048 * d + low
    OBVIOUS
  <2>3. d \in 0..3
    <3> HIDE DEF d, low
    <3> QED  BY <2>1, <2>2
  <2> QED  BY <2>1, <2>2, <2>3
<1>4. Sfiv(h) = a * 16384 + b * 1024 + c * 64 + d
  BY <1>2 DEF Sfiv
<1>5. Abfv(h) = low * 8192 + 8188
  BY <1>2 DEF Abfv
<1> HIDE DEF d, low
<1>6. PICK v \in Int : v = a * 16384 + b * 1024 + c * 64 + d
  BY <1>3
<1>7. PICK w \in Int : w = low * 8192 + 8188
  BY <1>3
<1>8. First(v, a, b, c, d) /\ Last(w, low)
  BY <1>6, <1>7 DEF First, Last
<1>9. Values(h, v, w, a, b, c, d, low)
  BY <1>2, <1>3, <1>4, <1>5, <1>6, <1>7 DEF Values
<1> QED
  <2>1. /\ a \in Bits2 /\ b \in Bits4 /\ c \in Bits3 /\ d \in Bits2
        /\ low \in Bits11
    BY <1>3 DEF Bits2, Bits3, Bits4, Bits11
  <2> QED
    BY <1>8, <1>9, <2>1

(* What the demux and snx_aac_adts_frame_size read is what the fields are. *)
LEMMA HeaderNumbers ==
  ASSUME NEW h \in Headers
  PROVE  /\ Profile(h) = h.profile
         /\ SamplingFrequencyIndex(h) = h.sfi
         /\ ChannelConfiguration(h) = h.channels
         /\ FrameLength(h) = h.flen
         /\ ((Sfiv(h) % 256) % 4) * 2048 + (Abfv(h) \div 65536) * 8
              + (((Abfv(h) \div 256) % 256) \div 32) = h.flen
<1>1. PICK a \in Bits2, b \in Bits4, c \in Bits3, d \in Bits2, low \in Bits11,
          v \in Int, w \in Int :
        First(v, a, b, c, d) /\ Last(w, low) /\ Values(h, v, w, a, b, c, d, low)
  BY HeaderValues
<1>2. FirstRead(v, a, b, c, d)
  BY <1>1, FirstBits
<1>3. LastRead(w, low)
  BY <1>1, LastBits
<1>4. Sfiv(h) = v /\ Abfv(h) = w
  BY <1>1 DEF Values
<1>5. Profile(h) = h.profile
  BY <1>1, <1>2, <1>4 DEF Profile, Values, FirstRead
<1>6. SamplingFrequencyIndex(h) = h.sfi
  BY <1>1, <1>2, <1>4 DEF SamplingFrequencyIndex, Values, FirstRead
<1>7. ChannelConfiguration(h) = h.channels
  BY <1>1, <1>2, <1>4 DEF ChannelConfiguration, Values, FirstRead
<1>8. FrameLength(h) = h.flen
  <2> USE DEF Bits2, Bits11
  <2>1. (v % 4) * 2048 + ((w \div 8192) % 2048) = 2048 * d + low
    BY <1>2, <1>3 DEF FirstRead, LastRead
  <2> QED
    BY <1>1, <1>4, <2>1 DEF FrameLength, Values
<1>9. ((Sfiv(h) % 256) % 4) * 2048 + (Abfv(h) \div 65536) * 8
         + (((Abfv(h) \div 256) % 256) \div 32) = h.flen
  <2> USE DEF Bits2, Bits11
  <2>1. d * 2048 + (low \div 8) * 8 + (low % 8) = 2048 * d + low
    OBVIOUS
  <2>2. ((v % 256) % 4) * 2048 + (w \div 65536) * 8 + (((w \div 256) % 256) \div 32)
          = d * 2048 + (low \div 8) * 8 + (low % 8)
    BY <1>2, <1>3 DEF FirstRead, LastRead
  <2> QED
    BY <1>1, <1>4, <2>1, <2>2 DEF Values
<1> QED
  BY <1>5, <1>6, <1>7, <1>8, <1>9

LEMMA LengthIsNat ==
  ASSUME NEW h \in Headers
  PROVE  h.flen \in Nat
<1>1. h.flen \in 0..8191
  BY DEF Headers
<1>2. PICK n \in 0..8191 : h.flen = n
  BY <1>1
<1>3. n \in Nat
  OBVIOUS
<1> QED
  BY <1>2, <1>3

LEMMA FrameSizeIsLength ==
  ASSUME NEW b, NEW i \in DOMAIN b.at, NEW h \in Headers, b.at[i] = h,
         b.nb \in Nat, i \in Nat, b.nb - i > 7
  PROVE  AdtsFrameSize(b, i) = h.flen
<1>1. StartsWithAdts(b, i) /\ ~(b.nb - i <= 7)
  BY DEF StartsWithAdts
<1>2. AdtsFrameSize(b, i) =
        ((Sfiv(h) % 256) % 4) * 2048 + (Abfv(h) \div 65536) * 8
          + (((Abfv(h) \div 256) % 256) \div 32)
  BY <1>1 DEF AdtsFrameSize
<1> QED
  BY <1>2, HeaderNumbers

-----------------------------------------------------------------------------
(* A piece of buffer b that was taken at a place.                          *)
Piece(b, c, place) ==
  /\ c.at = place /\ c.at \in DOMAIN b.at
  /\ c.from = c.at + IF b.at[c.at].crc THEN 9 ELSE 7
  /\ c.from <= c.to /\ c.to <= b.nb
  /\ b.nb - c.at > 7 => AdtsFrameSize(b, c.at) = c.to - c.at

Behind(q) == IF q = << >> THEN 0 ELSE q[Len(q)].to

(* The call goes on where the last piece ends.                             *)
Taking ==
  /\ pc = "direct" => call.sound.format # SrsAudioCodecIdAAC
  /\ pc \in {"demux", "header", "frame"} => call # NoCall /\ call.buffer.nb > 0
  /\ pc = "demux" => p = Behind(out)
  /\ pc \in {"header", "frame"} => Piece(call.buffer, codec, Behind(out)) /\ p = codec.to

Has(what) == \E n \in DOMAIN wire : wire[n].what = what

(* The context knows what is on the wire, but for the header it writes.    *)
Announced ==
  ~lost =>
    /\ pc = "header" => aac_specific_config # << >> /\ ~Has("header")
    /\ pc = "frame" => aac_specific_config # << >>
    /\ aac_specific_config = << >> => ~Has("header")
    /\ aac_specific_config # << >> /\ pc # "header" => Has("header")
    /\ ~Has("header") => ~Has("frame")

IInv == TypeOK /\ Taking /\ Announced /\ HeaderFirst /\ SentTiles

(* What a call may be given.                                               *)
Given(b) ==
  /\ b.nb \in Nat
  /\ \A i \in DOMAIN b.at : i \in Nat /\ i < b.nb /\ b.at[i] \in Headers

LEMMA CallGiven ==
  ASSUME TypeOK
  PROVE  /\ Given(call.buffer) /\ call.buffer \in {NoCall.buffer} \cup Buffers
         /\ call # NoCall => call.sound \in Sounds
<1>1. CASE call = NoCall
  BY <1>1 DEF NoCall, Given
<1>2. CASE call \in [sound : Sounds, buffer : Buffers]
  <2>1. call.buffer \in Buffers /\ call.sound \in Sounds
    BY <1>2
  <2>2. Given(call.buffer)
    BY <2>1, AacAssumption DEF Given
  <2> QED
    BY <2>1, <2>2
<1> QED
  BY <1>1, <1>2 DEF TypeOK

LEMMA ConfigIsBytes ==
  ASSUME NEW c \in Codecs, NEW rate
  PROVE  SequenceHeader(c, rate) \in Configs /\ SequenceHeader(c, rate) # << >>
<1>1. c.object \in 0..3 /\ c.sfi \in 0..15 /\ c.channels \in 0..7
  BY DEF Codecs
<1>2. PICK index \in 0..15 : index = ConfigIndex(c.sfi, rate)
  BY <1>1 DEF ConfigIndex
<1>3. PICK object \in 0..3 : c.object = object
  BY <1>1
<1>4. PICK channels \in 0..7 : c.channels = channels
  BY <1>1
<1>5. object * 8 + (index \div 2) \in Bytes
  BY DEF Bytes
<1>6. SecondByte(index, channels) \in Bytes
  BY DEF Bytes, SecondByte
<1>7. SequenceHeader(c, rate) = << object * 8 + (index \div 2), SecondByte(index, channels) >>
  BY <1>2, <1>3, <1>4 DEF SequenceHeader
<1> QED
  BY <1>5, <1>6, <1>7 DEF Configs

LEMMA TagIsByte ==
  ASSUME NEW s, s.format \in Nat, s.rate \in Nat, s.size \in Nat, s.type \in Nat
  PROVE  Tag(s) \in Bytes
<1>1. PICK f \in Nat : f = s.format
  OBVIOUS
<1>2. PICK r \in Nat : r = s.rate
  OBVIOUS
<1>3. PICK z \in Nat : z = s.size
  OBVIOUS
<1>4. PICK t \in Nat : t = s.type
  OBVIOUS
<1>5. f % 16 \in 0..15 /\ r % 4 \in 0..3 /\ z % 2 \in 0..1 /\ t % 2 \in 0..1
  OBVIOUS
<1>6. (f % 16) * 16 + (r % 4) * 4 + (z % 2) * 2 + (t % 2) \in 0..255
  BY <1>5
<1> QED
  BY <1>1, <1>2, <1>3, <1>4, <1>6 DEF Tag, Bytes

(* What goes on the wire has its type.                                     *)
LEMMA MessageOK ==
  ASSUME TypeOK, NEW what \in {"header", "frame", "raw"}, NEW config \in Configs
  PROVE  Message(what, config) \in AudioMessages
<1>1. /\ call.sound.format \in Nat /\ call.sound.rate \in Nat
      /\ call.sound.size \in Nat /\ call.sound.type \in Nat
  <2>1. CASE call = NoCall
    BY <2>1 DEF NoCall
  <2>2. CASE call # NoCall
    <3>1. call.sound \in Sounds
      BY <2>2, CallGiven
    <3> QED
      BY <3>1, AacAssumption
  <2> QED
    BY <2>1, <2>2
<1>2. Tag(call.sound) \in Bytes
  BY <1>1, TagIsByte
<1>3. codec.at \in Nat /\ codec.from \in Nat /\ codec.to \in Nat
  BY DEF TypeOK, Codecs
<1>4. call.buffer \in {NoCall.buffer} \cup Buffers
  BY CallGiven
<1> QED
  BY <1>2, <1>3, <1>4 DEF Message, AudioMessages

(* The frame that is taken lies where the last one ends.                   *)
LEMMA DemuxTakes ==
  ASSUME TypeOK, Demux
  PROVE  /\ codec' \in Codecs
         /\ p' = codec'.to /\ p' \in 0 .. call.buffer.nb
         /\ Piece(call.buffer, codec', p)
<1>1. PICK b : b = call.buffer
  OBVIOUS
<1>2. /\ p \in DOMAIN b.at /\ b.nb - p >= 7
      /\ PayloadSize >= 0 /\ PayloadSize <= Left - HeaderSize(Header)
  BY <1>1 DEF Demux, Readable, StartsWithAdts, Left
<1>3. p \in Nat /\ b.nb \in Nat /\ b.at[p] \in Headers
  BY <1>1, <1>2, CallGiven DEF Given
<1>4. PICK h \in Headers : h = b.at[p]
  BY <1>3
<1>5. Header = h
  BY <1>1, <1>4 DEF Header
<1>6. PICK n \in Nat : n = h.flen
  BY LengthIsNat
<1>7. FrameLength(h) = n
  BY <1>6, HeaderNumbers
<1>8. PICK size \in Nat : size = HeaderSize(h) /\ size = IF h.crc THEN 9 ELSE 7
  BY DEF HeaderSize
<1>9. n - size >= 0 /\ n - size <= b.nb - p - size
  BY <1>1, <1>2, <1>5, <1>7, <1>8 DEF PayloadSize, Left
<1>10. /\ h.profile \in 0..3 /\ h.sfi \in 0..15 /\ h.channels \in 0..7
  BY DEF Headers
<1>11. Ts2Rtmp(Profile(h)) \in 0..3
  <2>1. PICK profile \in 0..3 : profile = Profile(h)
    BY <1>10, HeaderNumbers
  <2> QED
    BY <2>1 DEF Ts2Rtmp
<1>12. codec' = [object |-> Ts2Rtmp(Profile(h)), sfi |-> SamplingFrequencyIndex(h),
                 channels |-> ChannelConfiguration(h), at |-> p,
                 from |-> p + size, to |-> p + n]
  BY <1>5, <1>7, <1>8 DEF Demux
<1>13. p' = p + n
  BY <1>5, <1>7 DEF Demux
<1>14. SamplingFrequencyIndex(h) \in 0..15 /\ ChannelConfiguration(h) \in 0..7
  BY <1>10, HeaderNumbers
<1>15. codec' \in Codecs
  BY <1>3, <1>11, <1>12, <1>14 DEF Codecs
<1>16. p' \in 0 .. b.nb
  BY <1>3, <1>9, <1>13
<1>17. codec'.at = p /\ codec'.from = p + size /\ codec'.to = p + n
  BY <1>12
<1>18. b.nb - p > 7 => AdtsFrameSize(b, p) = n
  BY <1>2, <1>3, <1>4, <1>6, FrameSizeIsLength
<1>19. Piece(b, codec', p)
  <2>1. codec'.from = codec'.at + IF b.at[codec'.at].crc THEN 9 ELSE 7
    BY <1>4, <1>8, <1>17
  <2>2. codec'.from <= codec'.to /\ codec'.to <= b.nb
    BY <1>3, <1>9, <1>17
  <2>3. b.nb - codec'.at > 7 => AdtsFrameSize(b, codec'.at) = codec'.to - codec'.at
    BY <1>3, <1>17, <1>18
  <2> QED
    BY <1>2, <1>17, <2>1, <2>2, <2>3 DEF Piece
<1> QED
  BY <1>1, <1>13, <1>15, <1>16, <1>17, <1>19

-----------------------------------------------------------------------------
(* The state in which a context begins.                                    *)
LEMMA Beginning ==
  /\ NoCodec \in Codecs /\ << >> \in Configs /\ 0 \in 0 .. NoCall.buffer.nb
  /\ << >> \in Seq(Codecs) /\ << >> \in Seq(AudioMessages)
<1>1. NoCodec \in Codecs
  BY DEF NoCodec, Codecs
<1>2. NoCall.buffer.nb = 0
  BY DEF NoCall
<1> QED
  BY <1>1, <1>2 DEF Configs

LEMMA InitIInv == Init => IInv
<1> SUFFICES ASSUME Init PROVE IInv
  OBVIOUS
<1>1. /\ aac_specific_config = << >> /\ pc = "idle" /\ call = NoCall /\ p = 0
      /\ codec = NoCodec /\ ret = "none" /\ out = << >> /\ wire = << >>
      /\ lost = FALSE /\ calls = 0
  BY DEF Init
<1>2. 0 \in 0 .. MaxCalls
  BY AacAssumption
<1>3. TypeOK
  BY <1>1, <1>2, Beginning DEF TypeOK
<1>4. Taking /\ Announced /\ HeaderFirst
  BY <1>1 DEF Taking, Announced, HeaderFirst, Has
<1>5. SentTiles
  BY <1>1 DEF SentTiles
<1> QED
  BY <1>3, <1>4, <1>5 DEF IInv

LEMMA NewContextIInv ==
  ASSUME IInv, NewContext
  PROVE  IInv'
<1>1. /\ aac_specific_config' = << >> /\ pc' = "idle" /\ call' = NoCall /\ p' = 0
      /\ codec' = NoCodec /\ ret' = "none" /\ out' = << >> /\ wire' = << >>
      /\ lost' = FALSE /\ calls' = calls
  BY DEF NewContext
<1>3. TypeOK'
  BY <1>1, Beginning DEF IInv, TypeOK
<1>4. Taking' /\ Announced' /\ HeaderFirst'
  BY <1>1 DEF Taking, Announced, HeaderFirst, Has
<1>5. SentTiles'
  BY <1>1 DEF SentTiles
<1> QED
  BY <1>3, <1>4, <1>5 DEF IInv

(* A call begins with nothing taken, whatever the one before it left.      *)
LEMMA CallIInv ==
  ASSUME IInv, NEW s \in Sounds, NEW b \in Buffers,
         CallDirect(s, b) \/ CallRefused(s, b) \/ CallAdts(s, b)
  PROVE  IInv'
<1>1. /\ call' = [sound |-> s, buffer |-> b] /\ out' = << >> /\ p' = 0 /\ codec' = NoCodec
      /\ pc = "idle" /\ calls < MaxCalls /\ calls' = calls + 1
      /\ UNCHANGED <<aac_specific_config, wire, lost>>
  BY DEF CallDirect, CallRefused, CallAdts, Call
<1>2. /\ pc' = "direct" => s.format # SrsAudioCodecIdAAC
      /\ pc' = "idle" /\ ret' = "ok" => s.format # SrsAudioCodecIdAAC
      /\ pc' = "demux" => b.nb > 0
      /\ pc' \in {"direct", "idle", "demux"}
      /\ ret' \in {"none", "ok", "error"}
  <2>1. CASE CallDirect(s, b)
    BY <2>1 DEF CallDirect, Call, IInv, TypeOK
  <2>2. CASE CallRefused(s, b)
    BY <2>2 DEF CallRefused, Call, IInv, TypeOK
  <2>3. CASE CallAdts(s, b)
    BY <2>3 DEF CallAdts, Call, IInv, TypeOK
  <2> QED
    BY <2>1, <2>2, <2>3
<1>3. call'.buffer = b /\ call'.sound = s /\ b.nb \in Nat
  BY <1>1, AacAssumption
<1>4. NoCodec \in Codecs
  BY DEF NoCodec, Codecs
<1>5. TypeOK'
  <2>1. p' \in 0 .. call'.buffer.nb
    BY <1>1, <1>3
  <2>2. calls' \in 0 .. MaxCalls
    BY <1>1, AacAssumption DEF IInv, TypeOK
  <2>3. call' \in {NoCall} \cup [sound : Sounds, buffer : Buffers]
    BY <1>1
  <2> QED
    BY <1>1, <1>2, <1>4, <2>1, <2>2, <2>3 DEF IInv, TypeOK
<1>6. Taking'
  <2>1. pc' = "demux" => call' # NoCall
    <3>1. NoCall.buffer.nb = 0
      BY DEF NoCall
    <3> QED
      BY <1>2, <1>3, <3>1
  <2> QED
    BY <1>1, <1>2, <1>3, <2>1 DEF Taking, Behind
<1>7. Announced' /\ HeaderFirst'
  BY <1>1, <1>2 DEF IInv, Announced, HeaderFirst, Has
<1>8. SentTiles'
  BY <1>1, <1>2, <1>3 DEF SentTiles
<1> QED
  BY <1>5, <1>6, <1>7, <1>8 DEF IInv

(* A call that ends without having sent more.                              *)
LEMMA QuietIInv ==
  ASSUME IInv, DemuxFails \/ DemuxAborts \/ Finish
  PROVE  IInv'
<1>1. /\ UNCHANGED <<aac_specific_config, call, stream, out, wire, lost, calls>>
      /\ pc = "demux" /\ pc' \in {"idle", "aborted"} /\ ret' \in {"none", "ok", "error"}
  BY DEF DemuxFails, DemuxAborts, Finish, Returns, Demuxing, IInv, TypeOK
<1>2. p' = p /\ codec' = codec
  BY <1>1 DEF stream
<1>3. pc' = "idle" /\ ret' = "ok" => out # << >> /\ out[Len(out)].to = call.buffer.nb
  <2>1. CASE DemuxFails \/ DemuxAborts
    BY <2>1 DEF DemuxFails, DemuxAborts, Returns
  <2>2. CASE Finish
    <3>1. p >= call.buffer.nb /\ p = Behind(out) /\ call.buffer.nb > 0
      BY <1>1, <2>2 DEF Finish, IInv, Taking
    <3>2. p \in Nat /\ call.buffer.nb \in Nat /\ p <= call.buffer.nb
      BY CallGiven DEF IInv, TypeOK, Given
    <3> QED
      BY <3>1, <3>2 DEF Behind
  <2> QED
    BY <2>1, <2>2
<1>4. TypeOK'
  BY <1>1, <1>2 DEF IInv, TypeOK
<1>5. Taking'
  BY <1>1 DEF Taking
<1>6. Announced' /\ HeaderFirst'
  BY <1>1 DEF IInv, Announced, HeaderFirst, Has
<1>7. SentTiles'
  BY <1>1, <1>3 DEF IInv, SentTiles
<1> QED
  BY <1>4, <1>5, <1>6, <1>7 DEF IInv

(* Taking a frame, with a header due or not, or refused.                   *)
LEMMA DemuxIInv ==
  ASSUME IInv, DemuxNext \/ DemuxFirst \/ DemuxRefused
  PROVE  IInv'
<1>1. /\ Demux /\ pc = "demux" /\ UNCHANGED <<call, out, wire, lost, calls>>
      /\ pc' \in {"frame", "header", "idle"}
  BY DEF DemuxNext, DemuxFirst, DemuxRefused, Demux, Demuxing, Returns
<1>2. /\ codec' \in Codecs /\ p' = codec'.to /\ p' \in 0 .. call.buffer.nb
      /\ Piece(call.buffer, codec', p)
  BY <1>1, DemuxTakes DEF IInv
<1>3. /\ pc' = "frame" =>
           aac_specific_config # << >> /\ aac_specific_config' = aac_specific_config
      /\ pc' = "header" =>
           aac_specific_config = << >> /\ aac_specific_config' # << >>
      /\ pc' = "idle" => aac_specific_config' = aac_specific_config /\ ret' = "error"
      /\ aac_specific_config' \in Configs
      /\ ret' \in {"none", "ok", "error"}
  <2>1. CASE DemuxNext
    BY <2>1 DEF DemuxNext, IInv, TypeOK
  <2>2. CASE DemuxFirst
    BY <1>2, <2>2, ConfigIsBytes DEF DemuxFirst, Keeps, IInv, TypeOK
  <2>3. CASE DemuxRefused
    BY <2>3 DEF DemuxRefused, Returns, IInv, TypeOK
  <2> QED
    BY <2>1, <2>2, <2>3
<1>4. TypeOK'
  BY <1>1, <1>2, <1>3 DEF IInv, TypeOK
<1>5. Taking'
  <2>1. p = Behind(out) /\ call # NoCall /\ call.buffer.nb > 0
    BY <1>1 DEF IInv, Taking
  <2>2. Piece(call'.buffer, codec', Behind(out'))
    BY <1>1, <1>2, <2>1
  <2> QED
    BY <1>1, <1>2, <2>1, <2>2 DEF Taking
<1>6. Announced' /\ HeaderFirst'
  BY <1>1, <1>3 DEF IInv, Announced, HeaderFirst, Has
<1>7. SentTiles'
  BY <1>1, <1>3 DEF IInv, SentTiles
<1> QED
  BY <1>4, <1>5, <1>6, <1>7 DEF IInv

LEMMA SentLast ==
  ASSUME TypeOK, NEW m \in AudioMessages, wire' = Append(wire, m)
  PROVE  /\ wire' \in Seq(AudioMessages)
         /\ DOMAIN wire' = 1 .. Len(wire) + 1 /\ DOMAIN wire = 1 .. Len(wire)
         /\ Len(wire) \in Nat
         /\ \A n \in 1 .. Len(wire) : wire'[n] = wire[n]
         /\ wire'[Len(wire) + 1] = m
  BY DEF TypeOK

LEMMA WriteHeaderIInv ==
  ASSUME IInv, WriteHeader
  PROVE  IInv'
<1>1. /\ pc = "header" /\ pc' = "frame"
      /\ UNCHANGED <<aac_specific_config, call, p, codec, ret, out, lost, calls>>
  BY DEF WriteHeader, stream
<1>2. PICK m \in AudioMessages : m.what = "header" /\ wire' = Append(wire, m)
  <2>1. SequenceHeader(codec, call.sound.rate) \in Configs
    BY ConfigIsBytes DEF IInv, TypeOK
  <2>2. Message("header", SequenceHeader(codec, call.sound.rate)) \in AudioMessages
    BY <2>1, MessageOK DEF IInv
  <2>3. Message("header", SequenceHeader(codec, call.sound.rate)).what = "header"
    BY DEF Message
  <2> QED
    BY <2>2, <2>3 DEF WriteHeader
<1>3. /\ wire' \in Seq(AudioMessages)
      /\ DOMAIN wire' = 1 .. Len(wire) + 1 /\ DOMAIN wire = 1 .. Len(wire)
      /\ Len(wire) \in Nat
      /\ \A n \in 1 .. Len(wire) : wire'[n] = wire[n]
      /\ wire'[Len(wire) + 1] = m
  BY <1>2, SentLast DEF IInv
<1>4. TypeOK'
  BY <1>1, <1>3 DEF IInv, TypeOK
<1>5. Taking'
  BY <1>1 DEF IInv, Taking
<1>6. ~lost => ~Has("header") /\ ~Has("frame") /\ aac_specific_config # << >>
  BY <1>1 DEF IInv, Announced
<1>7. Announced' /\ HeaderFirst'
  BY <1>1, <1>2, <1>3, <1>6 DEF Announced, HeaderFirst, Has
<1>8. SentTiles'
  BY <1>1 DEF IInv, SentTiles
<1> QED
  BY <1>4, <1>5, <1>7, <1>8 DEF IInv

LEMMA WriteFrameIInv ==
  ASSUME IInv, WriteFrame
  PROVE  IInv'
<1>1. /\ pc = "frame" /\ pc' = "demux" /\ out' = Append(out, codec)
      /\ UNCHANGED <<aac_specific_config, call, p, codec, ret, lost, calls>>
  BY DEF WriteFrame, stream
<1>2. PICK m \in AudioMessages : m.what = "frame" /\ wire' = Append(wire, m)
  <2>1. Message("frame", << >>) \in AudioMessages
    BY MessageOK DEF IInv, Configs
  <2>2. Message("frame", << >>).what = "frame"
    BY DEF Message
  <2> QED
    BY <2>1, <2>2 DEF WriteFrame
<1>3. /\ wire' \in Seq(AudioMessages)
      /\ DOMAIN wire' = 1 .. Len(wire) + 1 /\ DOMAIN wire = 1 .. Len(wire)
      /\ Len(wire) \in Nat
      /\ \A n \in 1 .. Len(wire) : wire'[n] = wire[n]
      /\ wire'[Len(wire) + 1] = m
  BY <1>2, SentLast DEF IInv
<1>4. /\ out' \in Seq(Codecs) /\ out' # << >>
      /\ Len(out) \in Nat /\ Len(out') = Len(out) + 1
      /\ DOMAIN out' = 1 .. Len(out) + 1 /\ DOMAIN out = 1 .. Len(out)
      /\ \A n \in 1 .. Len(out) : out'[n] = out[n]
      /\ out'[Len(out) + 1] = codec
  BY <1>1 DEF IInv, TypeOK
<1>5. TypeOK'
  BY <1>1, <1>3, <1>4 DEF IInv, TypeOK
<1>6. Piece(call.buffer, codec, Behind(out)) /\ p = codec.to
  BY <1>1 DEF IInv, Taking
<1>7. Taking'
  BY <1>1, <1>4, <1>6 DEF IInv, Taking, Behind
<1>8. Announced' /\ HeaderFirst'
  <2>1. ~lost => Has("header") /\ aac_specific_config # << >>
    BY <1>1 DEF IInv, Announced
  <2>2. ~lost => \E n \in 1 .. Len(wire) : wire[n].what = "header"
    BY <1>3, <2>1 DEF Has
  <2>3. Announced'
    BY <1>1, <1>3, <2>1, <2>2 DEF Announced, Has
  <2>4. HeaderFirst'
    <3> SUFFICES ASSUME ~lost PROVE HeaderFirst'
      BY <1>1 DEF HeaderFirst
    <3>1. PICK m0 \in 1 .. Len(wire) : wire[m0].what = "header"
      BY <2>2
    <3>2. \A n \in DOMAIN wire' : wire'[n].what = "frame" =>
            \E k \in 1 .. n - 1 : wire'[k].what = "header"
      BY <1>3, <3>1 DEF IInv, HeaderFirst
    <3>3. \A k, n \in DOMAIN wire' :
            wire'[k].what = "header" /\ wire'[n].what = "header" => k = n
      BY <1>2, <1>3 DEF IInv, HeaderFirst
    <3> QED
      BY <3>2, <3>3 DEF HeaderFirst
  <2> QED
    BY <2>3, <2>4
<1>9. SentTiles'
  <2>1. ASSUME NEW i \in DOMAIN out'
        PROVE  Piece(call.buffer, out'[i], IF i = 1 THEN 0 ELSE out'[i - 1].to)
    <3>1. CASE i \in 1 .. Len(out)
      <4>1. out'[i] = out[i] /\ (i # 1 => out'[i - 1] = out[i - 1])
        BY <1>4, <3>1
      <4>2. Piece(call.buffer, out[i], IF i = 1 THEN 0 ELSE out[i - 1].to)
        BY <1>4, <3>1 DEF IInv, SentTiles, Piece
      <4> QED
        BY <4>1, <4>2
    <3>2. CASE i = Len(out) + 1
      <4>1. Behind(out) = IF i = 1 THEN 0 ELSE out'[i - 1].to
        BY <1>4, <3>2 DEF Behind
      <4> QED
        BY <1>4, <1>6, <3>2, <4>1
    <3> QED
      BY <1>4, <3>1, <3>2
  <2> QED
    BY <1>1, <2>1 DEF SentTiles, Piece
<1> QED
  BY <1>5, <1>7, <1>8, <1>9 DEF IInv

LEMMA WriteDirectIInv ==
  ASSUME IInv, WriteDirect
  PROVE  IInv'
<1>1. /\ pc = "direct" /\ pc' = "idle" /\ ret' = "ok"
      /\ UNCHANGED <<aac_specific_config, call, p, codec, out, lost, calls>>
  BY DEF WriteDirect, Returns, stream
<1>2. PICK m \in AudioMessages : m.what = "raw" /\ wire' = Append(wire, m)
  <2>1. Message("raw", << >>) \in AudioMessages
    BY MessageOK DEF IInv, Configs
  <2>2. Message("raw", << >>).what = "raw"
    BY DEF Message
  <2> QED
    BY <2>1, <2>2 DEF WriteDirect
<1>3. /\ wire' \in Seq(AudioMessages)
      /\ DOMAIN wire' = 1 .. Len(wire) + 1 /\ DOMAIN wire = 1 .. Len(wire)
      /\ Len(wire) \in Nat
      /\ \A n \in 1 .. Len(wire) : wire'[n] = wire[n]
      /\ wire'[Len(wire) + 1] = m
  BY <1>2, SentLast DEF IInv
<1>4. TypeOK'
  BY <1>1, <1>3 DEF IInv, TypeOK
<1>5. Taking' /\ call.sound.format # SrsAudioCodecIdAAC
  BY <1>1 DEF IInv, Taking
<1>6. Announced' /\ HeaderFirst'
  <2>1. \A what \in {"header", "frame"} : Has(what)' <=> Has(what)
    BY <1>2, <1>3 DEF Has
  <2>2. Announced'
    BY <1>1, <2>1 DEF IInv, Announced
  <2>3. HeaderFirst'
    BY <1>1, <1>2, <1>3 DEF IInv, HeaderFirst
  <2> QED
    BY <2>2, <2>3
<1>7. SentTiles'
  BY <1>1, <1>5 DEF IInv, SentTiles
<1> QED
  BY <1>4, <1>5, <1>6, <1>7 DEF IInv

LEMMA WriteFailsIInv ==
  ASSUME IInv, WriteFails
  PROVE  IInv'
<1>1. /\ pc' = "idle" /\ ret' = "error" /\ lost' = TRUE
      /\ UNCHANGED <<aac_specific_config, call, p, codec, out, wire, calls>>
  BY DEF WriteFails, Returns, stream
<1>2. TypeOK'
  BY <1>1 DEF IInv, TypeOK
<1>3. Taking' /\ Announced' /\ HeaderFirst'
  BY <1>1 DEF Taking, Announced, HeaderFirst
<1>4. SentTiles'
  BY <1>1 DEF IInv, SentTiles
<1> QED
  BY <1>2, <1>3, <1>4 DEF IInv

LEMMA NextIInv ==
  ASSUME IInv, [Next]_vars
  PROVE  IInv'
<1>1. CASE UNCHANGED vars
  BY <1>1 DEF vars, stream, IInv, TypeOK, Taking, Announced, Has, HeaderFirst, SentTiles
<1>2. CASE Next
  BY <1>2, NewContextIInv, CallIInv, QuietIInv, DemuxIInv, WriteHeaderIInv, WriteFrameIInv,
     WriteDirectIInv, WriteFailsIInv
  DEF Next, Step
<1> QED
  BY <1>1, <1>2

(* At every point of a call the frame that was taken lies in its buffer,   *)
(* what was sent tiles the buffer, and a header is out where one is due.   *)
THEOREM Invariance == Spec => []IInv
  BY InitIInv, NextIInv, PTL DEF Spec

(* The types of the state of AAC publishing.                               *)
THEOREM TypeCorrect == Spec => []TypeOK
<1>1. IInv => TypeOK
  BY DEF IInv
<1> QED
  BY <1>1, Invariance, PTL

(* snx_audio_write_raw_frame sends one sequence header per connection, and *)
(* no frame before it.                                                     *)
THEOREM FramesFollowOneHeader == Spec => []HeaderFirst
<1>1. IInv => HeaderFirst
  BY DEF IInv
<1> QED
  BY <1>1, Invariance, PTL

(* The pieces of a buffer of any size lie end to end, agree with what      *)
(* snx_aac_adts_frame_size says of them, and reach the last byte when the  *)
(* call succeeds.                                                          *)
THEOREM PiecesTileTheBuffer == Spec => []SentTiles
<1>1. IInv => SentTiles
  BY DEF IInv
<1> QED
  BY <1>1, Invariance, PTL

-----------------------------------------------------------------------------
(* A buffer of whole frames is sent.                                       *)

InWhole == Whole(call.buffer) /\ call.sound.format = SrsAudioCodecIdAAC

(* The call is at a frame of the buffer or behind the last, and it has a   *)
(* header since the first.                                                 *)
Sending ==
  InWhole =>
    /\ pc \notin {"aborted", "direct"}
    /\ pc \in {"demux", "header", "frame"} =>
         /\ p \in DOMAIN call.buffer.at \cup {call.buffer.nb}
         /\ p > 0 => aac_specific_config # << >>
    /\ pc = "idle" /\ ~lost /\ Supported(call.buffer.at[0], call.sound.rate) => ret = "ok"

LEMMA WholeFits ==
  ASSUME NEW b, Given(b), Whole(b), NEW i \in DOMAIN b.at
  PROVE  /\ i \in Nat /\ b.nb \in Nat /\ b.at[i] \in Headers
         /\ FrameLength(b.at[i]) = b.at[i].flen
         /\ HeaderSize(b.at[i]) \in {7, 9}
         /\ FrameLength(b.at[i]) \in Nat
         /\ FrameLength(b.at[i]) >= HeaderSize(b.at[i])
         /\ i + FrameLength(b.at[i]) \in DOMAIN b.at \cup {b.nb}
         /\ i + FrameLength(b.at[i]) <= b.nb
<1>1. i \in Nat /\ b.nb \in Nat /\ b.at[i] \in Headers
  BY DEF Given
<1>2. PICK h \in Headers : h = b.at[i]
  BY <1>1
<1>3. PICK n \in Nat : n = h.flen /\ n = FrameLength(h)
  BY LengthIsNat, HeaderNumbers
<1>4. HeaderSize(h) = IF h.crc THEN 9 ELSE 7
  BY DEF HeaderSize
<1>5. n >= (IF h.crc THEN 9 ELSE 7) /\ i + n \in DOMAIN b.at \cup {b.nb}
  BY <1>2, <1>3 DEF Whole
<1>6. i + n <= b.nb
  BY <1>1, <1>3, <1>5 DEF Given
<1> QED
  BY <1>1, <1>2, <1>3, <1>4, <1>5, <1>6

(* Where there is a frame, the demux takes it.                             *)
LEMMA WholeIsTaken ==
  ASSUME TypeOK, Whole(call.buffer), p \in DOMAIN call.buffer.at
  PROVE  /\ Readable /\ PayloadSize \in 0 .. Left - HeaderSize(Header)
         /\ ~(PayloadSize > Left - HeaderSize(Header)) /\ ~(PayloadSize < 0)
         /\ p + FrameLength(Header) \in DOMAIN call.buffer.at \cup {call.buffer.nb}
<1>1. PICK b : b = call.buffer /\ Given(b) /\ Whole(b)
  BY CallGiven
<1>2. PICK n \in Nat, size \in {7, 9} :
        /\ n = FrameLength(b.at[p]) /\ size = HeaderSize(b.at[p])
        /\ n >= size /\ p + n <= b.nb /\ p + n \in DOMAIN b.at \cup {b.nb}
        /\ p \in Nat /\ b.nb \in Nat
  BY <1>1, WholeFits
<1>3. Header = b.at[p] /\ Left = b.nb - p /\ PayloadSize = n - size
  BY <1>1, <1>2 DEF Header, Left, PayloadSize
<1>4. b.nb - p >= 7 /\ b.nb - p >= 2 /\ b.nb - p >= size
      /\ n - size \in 0 .. (b.nb - p) - size
  BY <1>2
<1>5. StartsWithAdts(b, p)
  BY <1>1, <1>4 DEF StartsWithAdts
<1>6. Readable
  BY <1>1, <1>2, <1>3, <1>4, <1>5 DEF Readable
<1> QED
  BY <1>1, <1>2, <1>3, <1>4, <1>6

LEMMA WholeIsAdts ==
  ASSUME NEW b \in Buffers, Whole(b)
  PROVE  IsAdts(b) /\ b.nb > 0
<1>1. Given(b) /\ 0 \in DOMAIN b.at
  BY AacAssumption DEF Given, Whole
<1>2. b.nb \in Nat /\ 0 + FrameLength(b.at[0]) <= b.nb /\ FrameLength(b.at[0]) >= 7
      /\ FrameLength(b.at[0]) \in Nat
  BY <1>1, WholeFits
<1>3. b.nb >= 7 /\ b.nb > 0 /\ b.nb - 0 >= 2
  BY <1>2
<1>4. StartsWithAdts(b, 0)
  BY <1>1, <1>3 DEF StartsWithAdts
<1> QED
  BY <1>3, <1>4 DEF IsAdts

(* A header can be made from what was taken of a supported frame.          *)
LEMMA SupportedIsMade ==
  ASSUME TypeOK, Demux, call # NoCall, Supported(Header, call.sound.rate), Header \in Headers
  PROVE  ~HeaderRefused(codec', call.sound.rate)
<1>1. PICK h \in Headers : h = Header
  OBVIOUS
<1>2. codec'.object = Ts2Rtmp(h.profile) /\ codec'.sfi = h.sfi
  <2>1. Profile(h) = h.profile /\ SamplingFrequencyIndex(h) = h.sfi
    BY HeaderNumbers
  <2>2. codec' = [object |-> Ts2Rtmp(Profile(h)), sfi |-> SamplingFrequencyIndex(h),
               channels |-> ChannelConfiguration(h), at |-> p,
               from |-> p + HeaderSize(h), to |-> p + FrameLength(h)]
    BY <1>1 DEF Demux
  <2> QED
    BY <2>1, <2>2
<1>3. PICK profile \in 0..3 : profile = h.profile
  BY DEF Headers
<1>4. profile < 3
  BY <1>1, <1>3 DEF Supported
<1>5. codec'.object # 0
  BY <1>2, <1>3, <1>4 DEF Ts2Rtmp
<1>6. PICK rate \in 0..3 : rate = call.sound.rate
  BY CallGiven, AacAssumption
<1>7. h.sfi \in 0..15 /\ (rate = 0 => h.sfi < 15)
  BY <1>1, <1>6 DEF Headers, Supported
<1>8. ConfigIndex(h.sfi, rate) # 15
  BY <1>7 DEF ConfigIndex
<1> QED
  BY <1>2, <1>5, <1>6, <1>8 DEF HeaderRefused

LEMMA SendingDemux ==
  ASSUME IInv, Sending, DemuxNext \/ DemuxFirst \/ DemuxRefused
  PROVE  Sending'
<1> SUFFICES ASSUME InWhole' PROVE Sending'
  BY DEF Sending
<1>1. /\ Demux /\ pc = "demux" /\ UNCHANGED <<call, lost>> /\ p < call.buffer.nb
  BY DEF DemuxNext, DemuxFirst, DemuxRefused, Demux, Demuxing
<1>2. InWhole /\ call # NoCall
  BY <1>1 DEF InWhole, IInv, Taking
<1>3. Given(call.buffer) /\ p \in Nat /\ call.buffer.nb \in Nat
  BY CallGiven DEF IInv, TypeOK, Given
<1>4. p \in DOMAIN call.buffer.at /\ (p > 0 => aac_specific_config # << >>)
  BY <1>1, <1>2, <1>3 DEF Sending
<1>5. p + FrameLength(Header) \in DOMAIN call.buffer.at \cup {call.buffer.nb}
  BY <1>2, <1>4, WholeIsTaken DEF IInv, InWhole
<1>6. p' = p + FrameLength(Header)
  BY <1>1 DEF Demux
<1>7. CASE DemuxNext \/ DemuxFirst
  <2>1. pc' \in {"frame", "header"} /\ aac_specific_config' # << >>
    <3>1. codec' \in Codecs
      BY <1>1, DemuxTakes DEF IInv
    <3> QED
      BY <1>7, <3>1, ConfigIsBytes DEF DemuxNext, DemuxFirst, Keeps
  <2> QED
    BY <1>1, <1>5, <1>6, <2>1 DEF Sending
<1>8. CASE DemuxRefused
  <2>1. /\ pc' = "idle" /\ aac_specific_config = << >>
        /\ HeaderRefused(codec', call.sound.rate)
    BY <1>8 DEF DemuxRefused, Returns
  <2>2. p = 0 /\ Header = call.buffer.at[0]
    BY <1>3, <1>4, <2>1 DEF Header
  <2>3. Header \in Headers
    BY <1>3, <1>4, <2>2 DEF Given
  <2>4. ~Supported(call.buffer.at[0], call.sound.rate)
    BY <1>1, <1>2, <2>1, <2>2, <2>3, SupportedIsMade DEF IInv
  <2> QED
    BY <1>1, <2>1, <2>4 DEF Sending
<1> QED
  BY <1>7, <1>8

LEMMA SendingKept == IInv /\ Sending /\ [Next]_vars => Sending'
<1> SUFFICES ASSUME IInv, Sending, [Next]_vars PROVE Sending'
  OBVIOUS
<1>1. CASE UNCHANGED vars
  BY <1>1 DEF Sending, InWhole, vars, stream
<1>2. CASE NewContext
  <2>1. call'.sound.format = 0
    BY <1>2 DEF NewContext, NoCall
  <2> QED
    BY <2>1 DEF Sending, InWhole, SrsAudioCodecIdAAC
<1>3. ASSUME NEW s \in Sounds, NEW b \in Buffers, CallDirect(s, b) \/ CallRefused(s, b) \/ CallAdts(s, b)
      PROVE  Sending'
  <2>1. call'.sound = s /\ call'.buffer = b /\ p' = 0
    BY <1>3 DEF CallDirect, CallRefused, CallAdts, Call
  <2>2. CASE CallDirect(s, b)
    BY <2>1, <2>2 DEF CallDirect, Sending, InWhole
  <2>3. CASE CallRefused(s, b)
    <3>1. ~Whole(b)
      BY <2>3, WholeIsAdts, AacAssumption DEF CallRefused
    <3> QED
      BY <2>1, <3>1 DEF Sending, InWhole
  <2>4. CASE CallAdts(s, b)
    <3>1. pc' = "demux"
      BY <2>4 DEF CallAdts
    <3>2. Whole(b) => 0 \in DOMAIN b.at
      BY DEF Whole
    <3> QED
      BY <2>1, <3>1, <3>2 DEF Sending, InWhole
  <2> QED
    BY <1>3, <2>2, <2>3, <2>4
<1>4. CASE DemuxFails \/ DemuxAborts
  <2>1. pc = "demux" /\ p < call.buffer.nb /\ UNCHANGED call
        /\ (Readable => PayloadSize > Left - HeaderSize(Header) \/ PayloadSize < 0)
    BY <1>4 DEF DemuxFails, DemuxAborts, Demuxing
  <2>2. p \in Nat /\ call.buffer.nb \in Nat
    BY CallGiven DEF IInv, TypeOK, Given
  <2>3. ASSUME InWhole PROVE FALSE
    <3>1. p \in DOMAIN call.buffer.at
      BY <2>1, <2>2, <2>3 DEF Sending
    <3> QED
      BY <2>1, <2>3, <3>1, WholeIsTaken DEF IInv, InWhole
  <2> QED
    BY <2>1, <2>3 DEF Sending, InWhole
<1>5. CASE Finish
  BY <1>5 DEF Finish, Returns, Sending, InWhole
<1>6. CASE WriteHeader \/ WriteFrame
  <2>1. /\ pc \in {"header", "frame"} /\ pc' \in {"frame", "demux"}
        /\ UNCHANGED <<call, p, aac_specific_config>>
    BY <1>6 DEF WriteHeader, WriteFrame, stream
  <2> QED
    BY <2>1 DEF Sending, InWhole
<1>7. CASE WriteDirect
  BY <1>7 DEF WriteDirect, Sending, InWhole
<1>8. CASE WriteFails
  BY <1>8 DEF WriteFails, Returns, Sending, InWhole
<1> QED
  BY <1>1, <1>2, <1>3, <1>4, <1>5, <1>6, <1>7, <1>8, SendingDemux DEF Next, Step

(* A buffer of whole frames is never taken for a broken one, for any       *)
(* number and length of frames and whatever the calls before it left.      *)
THEOREM WholeBuffersAreSent == Spec => []WholeIsSent
<1>1. Init => Sending
  BY DEF Init, Sending, InWhole, NoCall, SrsAudioCodecIdAAC
<1>2. Sending => WholeIsSent
  BY DEF Sending, InWhole, WholeIsSent
<1>3. Spec => []Sending
  BY <1>1, SendingKept, Invariance, PTL DEF Spec
<1> QED
  BY <1>2, <1>3, PTL

-----------------------------------------------------------------------------
(* What a sequence header says.                                            *)

Index(m) == (m.config[1] % 8) * 2 + (m.config[2] \div 128)
Rate(m) == (m.tag \div 4) % 4

Describes(m) ==
  /\ m.config[1] \div 8 = m.of.at[m.at].profile + 1
  /\ (m.config[2] \div 8) % 16 = m.of.at[m.at].channels
  /\ IF Rate(m) = 0 THEN Index(m) = m.of.at[m.at].sfi
                    ELSE SamplingRate[Index(m) + 1] = FlvRate[Rate(m)]

Described == \A n \in DOMAIN wire : wire[n].what = "header" => Describes(wire[n])

(* The frame that was taken is what the header will be made of.            *)
Taken ==
  pc \in {"header", "frame"} =>
    /\ codec.at \in DOMAIN call.buffer.at
    /\ codec.object = Ts2Rtmp(call.buffer.at[codec.at].profile)
    /\ codec.sfi = call.buffer.at[codec.at].sfi
    /\ codec.channels = call.buffer.at[codec.at].channels
    /\ pc = "header" => ~HeaderRefused(codec, call.sound.rate)

(* A header at the end of the wire has its frame in hand, and only there.  *)
Followed ==
  ~lost => \A n \in DOMAIN wire : wire[n].what = "header" =>
    IF n = Len(wire) THEN pc = "frame" /\ codec.at = wire[n].at
    ELSE wire[n + 1].what = "frame" /\ wire[n + 1].at = wire[n].at

Telling == Described /\ Taken /\ Followed

LEMMA ConfigRead ==
  ASSUME NEW object \in 1..3, NEW index \in 0..14, NEW channels \in 0..7
  PROVE  LET first == object * 8 + (index \div 2)
             second == SecondByte(index, channels)
         IN /\ first \div 8 = object
            /\ (first % 8) * 2 + (second \div 128) = index
            /\ (second \div 8) % 16 = channels
<1>1. PICK q \in 0..7 : q = index \div 2
  OBVIOUS
<1>2. PICK r \in 0..1 : r = index % 2
  OBVIOUS
<1>3. index = q * 2 + r
  BY <1>1, <1>2
<1>4. PICK first \in Int : first = object * 8 + q
  OBVIOUS
<1>5. first \div 8 = object /\ first % 8 = q
  BY <1>4
<1>6. PICK second \in Int : second = r * 128 + channels * 8
  OBVIOUS
<1>7. second \div 128 = r
  BY <1>6
<1>8. second \div 8 = r * 16 + channels
  BY <1>6
<1>9. (r * 16 + channels) % 16 = channels
  OBVIOUS
<1>10. SecondByte(index, channels) = second /\ object * 8 + (index \div 2) = first
  BY <1>1, <1>2, <1>4, <1>6 DEF SecondByte
<1> QED
  BY <1>3, <1>5, <1>7, <1>8, <1>9, <1>10

(* A player finds the rate that was passed in the first byte.              *)
LEMMA TagHasRate ==
  ASSUME NEW s \in Sounds
  PROVE  (Tag(s) \div 4) % 4 = s.rate
<1>1. /\ s.format \in 0..15 /\ s.rate \in 0..3 /\ s.size \in 0..1 /\ s.type \in 0..1
  BY AacAssumption
<1>2. PICK f \in 0..15, r \in 0..3, z \in 0..1, t \in 0..1 :
        f = s.format /\ r = s.rate /\ z = s.size /\ t = s.type
  BY <1>1
<1>3. f % 16 = f /\ r % 4 = r /\ z % 2 = z /\ t % 2 = t
  OBVIOUS
<1>4. PICK tag \in Int : tag = f * 16 + r * 4 + z * 2 + t
  OBVIOUS
<1>5. tag \div 4 = f * 4 + r
  BY <1>4
<1>6. (f * 4 + r) % 4 = r
  OBVIOUS
<1>7. Tag(s) = tag
  BY <1>2, <1>3, <1>4 DEF Tag
<1> QED
  BY <1>2, <1>5, <1>6, <1>7

LEMMA RateNamed ==
  ASSUME NEW sfi \in 0..15, NEW rate \in 1..3
  PROVE  /\ ConfigIndex(sfi, rate) \in 0..14
         /\ SamplingRate[ConfigIndex(sfi, rate) + 1] = FlvRate[rate]
<1>1. CASE rate = 1
  BY <1>1 DEF ConfigIndex, SamplingRate, FlvRate
<1>2. CASE rate = 2
  BY <1>2 DEF ConfigIndex, SamplingRate, FlvRate
<1>3. CASE rate = 3
  BY <1>3 DEF ConfigIndex, SamplingRate, FlvRate
<1> QED
  BY <1>1, <1>2, <1>3

(* The header that is about to be written tells the frame behind it.       *)
LEMMA HeaderTells ==
  ASSUME IInv, Taken, pc = "header"
  PROVE  Describes(Message("header", SequenceHeader(codec, call.sound.rate)))
<1> DEFINE m == Message("header", SequenceHeader(codec, call.sound.rate))
<1>1. PICK h \in Headers : h = call.buffer.at[codec.at]
  BY CallGiven DEF Taken, Given, IInv
<1>2. /\ m.tag = Tag(call.sound) /\ m.at = codec.at /\ m.of = call.buffer
      /\ m.config = SequenceHeader(codec, call.sound.rate)
  BY DEF Message
<1>3. call.sound \in Sounds
  BY CallGiven DEF IInv, Taking
<1>4. PICK rate \in 0..3 : rate = call.sound.rate
  BY <1>3, AacAssumption
<1>5. Rate(m) = rate
  BY <1>2, <1>3, <1>4, TagHasRate DEF Rate
<1>6. PICK profile \in 0..3, sfi \in 0..15, channels \in 0..7 :
        profile = h.profile /\ sfi = h.sfi /\ channels = h.channels
  <2>1. h.profile \in 0..3 /\ h.sfi \in 0..15 /\ h.channels \in 0..7
    BY DEF Headers
  <2> QED
    BY <2>1
<1>7. codec.object = Ts2Rtmp(profile) /\ codec.sfi = sfi /\ codec.channels = channels
  BY <1>1, <1>6 DEF Taken
<1>8. ~HeaderRefused(codec, rate)
  BY <1>4 DEF Taken
<1>9. PICK object \in 1..3 : object = codec.object /\ object = profile + 1
  BY <1>7, <1>8 DEF HeaderRefused, Ts2Rtmp
<1>10. PICK index \in 0..14 : index = ConfigIndex(sfi, rate)
  BY <1>7, <1>8 DEF HeaderRefused, ConfigIndex
<1>11. m.config = << object * 8 + (index \div 2), SecondByte(index, channels) >>
  BY <1>2, <1>4, <1>7, <1>9, <1>10 DEF SequenceHeader
<1>12. /\ m.config[1] = object * 8 + (index \div 2)
       /\ m.config[2] = SecondByte(index, channels)
  BY <1>11
<1>13. /\ m.config[1] \div 8 = object /\ Index(m) = index
       /\ (m.config[2] \div 8) % 16 = channels
  BY <1>12, ConfigRead DEF Index
<1>14. m.of.at[m.at] = h
  BY <1>1, <1>2
<1>15. CASE rate = 0
  <2>1. index = sfi
    BY <1>10, <1>15 DEF ConfigIndex
  <2> QED
    BY <1>5, <1>6, <1>9, <1>13, <1>14, <1>15, <2>1 DEF Describes
<1>16. CASE rate \in 1..3
  <2>1. SamplingRate[index + 1] = FlvRate[rate]
    BY <1>10, <1>16, RateNamed
  <2> QED
    BY <1>5, <1>6, <1>9, <1>13, <1>14, <1>16, <2>1 DEF Describes
<1> QED
  BY <1>15, <1>16

(* Taking a frame takes its header's fields.                               *)
LEMMA TellingDemux ==
  ASSUME IInv, Telling, DemuxNext \/ DemuxFirst \/ DemuxRefused
  PROVE  Telling'
<1>1. /\ Demux /\ pc = "demux" /\ UNCHANGED <<call, wire, lost>>
  BY DEF DemuxNext, DemuxFirst, DemuxRefused, Demux, Demuxing
<1>2. Piece(call.buffer, codec', p)
  BY <1>1, DemuxTakes DEF IInv
<1>3. codec'.at = p /\ p \in DOMAIN call.buffer.at
  BY <1>2 DEF Piece
<1>4. PICK h \in Headers : h = call.buffer.at[p]
  BY <1>3, CallGiven DEF Given, IInv
<1>5. codec' = [object |-> Ts2Rtmp(Profile(h)), sfi |-> SamplingFrequencyIndex(h),
                channels |-> ChannelConfiguration(h), at |-> p,
                from |-> p + HeaderSize(h), to |-> p + FrameLength(h)]
  BY <1>1, <1>4 DEF Demux, Header
<1>6. /\ codec'.object = Ts2Rtmp(h.profile) /\ codec'.sfi = h.sfi
      /\ codec'.channels = h.channels
  BY <1>5, HeaderNumbers
<1>7. pc' = "header" => ~HeaderRefused(codec', call'.sound.rate)
  BY <1>1 DEF DemuxNext, DemuxFirst, DemuxRefused, Returns
<1>8. Taken'
  BY <1>1, <1>3, <1>4, <1>6, <1>7 DEF Taken
<1>9. Described' /\ Followed'
  BY <1>1 DEF Telling, Described, Describes, Rate, Index, Followed
<1> QED
  BY <1>8, <1>9 DEF Telling

LEMMA NotLast ==
  ASSUME NEW last \in Nat, NEW n \in 1 .. last, n # last
  PROVE  \E k \in 1 .. last : k = n + 1
<1>1. n + 1 \in 1 .. last
  OBVIOUS
<1> QED
  BY <1>1

(* A message is appended to a wire whose headers are all followed.         *)
LEMMA TellingKept == IInv /\ Telling /\ [Next]_vars => Telling'
<1> SUFFICES ASSUME IInv, Telling, [Next]_vars PROVE Telling'
  OBVIOUS
<1> USE DEF Telling
<1>1. CASE UNCHANGED vars
  BY <1>1 DEF Described, Describes, Rate, Index, Taken, Followed, vars, stream
<1>2. CASE NewContext
  BY <1>2 DEF NewContext, Described, Taken, Followed
<1>3. ASSUME NEW s \in Sounds, NEW b \in Buffers,
             CallDirect(s, b) \/ CallRefused(s, b) \/ CallAdts(s, b)
      PROVE  Telling'
  <2>1. /\ pc = "idle" /\ pc' \in {"direct", "idle", "demux"} /\ UNCHANGED <<wire, lost>>
    BY <1>3 DEF CallDirect, CallRefused, CallAdts, Call
  <2> QED
    BY <2>1 DEF Described, Describes, Rate, Index, Taken, Followed
<1>4. CASE DemuxFails \/ DemuxAborts \/ Finish
  <2>1. /\ pc = "demux" /\ pc' \in {"idle", "aborted"} /\ UNCHANGED <<wire, lost>>
    BY <1>4 DEF DemuxFails, DemuxAborts, Finish, Returns, Demuxing
  <2> QED
    BY <2>1 DEF Described, Describes, Rate, Index, Taken, Followed
<1>5. CASE WriteHeader
  <2>1. /\ pc = "header" /\ pc' = "frame" /\ UNCHANGED <<call, codec, lost>>
    BY <1>5 DEF WriteHeader, stream
  <2> DEFINE tells == Message("header", SequenceHeader(codec, call.sound.rate))
  <2>2. PICK m \in AudioMessages :
          m = tells /\ m.what = "header" /\ m.at = codec.at /\ wire' = Append(wire, m)
    <3>1. tells \in AudioMessages
      BY ConfigIsBytes, MessageOK DEF IInv, TypeOK
    <3>2. tells.what = "header" /\ tells.at = codec.at
      BY DEF Message
    <3> QED
      BY <1>5, <3>1, <3>2 DEF WriteHeader
  <2>3. /\ DOMAIN wire' = 1 .. Len(wire) + 1 /\ DOMAIN wire = 1 .. Len(wire)
        /\ Len(wire) \in Nat /\ Len(wire') = Len(wire) + 1
        /\ \A n \in 1 .. Len(wire) : wire'[n] = wire[n]
        /\ wire'[Len(wire) + 1] = m
    BY <2>2, SentLast DEF IInv, TypeOK
  <2>4. Describes(m)
    BY <2>1, <2>2, HeaderTells
  <2>5. Described'
    <3> SUFFICES ASSUME NEW n \in DOMAIN wire', wire'[n].what = "header"
                 PROVE  Describes(wire'[n])
      BY DEF Described, Describes, Rate, Index
    <3> QED
      BY <2>3, <2>4 DEF Described
  <2>6. Taken'
    BY <2>1 DEF Taken
  <2>7. Followed'
    <3> SUFFICES ASSUME ~lost, NEW n \in 1 .. Len(wire) + 1, wire'[n].what = "header"
                 PROVE  n = Len(wire) + 1
      BY <2>1, <2>2, <2>3 DEF Followed
    <3>1. ~Has("header")
      BY <2>1 DEF IInv, Announced
    <3> QED
      BY <2>3, <3>1 DEF Has
  <2> QED
    BY <2>5, <2>6, <2>7
<1>6. CASE WriteFrame
  <2>1. /\ pc = "frame" /\ pc' = "demux" /\ UNCHANGED <<call, codec, lost>>
    BY <1>6 DEF WriteFrame, stream
  <2>2. PICK m \in AudioMessages :
          m.what = "frame" /\ m.at = codec.at /\ wire' = Append(wire, m)
    <3>1. Message("frame", << >>) \in AudioMessages
      BY MessageOK DEF IInv, Configs
    <3>2. Message("frame", << >>).what = "frame" /\ Message("frame", << >>).at = codec.at
      BY DEF Message
    <3> QED
      BY <1>6, <3>1, <3>2 DEF WriteFrame
  <2>3. /\ DOMAIN wire' = 1 .. Len(wire) + 1 /\ DOMAIN wire = 1 .. Len(wire)
        /\ Len(wire) \in Nat /\ Len(wire') = Len(wire) + 1
        /\ \A n \in 1 .. Len(wire) : wire'[n] = wire[n]
        /\ wire'[Len(wire) + 1] = m
    BY <2>2, SentLast DEF IInv, TypeOK
  <2>4. Described'
    <3> SUFFICES ASSUME NEW n \in DOMAIN wire', wire'[n].what = "header"
                 PROVE  Describes(wire'[n])
      BY DEF Described, Describes, Rate, Index
    <3> QED
      BY <2>2, <2>3 DEF Described
  <2>5. Taken'
    BY <2>1 DEF Taken
  <2>6. Followed'
    <3> SUFFICES ASSUME ~lost, NEW n \in 1 .. Len(wire) + 1, wire'[n].what = "header"
                 PROVE  /\ n # Len(wire) + 1
                        /\ wire'[n + 1].what = "frame" /\ wire'[n + 1].at = wire'[n].at
      BY <2>1, <2>3 DEF Followed
    <3>1. n \in 1 .. Len(wire) /\ wire'[n] = wire[n]
      BY <2>2, <2>3
    <3>2. CASE n = Len(wire)
      BY <2>2, <2>3, <3>1, <3>2 DEF Followed
    <3>3. CASE n # Len(wire)
      <4>1. PICK k \in 1 .. Len(wire) : k = n + 1
        BY <2>3, <3>1, <3>3, NotLast
      <4>2. wire'[k] = wire[k]
        BY <2>3
      <4>3. wire[k].what = "frame" /\ wire[k].at = wire[n].at
        BY <2>1, <2>3, <3>1, <3>3, <4>1 DEF Followed
      <4>4. n # Len(wire) + 1
        BY <2>3, <3>1
      <4> QED
        BY <3>1, <4>1, <4>2, <4>3, <4>4
    <3> QED
      BY <2>3, <3>1, <3>2, <3>3
  <2> QED
    BY <2>4, <2>5, <2>6
<1>7. CASE WriteDirect
  <2>1. /\ pc = "direct" /\ pc' = "idle" /\ UNCHANGED <<call, codec, lost>>
    BY <1>7 DEF WriteDirect, Returns, stream
  <2>2. PICK m \in AudioMessages : m.what = "raw" /\ wire' = Append(wire, m)
    <3>1. Message("raw", << >>) \in AudioMessages
      BY MessageOK DEF IInv, Configs
    <3>2. Message("raw", << >>).what = "raw"
      BY DEF Message
    <3> QED
      BY <1>7, <3>1, <3>2 DEF WriteDirect
  <2>3. /\ DOMAIN wire' = 1 .. Len(wire) + 1 /\ DOMAIN wire = 1 .. Len(wire)
        /\ Len(wire) \in Nat /\ Len(wire') = Len(wire) + 1
        /\ \A n \in 1 .. Len(wire) : wire'[n] = wire[n]
        /\ wire'[Len(wire) + 1] = m
    BY <2>2, SentLast DEF IInv, TypeOK
  <2>4. Described'
    <3> SUFFICES ASSUME NEW n \in DOMAIN wire', wire'[n].what = "header"
                 PROVE  Describes(wire'[n])
      BY DEF Described, Describes, Rate, Index
    <3> QED
      BY <2>2, <2>3 DEF Described
  <2>5. Taken'
    BY <2>1 DEF Taken
  <2>6. Followed'
    <3> SUFFICES ASSUME ~lost, NEW n \in 1 .. Len(wire) + 1, wire'[n].what = "header"
                 PROVE  /\ n # Len(wire) + 1
                        /\ wire'[n + 1].what = "frame" /\ wire'[n + 1].at = wire'[n].at
      BY <2>1, <2>3 DEF Followed
    <3>1. n \in 1 .. Len(wire) /\ wire'[n] = wire[n]
      BY <2>2, <2>3
    <3>2. n # Len(wire)
      BY <2>1, <2>3, <3>1 DEF Followed
    <3>3. PICK k \in 1 .. Len(wire) : k = n + 1
      BY <2>3, <3>1, <3>2, NotLast
    <3>4. wire'[k] = wire[k]
      BY <2>3
    <3>5. wire[k].what = "frame" /\ wire[k].at = wire[n].at
      BY <2>1, <2>3, <3>1, <3>2, <3>3 DEF Followed
    <3>6. n # Len(wire) + 1
      BY <2>3, <3>1
    <3> QED
      BY <3>1, <3>3, <3>4, <3>5, <3>6
  <2> QED
    BY <2>4, <2>5, <2>6
<1>8. CASE WriteFails
  <2>1. pc' = "idle" /\ lost' /\ wire' = wire
    BY <1>8 DEF WriteFails, Returns
  <2> QED
    BY <2>1 DEF Described, Describes, Rate, Index, Taken, Followed
<1> QED
  BY <1>1, <1>2, <1>3, <1>4, <1>5, <1>6, <1>7, <1>8, TellingDemux DEF Next, Step

(* The sequence header says what its frame's own header and the tag say,   *)
(* for any header an encoder may write and any sound.                      *)
THEOREM HeadersDescribe == Spec => []HeaderDescribesFrame
<1>1. Init => Telling
  BY DEF Init, Telling, Described, Taken, Followed
<1>2. IInv /\ Telling => HeaderDescribesFrame
  <2> SUFFICES ASSUME IInv, Telling, NEW n \in DOMAIN wire, wire[n].what = "header"
               PROVE  /\ Describes(wire[n])
                      /\ n < Len(wire) /\ ~lost =>
                           wire[n + 1].what = "frame" /\ wire[n + 1].at = wire[n].at
    BY DEF HeaderDescribesFrame, Describes, Rate, Index
  <2>1. n \in Nat /\ Len(wire) \in Nat
    BY DEF IInv, TypeOK
  <2> QED
    BY <2>1 DEF Telling, Described, Followed
<1>3. Spec => []Telling
  BY <1>1, TellingKept, Invariance, PTL DEF Spec
<1> QED
  BY <1>2, <1>3, Invariance, PTL
=============================================================================
