----------------------------- MODULE AacPublish -----------------------------
(***************************************************************************)
(* snx_audio_write_raw_frame (rtmp_aac.c): a buffer of ADTS frames is      *)
(* taken apart, and each frame goes out as an audio message of its own     *)
(* after one AAC sequence header, which is made from the first; a frame of *)
(* any other sound format goes out as it is.                               *)
(*                                                                         *)
(* A buffer is known by its size and by the places where an ADTS header    *)
(* begins, with the fields of each; a header says how long its frame is,   *)
(* whatever follows.  What srs_rtmp_write_packet does on the wire is       *)
(* SendPath's.  One task publishes audio on a context, whose audio fields  *)
(* nothing else uses.                                                      *)
(***************************************************************************)
EXTENDS Integers, Sequences

CONSTANTS
  Buffers,   \* what the application may pass
  Sounds,    \* the sound format, rate, size and type it may pass along
  MaxCalls   \* bound: calls, on all connections together

Headers ==
  [crc : BOOLEAN, profile : 0..3, sfi : 0..15, channels : 0..7, flen : 0..8191]

ASSUME AacAssumption ==
  /\ MaxCalls \in Nat
  /\ \A b \in Buffers :
       /\ DOMAIN b = {"nb", "at"} /\ b.nb \in Nat
       /\ DOMAIN b.at \subseteq 0 .. b.nb - 1
       /\ \A i \in DOMAIN b.at : b.at[i] \in Headers
  /\ Sounds \subseteq [format : 0..15, rate : 0..3, size : 0..1, type : 0..1]

VARIABLES
  aac_specific_config,  \* << >> while av_len is 0
  pc,                   \* where the call is
  call,                 \* its arguments
  p,                    \* position of aac_raw_stream
  codec,                \* codec info and payload of the frame taken last
  ret,                  \* what the last call returned
  out,                  \* frames the call has written
  wire,                 \* audio messages of the connection
  lost,                 \* a write on the connection has failed
  calls

stream == <<p, codec>>
vars == <<aac_specific_config, pc, call, stream, ret, out, wire, lost, calls>>

SrsAudioCodecIdAAC == 10
NoCall == [sound |-> [format |-> 0, rate |-> 0, size |-> 0, type |-> 0],
           buffer |-> [nb |-> 0, at |-> [i \in {} |-> 0]]]
NoCodec == [object |-> 0, sfi |-> 0, channels |-> 0, at |-> 0, from |-> 0, to |-> 0]

Init ==
  /\ aac_specific_config = << >>
  /\ pc = "idle" /\ call = NoCall /\ p = 0 /\ codec = NoCodec /\ ret = "none"
  /\ out = << >> /\ wire = << >> /\ lost = FALSE /\ calls = 0

-----------------------------------------------------------------------------
(* The bytes of an ADTS header behind the sync word, as numbers.           *)
Sfiv(h) == h.profile * 16384 + h.sfi * 1024 + h.channels * 64 + (h.flen \div 2048)
Abfv(h) == (h.flen % 2048) * 8192 + 8188

Profile(h) == (Sfiv(h) \div 16384) % 4

(* Seeded fault: the sampling frequency index is not masked.               *)
IndexUnmasked(h) == Sfiv(h) \div 1024

SamplingFrequencyIndex(h) == (Sfiv(h) \div 1024) % 16
ChannelConfiguration(h) == (Sfiv(h) \div 64) % 8

(* Seeded fault: one bit of the length is taken from its neighbour.        *)
FrameLengthShifted(h) == (Sfiv(h) % 4) * 2048 + ((Abfv(h) \div 4096) % 2048)

FrameLength(h) == (Sfiv(h) % 4) * 2048 + ((Abfv(h) \div 8192) % 2048)

(* srs_aac_ts2rtmp.  0 is Reserved.                                        *)
Ts2Rtmp(profile) == IF profile <= 2 THEN profile + 1 ELSE 0

(* Seeded fault: the checksum is taken for payload.                        *)
HeaderSizeFixed(h) == 7

HeaderSize(h) == IF h.crc THEN 9 ELSE 7

-----------------------------------------------------------------------------
StartsWithAdts(b, i) == b.nb - i >= 2 /\ i \in DOMAIN b.at

(* A buffer of no bytes is answered with the error code, which is not 0.   *)
IsAdts(b) == b.nb = 0 \/ StartsWithAdts(b, 0)

(* What snx_aac_adts_frame_size says of the buffer behind place i, from    *)
(* the bytes 3 to 5 of the header.                                         *)
AdtsFrameSize(b, i) ==
  IF ~StartsWithAdts(b, i) \/ b.nb - i <= 7 THEN -1
  ELSE LET ch3 == Sfiv(b.at[i]) % 256
           ch4 == Abfv(b.at[i]) \div 65536
           ch5 == (Abfv(b.at[i]) \div 256) % 256
       IN (ch3 % 4) * 2048 + ch4 * 8 + (ch5 \div 32)

(* The AudioSpecificConfig of a sequence header.                           *)
ConfigIndex(sfi, rate) == CASE rate = 1 -> 10 [] rate = 2 -> 7 [] rate = 3 -> 4 [] OTHER -> sfi

(* Seeded fault: the low bit of the sampling frequency index is dropped.   *)
SecondByteOpen(index, channels) == channels * 8

SecondByte(index, channels) == (index % 2) * 128 + channels * 8

HeaderRefused(c, rate) == c.object = 0 \/ ConfigIndex(c.sfi, rate) = 15

SequenceHeader(c, rate) ==
  LET index == ConfigIndex(c.sfi, rate)
  IN << c.object * 8 + (index \div 2), SecondByte(index, c.channels) >>

(* The first byte of an audio message.                                     *)
Tag(s) == (s.format % 16) * 16 + (s.rate % 4) * 4 + (s.size % 2) * 2 + (s.type % 2)

-----------------------------------------------------------------------------
(* The application destroys the context and creates another.               *)
NewContext ==
  /\ pc = "idle"
  /\ aac_specific_config' = << >> /\ wire' = << >> /\ lost' = FALSE
  /\ call' = NoCall /\ p' = 0 /\ codec' = NoCodec /\ ret' = "none" /\ out' = << >>
  /\ UNCHANGED <<pc, calls>>

(* snx_audio_write_raw_frame up to the first frame.                        *)
Call(s, b) ==
  /\ pc = "idle" /\ calls < MaxCalls
  /\ calls' = calls + 1
  /\ call' = [sound |-> s, buffer |-> b]
  /\ out' = << >> /\ p' = 0 /\ codec' = NoCodec
  /\ UNCHANGED <<aac_specific_config, wire, lost>>

CallDirect(s, b) ==
  s.format # SrsAudioCodecIdAAC /\ Call(s, b) /\ pc' = "direct" /\ UNCHANGED ret

(* Not ADTS, or nothing that a stream could be initialized with.           *)
CallRefused(s, b) ==
  /\ s.format = SrsAudioCodecIdAAC
  /\ ~IsAdts(b) \/ b.nb = 0
  /\ Call(s, b) /\ ret' = "error" /\ UNCHANGED pc

CallAdts(s, b) ==
  /\ s.format = SrsAudioCodecIdAAC
  /\ IsAdts(b) /\ b.nb > 0
  /\ Call(s, b) /\ pc' = "demux" /\ UNCHANGED ret

-----------------------------------------------------------------------------
Left == call.buffer.nb - p
Header == call.buffer.at[p]
PayloadSize == FrameLength(Header) - HeaderSize(Header)

(* What the demux reads before it asks for the payload is there.           *)
Readable == Left >= 7 /\ StartsWithAdts(call.buffer, p) /\ Left >= HeaderSize(Header)

Demuxing == pc = "demux" /\ p < call.buffer.nb

Returns(r) == pc' = "idle" /\ ret' = r

(* Seeded fault: the error is noted and the loop goes on.                  *)
DemuxGoesOn ==
  /\ Demuxing
  /\ Readable => PayloadSize > Left - HeaderSize(Header)
  /\ ret' = "error"
  /\ UNCHANGED <<aac_specific_config, pc, call, stream, out, wire, lost, calls>>

DemuxFails ==
  /\ Demuxing
  /\ Readable => PayloadSize > Left - HeaderSize(Header)
  /\ Returns("error")
  /\ UNCHANGED <<aac_specific_config, call, stream, out, wire, lost, calls>>

(* A length less than that of the header is negative for the payload,      *)
(* which srs_buffer_require asserts against.                               *)
DemuxAborts ==
  /\ Demuxing
  /\ Readable /\ PayloadSize < 0
  /\ pc' = "aborted"
  /\ UNCHANGED <<aac_specific_config, call, stream, ret, out, wire, lost, calls>>

Demux ==
  /\ Demuxing
  /\ Readable /\ PayloadSize \in 0 .. Left - HeaderSize(Header)
  /\ codec' = [object |-> Ts2Rtmp(Profile(Header)), sfi |-> SamplingFrequencyIndex(Header),
               channels |-> ChannelConfiguration(Header), at |-> p,
               from |-> p + HeaderSize(Header), to |-> p + FrameLength(Header)]
  /\ p' = p + FrameLength(Header)
  /\ UNCHANGED <<call, out, wire, lost, calls>>

(* Seeded fault: that the header goes out is not kept.                     *)
ForgetsHeader(c, rate) == aac_specific_config

Keeps(c, rate) == SequenceHeader(c, rate)

(* The rest of the frame's turn up to its first write.                     *)
DemuxNext ==
  /\ Demux
  /\ aac_specific_config # << >>
  /\ pc' = "frame"
  /\ UNCHANGED <<aac_specific_config, ret>>

(* The config is in the context before the header is written.              *)
DemuxFirst ==
  /\ Demux
  /\ aac_specific_config = << >> /\ ~HeaderRefused(codec', call.sound.rate)
  /\ aac_specific_config' = Keeps(codec', call.sound.rate)
  /\ pc' = "header"
  /\ UNCHANGED ret

DemuxRefused ==
  /\ Demux
  /\ aac_specific_config = << >> /\ HeaderRefused(codec', call.sound.rate)
  /\ Returns("error")
  /\ UNCHANGED aac_specific_config

Finish ==
  /\ pc = "demux" /\ p >= call.buffer.nb
  /\ Returns("ok")
  /\ UNCHANGED <<aac_specific_config, call, stream, out, wire, lost, calls>>

-----------------------------------------------------------------------------
Message(what, config) ==
  [what |-> what, tag |-> Tag(call.sound), config |-> config,
   at |-> codec.at, from |-> codec.from, to |-> codec.to,
   of |-> IF what = "raw" THEN NoCall.buffer ELSE call.buffer]

WriteHeader ==
  /\ pc = "header"
  /\ wire' = Append(wire, Message("header", SequenceHeader(codec, call.sound.rate)))
  /\ pc' = "frame"
  /\ UNCHANGED <<aac_specific_config, call, stream, ret, out, lost, calls>>

WriteFrame ==
  /\ pc = "frame"
  /\ wire' = Append(wire, Message("frame", << >>))
  /\ out' = Append(out, codec)
  /\ pc' = "demux"
  /\ UNCHANGED <<aac_specific_config, call, stream, ret, lost, calls>>

WriteDirect ==
  /\ pc = "direct"
  /\ wire' = Append(wire, Message("raw", << >>))
  /\ Returns("ok")
  /\ UNCHANGED <<aac_specific_config, call, stream, out, lost, calls>>

WriteFails ==
  /\ pc \in {"header", "frame", "direct"}
  /\ Returns("error")
  /\ lost' = TRUE
  /\ UNCHANGED <<aac_specific_config, call, stream, out, wire, calls>>

Step ==
  \/ DemuxFails \/ DemuxAborts \/ DemuxNext \/ DemuxFirst \/ DemuxRefused \/ Finish
  \/ WriteHeader \/ WriteFrame \/ WriteDirect \/ WriteFails

Next ==
  \/ NewContext
  \/ \E s \in Sounds, b \in Buffers : CallDirect(s, b) \/ CallRefused(s, b) \/ CallAdts(s, b)
  \/ Step

Spec == Init /\ [][Next]_vars

(* A write ends, by what was sent or by its timeout, and the task goes on. *)
FairSpec == Spec /\ WF_vars(Step)

-----------------------------------------------------------------------------
Codecs ==
  [object : 0..3, sfi : 0..15, channels : 0..7, at : Nat, from : Nat, to : Nat]

Bytes == 0..255
Configs == {<< >>} \cup (Bytes \X Bytes)

AudioMessages ==
  [what : {"header", "frame", "raw"}, tag : Bytes, config : Configs,
   at : Nat, from : Nat, to : Nat, of : {NoCall.buffer} \cup Buffers]

TypeOK ==
  /\ aac_specific_config \in Configs
  /\ pc \in {"idle", "direct", "demux", "header", "frame", "aborted"}
  /\ call \in {NoCall} \cup [sound : Sounds, buffer : Buffers]
  /\ p \in 0 .. call.buffer.nb
  /\ codec \in Codecs
  /\ ret \in {"none", "ok", "error"}
  /\ out \in Seq(Codecs)
  /\ wire \in Seq(AudioMessages)
  /\ lost \in BOOLEAN /\ calls \in 0..MaxCalls

(* On a connection where no write has failed, AAC frames go out after one  *)
(* sequence header, whatever frames were refused, cut off or sent in other *)
(* formats between them, and after each reconnect again.                   *)
HeaderFirst ==
  ~lost =>
    /\ \A n \in DOMAIN wire : wire[n].what = "frame" =>
         \E m \in 1 .. n - 1 : wire[m].what = "header"
    /\ \A m, n \in DOMAIN wire : wire[m].what = "header" /\ wire[n].what = "header" => m = n

SamplingRate == <<96000, 88200, 64000, 48000, 44100, 32000, 24000, 22050, 16000, 12000, 11025, 8000, 7350>>
FlvRate == <<11025, 22050, 44100>>

(* What a decoder reads in a sequence header (ISO 14496-3, 1.6.2.1) is the *)
(* profile and the channels of the frame that comes after it, and the rate *)
(* is the one the message's own tag names, or the frame's when that is 0.  *)
HeaderDescribesFrame ==
  \A n \in DOMAIN wire : wire[n].what = "header" =>
    LET config == wire[n].config
        adts == wire[n].of.at[wire[n].at]
        index == (config[1] % 8) * 2 + (config[2] \div 128)
        rate == (wire[n].tag \div 4) % 4
    IN /\ config[1] \div 8 = adts.profile + 1
       /\ (config[2] \div 8) % 16 = adts.channels
       /\ IF rate = 0 THEN index = adts.sfi ELSE SamplingRate[index + 1] = FlvRate[rate]
       /\ n < Len(wire) /\ ~lost => wire[n + 1].what = "frame" /\ wire[n + 1].at = wire[n].at

(* What a call has sent lies end to end in the buffer from its first byte, *)
(* each piece without the header and the checksum in front of it and as    *)
(* long as snx_aac_adts_frame_size would have said; a call that succeeds   *)
(* has come to the last byte.                                              *)
SentTiles ==
  /\ \A i \in DOMAIN out :
       /\ out[i].at = IF i = 1 THEN 0 ELSE out[i - 1].to
       /\ out[i].at \in DOMAIN call.buffer.at
       /\ out[i].from = out[i].at + IF call.buffer.at[out[i].at].crc THEN 9 ELSE 7
       /\ out[i].from <= out[i].to /\ out[i].to <= call.buffer.nb
       /\ call.buffer.nb - out[i].at > 7 =>
            AdtsFrameSize(call.buffer, out[i].at) = out[i].to - out[i].at
  /\ pc = "idle" /\ ret = "ok" /\ call.sound.format = SrsAudioCodecIdAAC =>
       out # << >> /\ out[Len(out)].to = call.buffer.nb

(* Every header is behind the frame before it, and names its own length.   *)
Whole(b) ==
  /\ 0 \in DOMAIN b.at
  /\ \A i \in DOMAIN b.at :
       /\ b.at[i].flen >= (IF b.at[i].crc THEN 9 ELSE 7)
       /\ i + b.at[i].flen \in DOMAIN b.at \cup {b.nb}

(* A header can be made from the frame, with that rate.                    *)
Supported(adts, rate) == adts.profile < 3 /\ (rate = 0 => adts.sfi < 15)

(* A buffer of whole frames is sent: nothing in it is taken for an error,  *)
(* whatever was sent or refused before.                                    *)
WholeIsSent ==
  Whole(call.buffer) /\ call.sound.format = SrsAudioCodecIdAAC =>
    /\ pc # "aborted"
    /\ pc = "idle" /\ ~lost /\ Supported(call.buffer.at[0], call.sound.rate) => ret = "ok"

(* Every call returns, or meets the assertion, for any buffer.             *)
CallReturns == pc # "idle" ~> pc \in {"idle", "aborted"}
=============================================================================
