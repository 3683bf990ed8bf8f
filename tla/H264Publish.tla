---------------------------- MODULE H264Publish ----------------------------
(***************************************************************************)
(* snx_h264_write_raw_frames (rtmp_h264.c): an annexb buffer is taken      *)
(* apart into NALUs; parameter sets are kept in the context, slices go out *)
(* as video messages after one sequence header.  A context belongs to one  *)
(* connection, and an application has a new one after each reconnect, or   *)
(* several at a time with a task each; but whether a parameter set or the  *)
(* header is still due is counted in static variables, which all of them   *)
(* share and nothing resets.                                               *)
(*                                                                         *)
(* A NALU is known by its place among all that are fed, and IDR and        *)
(* non-IDR slices are both "ipb"; NALUs of other types, which are passed   *)
(* over, are left out.  What srs_rtmp_write_packet and write_packet_2 do   *)
(* on the wire is SendPath's.  Tasks give way to each other where they     *)
(* block, that is in the writes and between calls.                         *)
(***************************************************************************)
EXTENDS Integers, Sequences

CONSTANTS
  Contexts,  \* the contexts the program creates, one after another or not
  MaxNalus   \* bound: NALUs passed to all calls together

NoSet == 0
Types == {"sps", "pps", "ipb", "aud"}

ASSUME H264Assumption == MaxNalus \in Nat

VARIABLES
  sps_count_flag, pps_count_flag, sps_pps_count_flag,
  context,  \* the h264_ fields of each context
  pc,       \* where the call on each context is
  ret,      \* its error_code_return
  since,    \* the NALUs fed before it
  fed,      \* NALUs taken from the buffers, in order
  wire,     \* what was written on each connection
  lost,     \* contexts with a failed write
  dropped,  \* slices answered with ERROR_H264_DROP_BEFORE_SPS_PPS
  okd,      \* slices of calls that returned ERROR_SUCCESS
  aborted   \* an srs_assert failed

flags == <<sps_count_flag, pps_count_flag, sps_pps_count_flag>>
vars == <<flags, context, pc, ret, since, fed, wire, lost, dropped, okd, aborted>>

Init ==
  /\ sps_count_flag = 0 /\ pps_count_flag = 0 /\ sps_pps_count_flag = 0
  /\ context = [c \in Contexts |->
       [h264_sps |-> NoSet, h264_pps |-> NoSet, h264_sps_changed |-> FALSE,
        h264_pps_changed |-> FALSE, h264_sps_pps_sent |-> FALSE]]
  /\ pc = [c \in Contexts |-> "idle"]
  /\ ret = [c \in Contexts |-> "ok"]
  /\ since = [c \in Contexts |-> 0]
  /\ fed = << >>
  /\ wire = [c \in Contexts |-> << >>]
  /\ lost = {} /\ dropped = {} /\ okd = {}
  /\ aborted = FALSE

-----------------------------------------------------------------------------
(* The slices of a context among the NALUs fed after the first n, by their *)
(* places.                                                                 *)
Slices(c, n) == {k \in n + 1 .. Len(fed) : fed[k].ctx = c /\ fed[k].type = "ipb"}

(* The NALU the call on c is at.                                           *)
Latest(c) == CHOOSE k \in DOMAIN fed : fed[k].ctx = c /\ \A j \in k + 1 .. Len(fed) : fed[j].ctx # c

Call(c) ==
  /\ pc[c] = "idle" /\ ~aborted /\ Len(fed) < MaxNalus
  /\ pc' = [pc EXCEPT ![c] = "demux"]
  /\ ret' = [ret EXCEPT ![c] = "ok"]
  /\ since' = [since EXCEPT ![c] = Len(fed)]
  /\ UNCHANGED <<flags, context, fed, wire, lost, dropped, okd, aborted>>

(* The next NALU of the buffer.                                            *)
Takes(c, type) ==
  /\ pc[c] = "demux" /\ ~aborted /\ Len(fed) < MaxNalus
  /\ fed' = Append(fed, [ctx |-> c, type |-> type])
  /\ UNCHANGED <<since, wire, lost, okd>>

KeepsSps(ctx, k) == [ctx EXCEPT !.h264_sps = k, !.h264_sps_changed = TRUE]

(* Seeded fault: the PPS is put where the SPS is.                          *)
KeepsPpsAsSps(ctx, k) == [ctx EXCEPT !.h264_sps = k, !.h264_pps_changed = TRUE]

KeepsPps(ctx, k) == [ctx EXCEPT !.h264_pps = k, !.h264_pps_changed = TRUE]

(* The first SPS and the first PPS of the program are kept, others are not *)
(* looked at.                                                              *)
TakeSps(c) ==
  /\ Takes(c, "sps")
  /\ IF sps_count_flag = 0
     THEN /\ sps_count_flag' = 1
          /\ context' = [context EXCEPT ![c] = KeepsSps(@, Len(fed) + 1)]
     ELSE UNCHANGED <<sps_count_flag, context>>
  /\ UNCHANGED <<pps_count_flag, sps_pps_count_flag, pc, ret, dropped, aborted>>

TakePps(c) ==
  /\ Takes(c, "pps")
  /\ IF pps_count_flag = 0
     THEN /\ pps_count_flag' = 1
          /\ context' = [context EXCEPT ![c] = KeepsPps(@, Len(fed) + 1)]
     ELSE UNCHANGED <<pps_count_flag, context>>
  /\ UNCHANGED <<sps_count_flag, sps_pps_count_flag, pc, ret, dropped, aborted>>

-----------------------------------------------------------------------------
(* Seeded fault: slices are not held back before the header.               *)
HoldsNothing(c, k, type) == FALSE

HoldsBack(c, k, type) == ~context'[c].h264_sps_pps_sent

(* Seeded fault: a drop is forgotten when the call goes on.                *)
Forgets(r) == r

Remembers(r) == "dropped"

(* srs_write_h264_ipb_frame_2 up to the write, for the NALU at place k: it *)
(* drops before it looks at the type, and the call goes on with the next.  *)
IpbFrame(c, k, type) ==
  IF HoldsBack(c, k, type)
  THEN /\ pc' = [pc EXCEPT ![c] = "demux"]
       /\ ret' = [ret EXCEPT ![c] = Remembers(@)]
       /\ dropped' = IF type = "ipb" THEN dropped \cup {k} ELSE dropped
  ELSE /\ pc' = [pc EXCEPT ![c] = IF type = "ipb" THEN "frame" ELSE "demux"]
       /\ UNCHANGED <<ret, dropped>>

Changed(c) == context[c].h264_sps_changed \/ context[c].h264_pps_changed

(* send pps+sps before ipb frames when sps/pps changed.                    *)
HeaderDue(c) == sps_pps_count_flag = 0 /\ Changed(c)

(* Seeded fault: every slice is counted.                                   *)
CountsAll(flag) == flag + 1

FlagAfter(flag) == IF flag = 0 THEN 1 ELSE flag

(* A slice or an access unit delimiter.  The first one of the program uses *)
(* up sps_pps_count_flag, header or not.                                   *)
TakeSlice(c, type) ==
  /\ ~HeaderDue(c)
  /\ Takes(c, type)
  /\ sps_pps_count_flag' = FlagAfter(sps_pps_count_flag)
  /\ UNCHANGED <<sps_count_flag, pps_count_flag, context, aborted>>
  /\ IpbFrame(c, Len(fed) + 1, type)

(* srs_write_h264_sps_pps up to the write.  The mux asserts that there is  *)
(* an SPS, not that there is a PPS.                                        *)
TakeSliceHeaderDue(c, type) ==
  /\ HeaderDue(c)
  /\ Takes(c, type)
  /\ IF context[c].h264_sps = NoSet
     THEN aborted' = TRUE /\ UNCHANGED <<context, pc>>
     ELSE /\ context' = [context EXCEPT ![c] = [@ EXCEPT !.h264_sps_changed = FALSE,
               !.h264_pps_changed = FALSE, !.h264_sps_pps_sent = TRUE]]
          /\ pc' = [pc EXCEPT ![c] = "header"]
          /\ UNCHANGED aborted
  /\ UNCHANGED <<flags, ret, dropped>>

-----------------------------------------------------------------------------
Writes(c, item) == wire' = [wire EXCEPT ![c] = Append(@, item)]

(* The header was written, and the slice it was due for goes on.           *)
WriteHeader(c) ==
  /\ pc[c] = "header" /\ ~aborted
  /\ Writes(c, [what |-> "header", sps |-> context[c].h264_sps, pps |-> context[c].h264_pps])
  /\ sps_pps_count_flag' = sps_pps_count_flag + 1
  /\ UNCHANGED <<sps_count_flag, pps_count_flag, context, since, fed, lost, okd, aborted>>
  /\ IpbFrame(c, Latest(c), fed[Latest(c)].type)

(* Seeded fault: after the write the loop does not go on.                  *)
WriteFrameTwice(c) ==
  /\ pc[c] = "frame" /\ ~aborted
  /\ Writes(c, [what |-> "frame", k |-> Latest(c)])
  /\ UNCHANGED pc
  /\ UNCHANGED <<flags, context, ret, since, fed, lost, dropped, okd, aborted>>

WriteFrame(c) ==
  /\ pc[c] = "frame" /\ ~aborted
  /\ Writes(c, [what |-> "frame", k |-> Latest(c)])
  /\ pc' = [pc EXCEPT ![c] = "demux"]
  /\ UNCHANGED <<flags, context, ret, since, fed, lost, dropped, okd, aborted>>

(* The write failed: the call returns.  The context already says that the  *)
(* header was sent.                                                        *)
WriteFails(c) ==
  /\ pc[c] \in {"header", "frame"} /\ ~aborted
  /\ pc' = [pc EXCEPT ![c] = "idle"]
  /\ ret' = [ret EXCEPT ![c] = "failed"]
  /\ lost' = lost \cup {c}
  /\ UNCHANGED <<flags, context, since, fed, wire, dropped, okd, aborted>>

(* The buffer is used up, or what is left does not start with a start code.*)
Return(c) ==
  /\ pc[c] = "demux" /\ ~aborted
  /\ pc' = [pc EXCEPT ![c] = "idle"]
  /\ \/ /\ okd' = IF ret[c] = "ok" THEN okd \cup Slices(c, since[c]) ELSE okd
        /\ UNCHANGED ret
     \/ /\ ret' = [ret EXCEPT ![c] = "failed"]
        /\ UNCHANGED okd
  /\ UNCHANGED <<flags, context, since, fed, wire, lost, dropped, aborted>>

Next ==
  \E c \in Contexts :
    \/ Call(c)
    \/ TakeSps(c) \/ TakePps(c)
    \/ \E type \in {"ipb", "aud"} : TakeSlice(c, type) \/ TakeSliceHeaderDue(c, type)
    \/ WriteHeader(c) \/ WriteFrame(c) \/ WriteFails(c)
    \/ Return(c)

Spec == Init /\ [][Next]_vars

-----------------------------------------------------------------------------
Items ==
  [what : {"header"}, sps : 0..MaxNalus, pps : 0..MaxNalus]
    \cup [what : {"frame"}, k : 1..MaxNalus]

TypeOK ==
  /\ sps_count_flag \in 0..1 /\ pps_count_flag \in 0..1 /\ sps_pps_count_flag \in 0..2
  /\ context \in [Contexts ->
       [h264_sps : 0..MaxNalus, h264_pps : 0..MaxNalus, h264_sps_changed : BOOLEAN,
        h264_pps_changed : BOOLEAN, h264_sps_pps_sent : BOOLEAN]]
  /\ pc \in [Contexts -> {"idle", "demux", "header", "frame"}]
  /\ ret \in [Contexts -> {"ok", "dropped", "failed"}]
  /\ since \in [Contexts -> 0..MaxNalus]
  /\ fed \in Seq([ctx : Contexts, type : Types])
  /\ Len(fed) <= MaxNalus
  /\ wire \in [Contexts -> Seq(Items)]
  /\ lost \subseteq Contexts
  /\ dropped \subseteq 1..MaxNalus /\ okd \subseteq 1..MaxNalus
  /\ aborted \in BOOLEAN

Headers(c) == {n \in DOMAIN wire[c] : wire[c][n].what = "header"}

(* On a connection where no write has failed, what comes first is a        *)
(* sequence header with an SPS, and it is the only one: no interleaving of *)
(* contexts lets slices out before it or writes it twice.                  *)
HeaderFirst ==
  \A c \in Contexts \ lost :
    wire[c] # << >> => Headers(c) = {1} /\ wire[c][1].sps # NoSet

(* The NALU whose write the call on c is in.                               *)
InHand(c) == IF pc[c] \in {"header", "frame"} THEN {Latest(c)} ELSE {}

(* On the wire w are slices in order and once, and after the first of them *)
(* every later one, but what is in hand.                                   *)
Unbroken(w, slices, hand) ==
  LET frames == {n \in DOMAIN w : w[n].what = "frame"}
      out == {w[n].k : n \in frames}
  IN /\ \A m, n \in frames : m < n => w[m].k < w[n].k
     /\ out \subseteq slices
     /\ \A j \in out, k \in slices : k >= j => (k \in out <=> k \notin hand)

(* Once a slice of a connection is out, every later one follows it, in     *)
(* order and once, while writes succeed: dropping never starts again.      *)
NoGaps == \A c \in Contexts \ lost : Unbroken(wire[c], Slices(c, 0), InHand(c))

(* A call that returns ERROR_SUCCESS has written every slice it was given; *)
(* a drop early in the buffer is still reported when later slices go out.  *)
SuccessIsPublished ==
  \A k \in okd : \E i \in DOMAIN wire[fed[k].ctx] :
    wire[fed[k].ctx][i] = [what |-> "frame", k |-> k]

(* The first NALUs of the program are an SPS, a PPS and a slice of c.      *)
Orderly(c) ==
  /\ Len(fed) >= 3
  /\ {fed[1].type, fed[2].type} = {"sps", "pps"}
  /\ fed[3].type \in {"ipb", "aud"}
  /\ \A k \in 1..3 : fed[k].ctx = c

(* What works: the connection that opens the program with both parameter   *)
(* sets and a slice has its header out complete, whatever other contexts   *)
(* do during the write, and none of its slices is dropped.                 *)
OrderlyIsPublished ==
  \A c \in Contexts : Orderly(c) =>
    /\ \A k \in dropped : fed[k].ctx # c
    /\ \A n \in Headers(c) : {wire[c][n].sps, wire[c][n].pps} = {1, 2}

(* What the comment before the header is written says: a slice goes out    *)
(* after a header with the parameter sets that were fed before it, and is  *)
(* not dropped when they were.                                             *)
SetsGoBeforeSlices ==
  \A k \in dropped :
    LET c == fed[k].ctx
        before(type) == \E j \in 1..k - 1 : fed[j].ctx = c /\ fed[j].type = type
    IN ~(before("sps") /\ before("pps"))
=============================================================================
