-------------------------- MODULE H264PublishProofs --------------------------
(***************************************************************************)
(* Proofs about H264Publish, for any contexts and any number of NALUs:     *)
(* types, the one sequence header, that success means published, that no   *)
(* slice is missing in between, and what an orderly beginning gives.       *)
(***************************************************************************)
EXTENDS H264Publish, TLAPS

(* The NALU the call on c is at, as what it is and not as a choice.        *)
IsLatest(f, c, k) ==
  /\ k \in DOMAIN f /\ f[k].ctx = c
  /\ \A j \in k + 1 .. Len(f) : f[j].ctx # c

(* A call that is in a write has taken a NALU.                             *)
AtNalu ==
  \A c \in Contexts : pc[c] \in {"header", "frame"} => \E k \in DOMAIN fed : IsLatest(fed, c, k)

(* One context of the program has an SPS, and it alone writes a header,    *)
(* once unless the write fails.                                            *)
OneSps ==
  /\ \A c \in Contexts : context[c].h264_sps # NoSet => sps_count_flag = 1
  /\ \A c, d \in Contexts :
       context[c].h264_sps # NoSet /\ context[d].h264_sps # NoSet => c = d
  /\ \A c \in Contexts :
       pc[c] = "header" => context[c].h264_sps # NoSet /\ sps_pps_count_flag <= 1

(* What is on the wire of a connection, and where its call is.             *)
Ordered(c) ==
  /\ wire[c] # << >> =>
       /\ Headers(c) = {1} /\ wire[c][1].sps # NoSet
       /\ sps_pps_count_flag >= 1
  /\ context[c].h264_sps_pps_sent => pc[c] = "header" \/ wire[c] # << >>
  /\ pc[c] = "header" => wire[c] = << >>
  /\ pc[c] = "frame" => wire[c] # << >>

Announced == \A c \in Contexts \ lost : Ordered(c)

IInv == TypeOK /\ AtNalu /\ OneSps /\ Announced

-----------------------------------------------------------------------------
Nalus == [ctx : Contexts, type : Types]
Fields ==
  [h264_sps : 0..MaxNalus, h264_pps : 0..MaxNalus, h264_sps_changed : BOOLEAN,
   h264_pps_changed : BOOLEAN, h264_sps_pps_sent : BOOLEAN]

LEMMA LatestIs ==
  ASSUME TypeOK, NEW c, NEW k, IsLatest(fed, c, k)
  PROVE  Latest(c) = k
<1>1. DOMAIN fed = 1 .. Len(fed) /\ Len(fed) \in Nat
  BY DEF TypeOK
<1>2. \A j \in DOMAIN fed :
        fed[j].ctx = c /\ (\A i \in j + 1 .. Len(fed) : fed[i].ctx # c) => j = k
  BY <1>1 DEF IsLatest
<1> QED
  BY <1>2 DEF IsLatest, Latest

(* One more NALU, of the context c.                                        *)
LEMMA Taken ==
  ASSUME TypeOK, NEW c \in Contexts, NEW type \in Types, Takes(c, type)
  PROVE  /\ fed' \in Seq(Nalus) /\ Len(fed') = Len(fed) + 1 /\ Len(fed') <= MaxNalus
         /\ DOMAIN fed' = 1 .. Len(fed) + 1 /\ DOMAIN fed = 1 .. Len(fed)
         /\ Len(fed) \in Nat /\ Len(fed) + 1 \in 1..MaxNalus
         /\ \A k \in DOMAIN fed : fed'[k] = fed[k]
         /\ fed'[Len(fed) + 1] = [ctx |-> c, type |-> type]
         /\ pc[c] = "demux" /\ ~aborted /\ UNCHANGED <<since, wire, lost, okd>>
<1>1. fed \in Seq(Nalus) /\ [ctx |-> c, type |-> type] \in Nalus /\ Len(fed) < MaxNalus
  BY DEF TypeOK, Nalus, Takes
<1>2. PICK x \in Nalus : x = [ctx |-> c, type |-> type]
  BY <1>1
<1>3. fed' = Append(fed, x)
  BY <1>2 DEF Takes
<1>4. /\ fed' \in Seq(Nalus) /\ Len(fed') = Len(fed) + 1
      /\ DOMAIN fed' = 1 .. Len(fed) + 1 /\ DOMAIN fed = 1 .. Len(fed)
      /\ Len(fed) \in Nat
      /\ \A k \in DOMAIN fed : fed'[k] = fed[k]
      /\ fed'[Len(fed) + 1] = x
  BY <1>1, <1>3
<1>5. MaxNalus \in Nat
  BY H264Assumption
<1>6. Len(fed') <= MaxNalus /\ Len(fed) + 1 \in 1..MaxNalus
  BY <1>1, <1>4, <1>5
<1> QED
  BY <1>2, <1>4, <1>6 DEF Takes

LEMMA LatestTaken ==
  ASSUME TypeOK, AtNalu, NEW c \in Contexts, NEW type \in Types, Takes(c, type)
  PROVE  /\ IsLatest(fed', c, Len(fed) + 1)
         /\ \A d \in Contexts \ {c} : \A k \in DOMAIN fed : IsLatest(fed, d, k) => IsLatest(fed', d, k)
<1>1. /\ Len(fed') = Len(fed) + 1 /\ Len(fed) \in Nat
      /\ DOMAIN fed' = 1 .. Len(fed) + 1 /\ DOMAIN fed = 1 .. Len(fed)
      /\ \A k \in DOMAIN fed : fed'[k] = fed[k]
      /\ fed'[Len(fed) + 1].ctx = c
  <2>1. fed'[Len(fed) + 1] = [ctx |-> c, type |-> type]
    BY Taken
  <2> QED
    BY <2>1, Taken
<1>2. IsLatest(fed', c, Len(fed) + 1)
  <2>2. PICK n \in Nat : n = Len(fed)
    BY <1>1
  <2>3. n + 1 \in DOMAIN fed' /\ fed'[n + 1].ctx = c
    BY <1>1, <2>2
  <2>4. (n + 1) + 1 .. Len(fed') = {}
    BY <1>1, <2>2
  <2> QED
    BY <2>2, <2>3, <2>4 DEF IsLatest
<1>3. ASSUME NEW d \in Contexts \ {c}, NEW k \in DOMAIN fed, IsLatest(fed, d, k)
      PROVE  IsLatest(fed', d, k)
  <2>1. k \in DOMAIN fed' /\ fed'[k].ctx = d
    BY <1>1, <1>3 DEF IsLatest
  <2>2. ASSUME NEW j \in k + 1 .. Len(fed') PROVE fed'[j].ctx # d
    <3>1. CASE j = Len(fed) + 1
      BY <1>1, <3>1
    <3>2. CASE j # Len(fed) + 1
      <4>1. j \in k + 1 .. Len(fed) /\ j \in DOMAIN fed
        BY <1>1, <2>2, <3>2
      <4> QED
        BY <1>1, <1>3, <4>1 DEF IsLatest
    <3> QED
      BY <3>1, <3>2
  <2> QED
    BY <2>1, <2>2 DEF IsLatest
<1> QED
  BY <1>2, <1>3

-----------------------------------------------------------------------------
(* Types.                                                                  *)

LEMMA Begins == Init => IInv
<1> SUFFICES ASSUME Init PROVE IInv
  OBVIOUS
<1>1. MaxNalus \in Nat /\ NoSet = 0
  BY H264Assumption DEF NoSet
<1>2. /\ context \in [Contexts -> Fields]
      /\ \A c \in Contexts : context[c].h264_sps = NoSet /\ ~context[c].h264_sps_pps_sent
  BY <1>1 DEF Init, Fields
<1>3. /\ wire \in [Contexts -> Seq(Items)] /\ \A c \in Contexts : wire[c] = << >>
  BY DEF Init
<1>4. fed = << >> /\ Len(fed) = 0 /\ fed \in Seq(Nalus)
  BY DEF Init
<1>5. /\ pc \in [Contexts -> {"idle", "demux", "header", "frame"}]
      /\ ret \in [Contexts -> {"ok", "dropped", "failed"}]
      /\ since \in [Contexts -> 0..MaxNalus]
      /\ \A c \in Contexts : pc[c] = "idle"
  BY <1>1 DEF Init
<1>6. TypeOK
  <2>1. /\ sps_count_flag \in 0..1 /\ pps_count_flag \in 0..1 /\ sps_pps_count_flag \in 0..2
        /\ lost \subseteq Contexts /\ dropped \subseteq 1..MaxNalus /\ okd \subseteq 1..MaxNalus
    BY DEF Init
  <2>3. aborted \in BOOLEAN
    <3>1. aborted = FALSE
      BY DEF Init
    <3> QED
      BY <3>1
  <2>2. Len(fed) <= MaxNalus
    BY <1>1, <1>4
  <2> QED
    BY <1>2, <1>3, <1>4, <1>5, <2>1, <2>2, <2>3 DEF TypeOK, Fields, Nalus
<1> QED
  BY <1>2, <1>3, <1>5, <1>6 DEF IInv, AtNalu, OneSps, Announced, Ordered

LEMMA Ipb ==
  ASSUME TypeOK, NEW c \in Contexts, NEW k \in 1..MaxNalus, NEW type, IpbFrame(c, k, type)
  PROVE  /\ dropped' \subseteq 1..MaxNalus
         /\ ret' \in [Contexts -> {"ok", "dropped", "failed"}]
         /\ \/ /\ pc' = [pc EXCEPT ![c] = "demux"]
               /\ type = "ipb" => ret'[c] = "dropped"
            \/ /\ pc' = [pc EXCEPT ![c] = "frame"]
               /\ context'[c].h264_sps_pps_sent /\ type = "ipb"
         /\ \A d \in Contexts \ {c} : ret'[d] = ret[d]
         /\ ret'[c] # "dropped" => ret'[c] = ret[c]
<1>1. dropped \subseteq 1..MaxNalus /\ ret \in [Contexts -> {"ok", "dropped", "failed"}]
  BY DEF TypeOK
<1>2. CASE HoldsBack(c, k, type)
  BY <1>1, <1>2 DEF IpbFrame, Remembers
<1>3. CASE ~HoldsBack(c, k, type)
  BY <1>1, <1>3 DEF IpbFrame, HoldsBack
<1> QED
  BY <1>2, <1>3

LEMMA TypesAfterSet ==
  ASSUME IInv, NEW c \in Contexts, TakeSps(c) \/ TakePps(c)
  PROVE  TypeOK'
<1>1. PICK type \in Types : Takes(c, type)
  BY DEF TakeSps, TakePps, Types
<1>2. /\ fed' \in Seq(Nalus) /\ Len(fed') <= MaxNalus /\ Len(fed) + 1 \in 1..MaxNalus
      /\ UNCHANGED <<since, wire, lost, okd>>
  BY <1>1, Taken DEF IInv
<1>3. UNCHANGED <<sps_pps_count_flag, pc, ret, dropped, aborted>>
  BY DEF TakeSps, TakePps
<1>4. sps_count_flag' \in 0..1 /\ pps_count_flag' \in 0..1
  BY DEF TakeSps, TakePps, IInv, TypeOK
<1>5. context' \in [Contexts -> Fields]
  <2>1. context \in [Contexts -> Fields]
    BY DEF IInv, TypeOK, Fields
  <2>2. PICK n \in 0..MaxNalus : n = Len(fed) + 1
    BY <1>2
  <2>3. KeepsSps(context[c], n) \in Fields /\ KeepsPps(context[c], n) \in Fields
    BY <2>1 DEF KeepsSps, KeepsPps, Fields
  <2> QED
    BY <2>1, <2>2, <2>3 DEF TakeSps, TakePps
<1> QED
  BY <1>2, <1>3, <1>4, <1>5 DEF IInv, TypeOK, Nalus, Fields

LEMMA TypesAfterSlice ==
  ASSUME IInv, NEW c \in Contexts, NEW type \in {"ipb", "aud"},
         TakeSlice(c, type) \/ TakeSliceHeaderDue(c, type)
  PROVE  TypeOK'
<1>1. Takes(c, type) /\ type \in Types
  BY DEF TakeSlice, TakeSliceHeaderDue, Types
<1>2. /\ fed' \in Seq(Nalus) /\ Len(fed') <= MaxNalus /\ Len(fed) + 1 \in 1..MaxNalus
      /\ UNCHANGED <<since, wire, lost, okd>>
  BY <1>1, Taken DEF IInv
<1>3. pc \in [Contexts -> {"idle", "demux", "header", "frame"}]
  BY DEF IInv, TypeOK
<1>4. CASE TakeSlice(c, type)
  <2>1. /\ dropped' \subseteq 1..MaxNalus
        /\ ret' \in [Contexts -> {"ok", "dropped", "failed"}]
        /\ pc' \in [Contexts -> {"idle", "demux", "header", "frame"}]
    BY <1>2, <1>3, <1>4, Ipb DEF TakeSlice, IInv
  <2>2. sps_pps_count_flag' \in 0..2
    BY <1>4 DEF TakeSlice, FlagAfter, IInv, TypeOK
  <2>3. UNCHANGED <<sps_count_flag, pps_count_flag, context, aborted>>
    BY <1>4 DEF TakeSlice
  <2> QED
    BY <1>2, <2>1, <2>2, <2>3 DEF IInv, TypeOK, Nalus
<1>5. CASE TakeSliceHeaderDue(c, type)
  <2>1. UNCHANGED <<flags, ret, dropped>>
    BY <1>5 DEF TakeSliceHeaderDue
  <2>2. context' \in [Contexts -> Fields]
    <3>1. context \in [Contexts -> Fields]
      BY DEF IInv, TypeOK, Fields
    <3>2. [context[c] EXCEPT !.h264_sps_changed = FALSE, !.h264_pps_changed = FALSE,
                             !.h264_sps_pps_sent = TRUE] \in Fields
      BY <3>1 DEF Fields
    <3> QED
      BY <1>5, <3>1, <3>2 DEF TakeSliceHeaderDue
  <2>3. /\ pc' \in [Contexts -> {"idle", "demux", "header", "frame"}]
        /\ aborted' \in BOOLEAN
    BY <1>3, <1>5 DEF TakeSliceHeaderDue, IInv, TypeOK
  <2> QED
    BY <1>2, <2>1, <2>2, <2>3 DEF IInv, TypeOK, Nalus, Fields, flags
<1> QED
  BY <1>4, <1>5

(* The writes append to the wire of their own connection.                  *)
LEMMA Written ==
  ASSUME TypeOK, NEW c \in Contexts, NEW item \in Items, Writes(c, item)
  PROVE  /\ wire' \in [Contexts -> Seq(Items)]
         /\ Len(wire[c]) \in Nat /\ DOMAIN wire[c] = 1 .. Len(wire[c])
         /\ DOMAIN wire'[c] = 1 .. Len(wire[c]) + 1
         /\ \A n \in DOMAIN wire[c] : wire'[c][n] = wire[c][n]
         /\ wire'[c][Len(wire[c]) + 1] = item /\ wire'[c] # << >>
         /\ \A d \in Contexts \ {c} : wire'[d] = wire[d]
<1>1. wire \in [Contexts -> Seq(Items)] /\ wire' = [wire EXCEPT ![c] = Append(@, item)]
  BY DEF TypeOK, Writes
<1>2. PICK q \in Seq(Items) : q = wire[c]
  BY <1>1
<1>0. Append(q, item) \in Seq(Items)
  BY <1>2
<1>3. PICK r \in Seq(Items) : r = Append(q, item)
  BY <1>0
<1>4. wire'[c] = r
  BY <1>1, <1>2, <1>3
<1>5. /\ Len(q) \in Nat /\ DOMAIN q = 1 .. Len(q) /\ DOMAIN r = 1 .. Len(q) + 1
      /\ \A n \in DOMAIN q : r[n] = q[n]
      /\ r[Len(q) + 1] = item /\ r # << >>
  BY <1>3
<1> QED
  BY <1>1, <1>2, <1>4, <1>5

LEMMA HeaderItem ==
  ASSUME TypeOK, AtNalu, NEW c \in Contexts, pc[c] \in {"header", "frame"}
  PROVE  /\ [what |-> "header", sps |-> context[c].h264_sps, pps |-> context[c].h264_pps] \in Items
         /\ Latest(c) \in 1..MaxNalus /\ Latest(c) \in DOMAIN fed
         /\ IsLatest(fed, c, Latest(c))
         /\ [what |-> "frame", k |-> Latest(c)] \in Items
<1>1. context[c].h264_sps \in 0..MaxNalus /\ context[c].h264_pps \in 0..MaxNalus
  BY DEF TypeOK
<1>2. PICK k \in DOMAIN fed : IsLatest(fed, c, k)
  BY DEF AtNalu
<1>3. k \in 1..MaxNalus
  BY H264Assumption DEF TypeOK
<1>4. Latest(c) = k
  BY <1>2, LatestIs
<1>5. PICK n : n = Latest(c)
  OBVIOUS
<1>6. [what |-> "frame", k |-> n] \in Items
  BY <1>3, <1>4, <1>5 DEF Items
<1>7. [what |-> "header", sps |-> context[c].h264_sps, pps |-> context[c].h264_pps] \in Items
  BY <1>1 DEF Items
<1> QED
  BY <1>2, <1>3, <1>4, <1>5, <1>6, <1>7

LEMMA TypesAfterWrite ==
  ASSUME IInv, NEW c \in Contexts, WriteHeader(c) \/ WriteFrame(c)
  PROVE  TypeOK'
<1>1. pc[c] \in {"header", "frame"}
  BY DEF WriteHeader, WriteFrame
<1>2. CASE WriteHeader(c)
  <2>1. wire' \in [Contexts -> Seq(Items)]
    BY <1>1, <1>2, HeaderItem, Written DEF WriteHeader, IInv
  <2>2. /\ dropped' \subseteq 1..MaxNalus
        /\ ret' \in [Contexts -> {"ok", "dropped", "failed"}]
        /\ pc' \in [Contexts -> {"idle", "demux", "header", "frame"}]
    <3>1. PICK k, type : k = Latest(c) /\ type = fed[Latest(c)].type
      OBVIOUS
    <3>2. k \in 1..MaxNalus /\ IpbFrame(c, k, type)
      BY <1>1, <1>2, <3>1, HeaderItem DEF WriteHeader, IInv
    <3> QED
      BY <3>2, Ipb DEF IInv, TypeOK
  <2>3. sps_pps_count_flag' \in 0..2
    BY <1>2 DEF WriteHeader, IInv, OneSps, TypeOK
  <2>4. UNCHANGED <<sps_count_flag, pps_count_flag, context, since, fed, lost, okd, aborted>>
    BY <1>2 DEF WriteHeader
  <2> QED
    BY <2>1, <2>2, <2>3, <2>4 DEF IInv, TypeOK
<1>3. CASE WriteFrame(c)
  <2>1. wire' \in [Contexts -> Seq(Items)]
    BY <1>1, <1>3, HeaderItem, Written DEF WriteFrame, IInv
  <2>2. pc' \in [Contexts -> {"idle", "demux", "header", "frame"}]
    BY <1>3 DEF WriteFrame, IInv, TypeOK
  <2>3. UNCHANGED <<flags, context, ret, since, fed, lost, dropped, okd, aborted>>
    BY <1>3 DEF WriteFrame
  <2> QED
    BY <2>1, <2>2, <2>3 DEF IInv, TypeOK, flags
<1> QED
  BY <1>2, <1>3

LEMMA TypesOtherwise ==
  ASSUME IInv, NEW c \in Contexts, Call(c) \/ WriteFails(c) \/ Return(c)
  PROVE  TypeOK'
<1>1. UNCHANGED <<flags, context, fed, wire, dropped, aborted>>
  BY DEF Call, WriteFails, Return
<1>2. /\ pc' \in [Contexts -> {"idle", "demux", "header", "frame"}]
      /\ ret' \in [Contexts -> {"ok", "dropped", "failed"}]
  BY DEF Call, WriteFails, Return, IInv, TypeOK
<1>3. since' \in [Contexts -> 0..MaxNalus]
  <2>1. Len(fed) \in 0..MaxNalus
    BY H264Assumption DEF IInv, TypeOK
  <2> QED
    BY <2>1 DEF Call, WriteFails, Return, IInv, TypeOK
<1>4. lost' \subseteq Contexts
  BY DEF Call, WriteFails, Return, IInv, TypeOK
<1>5. okd' \subseteq 1..MaxNalus
  <2>1. since[c] \in Nat /\ Len(fed) \in Nat /\ Len(fed) <= MaxNalus /\ MaxNalus \in Nat
    BY H264Assumption DEF IInv, TypeOK
  <2>2. Slices(c, since[c]) \subseteq 1..MaxNalus
    BY <2>1 DEF Slices
  <2> QED
    BY <2>2 DEF Call, WriteFails, Return, IInv, TypeOK
<1> QED
  BY <1>1, <1>2, <1>3, <1>4, <1>5 DEF IInv, TypeOK, flags

-----------------------------------------------------------------------------
(* What each step does to the invariant's other parts.                     *)

LEMMA Keeping ==
  ASSUME NEW x \in Fields, NEW k
  PROVE  /\ KeepsSps(x, k).h264_sps = k
         /\ KeepsSps(x, k).h264_sps_pps_sent = x.h264_sps_pps_sent
         /\ KeepsPps(x, k).h264_sps = x.h264_sps
         /\ KeepsPps(x, k).h264_sps_pps_sent = x.h264_sps_pps_sent
  BY DEF KeepsSps, KeepsPps, Fields

LEMMA AtNaluStep ==
  ASSUME IInv, NEW c \in Contexts,
         \/ \E type \in Types : Takes(c, type)
         \/ UNCHANGED fed /\ (pc'[c] \in {"header", "frame"} => pc[c] \in {"header", "frame"}),
         \A d \in Contexts \ {c} : pc'[d] = pc[d]
  PROVE  AtNalu'
<1>1. CASE \E type \in Types : Takes(c, type)
  <2>1. PICK type \in Types : Takes(c, type)
    BY <1>1
  <2>2. DOMAIN fed \subseteq DOMAIN fed' /\ Len(fed) + 1 \in DOMAIN fed'
    <3>1. /\ DOMAIN fed' = 1 .. Len(fed) + 1 /\ DOMAIN fed = 1 .. Len(fed)
          /\ Len(fed) \in Nat
      BY <2>1, Taken DEF IInv
    <3> QED
      BY <3>1
  <2>3. /\ IsLatest(fed', c, Len(fed) + 1)
        /\ \A d \in Contexts \ {c} : \A k \in DOMAIN fed :
             IsLatest(fed, d, k) => IsLatest(fed', d, k)
    BY <2>1, LatestTaken DEF IInv
  <2> QED
    BY <2>2, <2>3 DEF IInv, AtNalu
<1>2. CASE UNCHANGED fed /\ (pc'[c] \in {"header", "frame"} => pc[c] \in {"header", "frame"})
  BY <1>2 DEF IInv, AtNalu
<1> QED
  BY <1>1, <1>2

LEMMA OneSpsSame ==
  ASSUME IInv, NEW c \in Contexts, UNCHANGED sps_count_flag,
         \A d \in Contexts : context'[d].h264_sps = context[d].h264_sps,
         \A d \in Contexts \ {c} : pc'[d] = pc[d],
         pc'[c] = "header" => pc[c] = "header" \/ context[c].h264_sps # NoSet,
         \/ sps_pps_count_flag' <= 1
         \/ UNCHANGED sps_pps_count_flag /\ (pc'[c] = "header" => pc[c] = "header")
  PROVE  OneSps'
  BY DEF IInv, OneSps

LEMMA OrderedSame ==
  ASSUME IInv, NEW d \in Contexts \ lost,
         wire'[d] = wire[d], pc'[d] = pc[d],
         context'[d].h264_sps_pps_sent = context[d].h264_sps_pps_sent,
         sps_pps_count_flag' \in Nat, sps_pps_count_flag' >= sps_pps_count_flag
  PROVE  Ordered(d)'
<1>1. Ordered(d) /\ sps_pps_count_flag \in Nat
  BY DEF IInv, Announced, TypeOK
<1>2. Headers(d)' = Headers(d)
  BY DEF Headers
<1>3. sps_pps_count_flag >= 1 => sps_pps_count_flag' >= 1
  BY <1>1
<1> QED
  BY <1>1, <1>2, <1>3 DEF Ordered

LEMMA SetStep ==
  ASSUME IInv, NEW c \in Contexts, TakeSps(c) \/ TakePps(c)
  PROVE  IInv'
<1>1. PICK type \in Types : Takes(c, type)
  BY DEF TakeSps, TakePps, Types
<1>2. Len(fed) + 1 \in 1..MaxNalus /\ UNCHANGED <<wire, lost>>
  BY <1>1, Taken DEF IInv
<1>3. UNCHANGED <<sps_pps_count_flag, pc>>
  BY DEF TakeSps, TakePps
<1>4. AtNalu'
  BY <1>1, <1>3, AtNaluStep
<1>5. context \in [Contexts -> Fields]
  BY DEF IInv, TypeOK, Fields
<1>0. PICK k : k = Len(fed) + 1
  OBVIOUS
<1>6. \A d \in Contexts :
        /\ context'[d].h264_sps_pps_sent = context[d].h264_sps_pps_sent
        /\ d # c => context'[d] = context[d]
  <2>1. \/ context' = context
        \/ context' = [context EXCEPT ![c] = KeepsSps(@, k)]
        \/ context' = [context EXCEPT ![c] = KeepsPps(@, k)]
    BY <1>0 DEF TakeSps, TakePps
  <2> QED
    BY <1>5, <2>1, Keeping
<1>7. OneSps'
  <2>1. CASE TakeSps(c) /\ sps_count_flag = 0
    <3>1. sps_count_flag' = 1 /\ \A d \in Contexts : context[d].h264_sps = NoSet
      BY <2>1 DEF TakeSps, IInv, OneSps
    <3>2. context'[c].h264_sps = Len(fed) + 1
      <4>1. context' = [context EXCEPT ![c] = KeepsSps(@, k)]
        BY <1>0, <2>1 DEF TakeSps
      <4> QED
        BY <1>0, <1>5, <4>1, Keeping
    <3>3. \A d \in Contexts : context'[d].h264_sps # NoSet => d = c
      BY <1>6, <3>1
    <3>4. context'[c].h264_sps # NoSet
      BY <1>2, <3>2 DEF NoSet
    <3>5. \A d \in Contexts : pc'[d] # "header"
      BY <1>3, <3>1 DEF IInv, OneSps
    <3> QED
      BY <3>1, <3>3, <3>4, <3>5 DEF OneSps
  <2>2. CASE TakePps(c) \/ sps_count_flag # 0
    <3>1. UNCHANGED sps_count_flag
      BY <2>2 DEF TakeSps, TakePps
    <3>2. \A d \in Contexts : context'[d].h264_sps = context[d].h264_sps
      <4>1. context' = context \/ context' = [context EXCEPT ![c] = KeepsPps(@, k)]
        BY <1>0, <2>2 DEF TakeSps, TakePps
      <4> QED
        BY <1>5, <4>1, Keeping
    <3> QED
      BY <1>3, <3>1, <3>2, OneSpsSame
  <2> QED
    BY <2>1, <2>2
<1>8. Announced'
  BY <1>2, <1>3, <1>6, OrderedSame DEF Announced, IInv, TypeOK
<1> QED
  BY <1>4, <1>7, <1>8, TypesAfterSet DEF IInv

LEMMA SliceStep ==
  ASSUME IInv, NEW c \in Contexts, NEW type \in {"ipb", "aud"}, TakeSlice(c, type)
  PROVE  IInv'
<1>1. Takes(c, type) /\ type \in Types
  BY DEF TakeSlice, Types
<1>2. /\ Len(fed) + 1 \in 1..MaxNalus /\ UNCHANGED <<wire, lost>>
      /\ pc[c] = "demux"
  BY <1>1, Taken DEF IInv
<1>3. UNCHANGED <<sps_count_flag, context>>
  BY DEF TakeSlice
<1>4. pc \in [Contexts -> {"idle", "demux", "header", "frame"}]
  BY DEF IInv, TypeOK
<1>5. \/ pc' = [pc EXCEPT ![c] = "demux"]
      \/ pc' = [pc EXCEPT ![c] = "frame"] /\ context'[c].h264_sps_pps_sent
  <2>1. PICK k \in 1..MaxNalus : k = Len(fed) + 1
    BY <1>2
  <2>2. IpbFrame(c, k, type)
    BY <2>1 DEF TakeSlice
  <2> QED
    BY <2>2, Ipb DEF IInv
<1>6. \A d \in Contexts \ {c} : pc'[d] = pc[d]
  BY <1>4, <1>5
<1>7. /\ sps_pps_count_flag' \in Nat /\ sps_pps_count_flag' >= sps_pps_count_flag
      /\ sps_pps_count_flag' <= 1 \/ UNCHANGED sps_pps_count_flag
  BY DEF TakeSlice, FlagAfter, IInv, TypeOK
<1>8. AtNalu'
  BY <1>1, <1>6, AtNaluStep
<1>9. OneSps'
  <2>1. pc'[c] # "header"
    BY <1>4, <1>5
  <2> QED
    BY <1>3, <1>6, <1>7, <2>1, OneSpsSame
<1>10. ASSUME c \notin lost PROVE Ordered(c)'
  <2>1. Ordered(c)
    BY <1>10 DEF IInv, Announced
  <2>2. Headers(c)' = Headers(c)
    BY <1>2 DEF Headers
  <2>3. wire[c] # << >> => sps_pps_count_flag' >= 1
    BY <1>7, <2>1 DEF Ordered, IInv, TypeOK
  <2>4. context[c].h264_sps_pps_sent => wire[c] # << >>
    BY <1>2, <2>1 DEF Ordered
  <2>5. pc'[c] # "header" /\ (pc'[c] = "frame" => context[c].h264_sps_pps_sent)
    BY <1>3, <1>4, <1>5
  <2> QED
    BY <1>2, <1>3, <2>1, <2>2, <2>3, <2>4, <2>5 DEF Ordered
<1>11. Announced'
  BY <1>2, <1>3, <1>6, <1>7, <1>10, OrderedSame DEF Announced
<1> QED
  BY <1>8, <1>9, <1>11, TypesAfterSlice DEF IInv

LEMMA HeaderDueStep ==
  ASSUME IInv, NEW c \in Contexts, NEW type \in {"ipb", "aud"}, TakeSliceHeaderDue(c, type)
  PROVE  IInv'
<1>1. Takes(c, type) /\ type \in Types
  BY DEF TakeSliceHeaderDue, Types
<1>2. UNCHANGED <<wire, lost>> /\ pc[c] = "demux"
  BY <1>1, Taken DEF IInv
<1>3. sps_pps_count_flag = 0 /\ UNCHANGED flags
  BY DEF TakeSliceHeaderDue, HeaderDue
<1>4. pc \in [Contexts -> {"idle", "demux", "header", "frame"}]
      /\ context \in [Contexts -> Fields]
  BY DEF IInv, TypeOK, Fields
<1>5. /\ \A d \in Contexts \ {c} : pc'[d] = pc[d] /\ context'[d] = context[d]
      /\ \A d \in Contexts : context'[d].h264_sps = context[d].h264_sps
      /\ \/ pc'[c] = "demux" /\ context'[c] = context[c]
         \/ pc'[c] = "header" /\ context[c].h264_sps # NoSet
  <2>1. CASE context[c].h264_sps = NoSet
    BY <1>2, <2>1 DEF TakeSliceHeaderDue
  <2>2. CASE context[c].h264_sps # NoSet
    <3>1. PICK x \in Fields : x = [context[c] EXCEPT !.h264_sps_changed = FALSE,
            !.h264_pps_changed = FALSE, !.h264_sps_pps_sent = TRUE]
      BY <1>4 DEF Fields
    <3>2. x.h264_sps = context[c].h264_sps
      BY <1>4, <3>1 DEF Fields
    <3>3. context' = [context EXCEPT ![c] = x] /\ pc' = [pc EXCEPT ![c] = "header"]
      BY <2>2, <3>1 DEF TakeSliceHeaderDue
    <3> QED
      BY <1>4, <2>2, <3>2, <3>3
  <2> QED
    BY <2>1, <2>2
<1>6. AtNalu'
  BY <1>1, <1>5, AtNaluStep
<1>7. OneSps'
  <2>1. sps_pps_count_flag' <= 1
    BY <1>3 DEF flags
  <2> QED
    BY <1>3, <1>5, <2>1, OneSpsSame DEF flags
<1>8. ASSUME c \notin lost PROVE Ordered(c)'
  <2>1. Ordered(c)
    BY <1>8 DEF IInv, Announced
  <2>2. wire[c] = << >>
    BY <1>3, <2>1 DEF Ordered
  <2> QED
    BY <1>2, <1>5, <2>1, <2>2 DEF Ordered
<1>9. \A d \in Contexts \ {c} : d \notin lost => Ordered(d)'
  <2>1. sps_pps_count_flag' \in Nat /\ sps_pps_count_flag' >= sps_pps_count_flag
    BY <1>3 DEF flags
  <2> QED
    BY <1>2, <1>5, <2>1, OrderedSame
<1>10. Announced'
  BY <1>2, <1>8, <1>9 DEF Announced
<1> QED
  BY <1>6, <1>7, <1>10, TypesAfterSlice DEF IInv

LEMMA WriteHeaderStep ==
  ASSUME IInv, NEW c \in Contexts, WriteHeader(c)
  PROVE  IInv'
<1>1. pc[c] = "header" /\ UNCHANGED <<sps_count_flag, context, fed, lost>>
      /\ sps_pps_count_flag' = sps_pps_count_flag + 1
  BY DEF WriteHeader
<1>2. pc \in [Contexts -> {"idle", "demux", "header", "frame"}] /\ sps_pps_count_flag \in Nat
  BY DEF IInv, TypeOK
<1>3. \/ pc' = [pc EXCEPT ![c] = "demux"]
      \/ pc' = [pc EXCEPT ![c] = "frame"]
  <2>1. PICK k \in 1..MaxNalus : k = Latest(c)
    BY <1>1, HeaderItem DEF IInv
  <2>2. PICK type : type = fed[Latest(c)].type
    OBVIOUS
  <2>3. IpbFrame(c, k, type)
    BY <2>1, <2>2 DEF WriteHeader
  <2> QED
    BY <2>3, Ipb DEF IInv
<1>4. /\ \A d \in Contexts \ {c} : pc'[d] = pc[d]
      /\ pc'[c] \in {"demux", "frame"}
  BY <1>2, <1>3
<1>5. AtNalu'
  BY <1>1, <1>4, AtNaluStep
<1>6. context[c].h264_sps # NoSet /\ \A d \in Contexts \ {c} : pc'[d] # "header"
  BY <1>1, <1>4 DEF IInv, OneSps
<1>7. OneSps'
  BY <1>1, <1>4, <1>6 DEF IInv, OneSps
<1>8. PICK item \in Items :
        item = [what |-> "header", sps |-> context[c].h264_sps, pps |-> context[c].h264_pps]
  BY <1>1, HeaderItem DEF IInv
<1>9. Writes(c, item)
  BY <1>8 DEF WriteHeader
<1>10. /\ DOMAIN wire[c] = 1 .. Len(wire[c]) /\ DOMAIN wire'[c] = 1 .. Len(wire[c]) + 1
       /\ wire'[c][Len(wire[c]) + 1] = item /\ wire'[c] # << >>
       /\ \A d \in Contexts \ {c} : wire'[d] = wire[d]
  BY <1>9, Written DEF IInv
<1>11. ASSUME c \notin lost PROVE Ordered(c)'
  <2>1. wire[c] = << >>
    BY <1>1, <1>11 DEF IInv, Announced, Ordered
  <2>2. DOMAIN wire'[c] = {1} /\ wire'[c][1] = item
    BY <1>10, <2>1
  <2>3. item.what = "header" /\ item.sps # NoSet
    BY <1>6, <1>8
  <2>4. Headers(c)' = {1}
    BY <2>2, <2>3 DEF Headers
  <2>5. sps_pps_count_flag' >= 1
    BY <1>1, <1>2
  <2> QED
    BY <1>4, <1>10, <2>2, <2>3, <2>4, <2>5 DEF Ordered
<1>12. \A d \in Contexts \ {c} : d \notin lost => Ordered(d)'
  <2>1. sps_pps_count_flag' \in Nat /\ sps_pps_count_flag' >= sps_pps_count_flag
    BY <1>1, <1>2
  <2> QED
    BY <1>1, <1>4, <1>10, <2>1, OrderedSame
<1>13. Announced'
  BY <1>1, <1>11, <1>12 DEF Announced
<1> QED
  BY <1>5, <1>7, <1>13, TypesAfterWrite DEF IInv

LEMMA WriteFrameStep ==
  ASSUME IInv, NEW c \in Contexts, WriteFrame(c)
  PROVE  IInv'
<1>1. pc[c] = "frame" /\ UNCHANGED <<flags, context, fed, lost>>
  BY DEF WriteFrame
<1>2. pc \in [Contexts -> {"idle", "demux", "header", "frame"}] /\ sps_pps_count_flag \in Nat
  BY DEF IInv, TypeOK
<1>3. pc'[c] = "demux" /\ \A d \in Contexts \ {c} : pc'[d] = pc[d]
  BY <1>2 DEF WriteFrame
<1>4. AtNalu'
  BY <1>1, <1>3, AtNaluStep
<1>5. OneSps'
  BY <1>1, <1>3, OneSpsSame DEF flags
<1>6. PICK item \in Items : item = [what |-> "frame", k |-> Latest(c)]
  BY <1>1, HeaderItem DEF IInv
<1>7. Writes(c, item) /\ item.what = "frame"
  BY <1>6 DEF WriteFrame
<1>8. /\ Len(wire[c]) \in Nat
      /\ DOMAIN wire[c] = 1 .. Len(wire[c]) /\ DOMAIN wire'[c] = 1 .. Len(wire[c]) + 1
      /\ \A n \in DOMAIN wire[c] : wire'[c][n] = wire[c][n]
      /\ wire'[c][Len(wire[c]) + 1] = item /\ wire'[c] # << >>
      /\ \A d \in Contexts \ {c} : wire'[d] = wire[d]
  BY <1>7, Written DEF IInv
<1>9. ASSUME c \notin lost PROVE Ordered(c)'
  <2>1. /\ wire[c] # << >> /\ Headers(c) = {1} /\ wire[c][1].sps # NoSet
        /\ sps_pps_count_flag >= 1
    BY <1>1, <1>9 DEF IInv, Announced, Ordered
  <2>2. 1 \in DOMAIN wire[c]
    BY <2>1 DEF Headers
  <2>3. \A n \in DOMAIN wire'[c] : n \in DOMAIN wire[c] \/ n = Len(wire[c]) + 1
    BY <1>8
  <2>4. Len(wire[c]) + 1 \notin DOMAIN wire[c] /\ DOMAIN wire[c] \subseteq DOMAIN wire'[c]
    BY <1>8
  <2>5. \A n \in DOMAIN wire'[c] : wire'[c][n].what = "header" <=> n \in Headers(c)
    BY <1>7, <1>8, <2>3, <2>4 DEF Headers
  <2>6. Headers(c)' = {1}
    BY <2>1, <2>2, <2>4, <2>5 DEF Headers
  <2> QED
    BY <1>1, <1>3, <1>8, <2>1, <2>2, <2>6 DEF Ordered, flags
<1>10. \A d \in Contexts \ {c} : d \notin lost => Ordered(d)'
  <2>1. sps_pps_count_flag' \in Nat /\ sps_pps_count_flag' >= sps_pps_count_flag
    BY <1>1, <1>2 DEF flags
  <2> QED
    BY <1>1, <1>3, <1>8, <2>1, OrderedSame
<1>11. Announced'
  BY <1>1, <1>9, <1>10 DEF Announced
<1> QED
  BY <1>4, <1>5, <1>11, TypesAfterWrite DEF IInv

LEMMA OtherStep ==
  ASSUME IInv, NEW c \in Contexts, Call(c) \/ WriteFails(c) \/ Return(c)
  PROVE  IInv'
<1>1. UNCHANGED <<flags, context, fed, wire>> /\ lost \subseteq lost'
  BY DEF Call, WriteFails, Return
<1>2. pc \in [Contexts -> {"idle", "demux", "header", "frame"}] /\ sps_pps_count_flag \in Nat
  BY DEF IInv, TypeOK
<1>3. pc'[c] \in {"idle", "demux"} /\ \A d \in Contexts \ {c} : pc'[d] = pc[d]
  BY <1>2 DEF Call, WriteFails, Return
<1>4. AtNalu'
  BY <1>1, <1>3, AtNaluStep
<1>5. OneSps'
  BY <1>1, <1>3, OneSpsSame DEF flags
<1>6. ASSUME c \notin lost' PROVE Ordered(c)'
  <2>1. pc[c] \notin {"header", "frame"} /\ c \notin lost
    BY <1>6 DEF Call, WriteFails, Return
  <2>2. Ordered(c)
    BY <2>1 DEF IInv, Announced
  <2>3. Headers(c)' = Headers(c)
    BY <1>1 DEF Headers
  <2> QED
    BY <1>1, <1>3, <2>1, <2>2, <2>3 DEF Ordered, flags
<1>7. \A d \in Contexts \ {c} : d \notin lost => Ordered(d)'
  <2>1. sps_pps_count_flag' \in Nat /\ sps_pps_count_flag' >= sps_pps_count_flag
    BY <1>1, <1>2 DEF flags
  <2> QED
    BY <1>1, <1>3, <2>1, OrderedSame
<1>8. Announced'
  BY <1>1, <1>6, <1>7 DEF Announced
<1> QED
  BY <1>4, <1>5, <1>8, TypesOtherwise DEF IInv

LEMMA Steps == IInv /\ [Next]_vars => IInv'
<1> SUFFICES ASSUME IInv, [Next]_vars PROVE IInv'
  OBVIOUS
<1>1. CASE UNCHANGED vars
  BY <1>1 DEF IInv, TypeOK, AtNalu, OneSps, Announced, Ordered, Headers, vars, flags
<1>2. CASE Next
  <2>1. PICK c \in Contexts :
          \/ TakeSps(c) \/ TakePps(c)
          \/ \E type \in {"ipb", "aud"} : TakeSlice(c, type) \/ TakeSliceHeaderDue(c, type)
          \/ WriteHeader(c) \/ WriteFrame(c)
          \/ Call(c) \/ WriteFails(c) \/ Return(c)
    BY <1>2 DEF Next
  <2> QED
    BY <2>1, SetStep, SliceStep, HeaderDueStep, WriteHeaderStep, WriteFrameStep, OtherStep
<1> QED
  BY <1>1, <1>2

(* One context of the program at most has an SPS and writes a header, and  *)
(* while the writes succeed a context knows what is on its wire.           *)
THEOREM Invariance == Spec => []IInv
  BY Begins, Steps, PTL DEF Spec

(* Types, for any number of contexts: the counts of the three static flags *)
(* stay within two although they are shared.                               *)
THEOREM TypeCorrect == Spec => []TypeOK
<1>1. IInv => TypeOK
  BY DEF IInv
<1> QED
  BY <1>1, Invariance, PTL

(* Without a failed write, the slices of a connection follow its one       *)
(* sequence header with an SPS, however many contexts share the flags.     *)
THEOREM SlicesFollowOneHeader == Spec => []HeaderFirst
<1>1. IInv => HeaderFirst
  BY DEF IInv, Announced, Ordered, HeaderFirst
<1> QED
  BY <1>1, Invariance, PTL

-----------------------------------------------------------------------------
(* Success means published.  While a call has nothing to report, each of   *)
(* the slices it took is on the wire, or it is about to write it.          *)

Out(k) ==
  \E i \in DOMAIN wire[fed[k].ctx] : wire[fed[k].ctx][i] = [what |-> "frame", k |-> k]

AboutTo(c, k) == pc[c] \in {"header", "frame"} /\ IsLatest(fed, c, k)

Kept(c) ==
  pc[c] # "idle" /\ ret[c] = "ok" =>
    \A k \in Slices(c, since[c]) : Out(k) \/ AboutTo(c, k)

Promises ==
  /\ \A k \in okd : k \in DOMAIN fed /\ Out(k)
  /\ ~aborted => \A c \in Contexts : Kept(c)

(* NALUs are only added to what was fed, and items to the wire of c.       *)
OnlyAdds(c) ==
  \/ UNCHANGED fed /\ (UNCHANGED wire \/ \E item \in Items : Writes(c, item))
  \/ \E type \in Types : Takes(c, type)

LEMMA OutStays ==
  ASSUME IInv, NEW c \in Contexts, OnlyAdds(c), NEW k \in DOMAIN fed, Out(k)
  PROVE  k \in DOMAIN fed' /\ fed'[k] = fed[k] /\ Out(k)'
<1>1. fed[k].ctx \in Contexts
  <2>1. fed \in Seq(Nalus)
    BY DEF IInv, TypeOK, Nalus
  <2>2. fed[k] \in Nalus
    BY <2>1
  <2> QED
    BY <2>2 DEF Nalus
<1>2. k \in DOMAIN fed' /\ fed'[k] = fed[k]
  <2>1. CASE \E type \in Types : Takes(c, type)
    <3>1. /\ DOMAIN fed' = 1 .. Len(fed) + 1 /\ DOMAIN fed = 1 .. Len(fed)
          /\ Len(fed) \in Nat /\ \A j \in DOMAIN fed : fed'[j] = fed[j]
      BY <2>1, Taken DEF IInv
    <3> QED
      BY <3>1
  <2> QED
    BY <2>1 DEF OnlyAdds
<1>3. \A d \in Contexts : \A i \in DOMAIN wire[d] :
        i \in DOMAIN wire'[d] /\ wire'[d][i] = wire[d][i]
  <2>1. CASE UNCHANGED wire
    BY <2>1
  <2>2. CASE \E item \in Items : Writes(c, item)
    <3>1. /\ Len(wire[c]) \in Nat /\ DOMAIN wire[c] = 1 .. Len(wire[c])
          /\ DOMAIN wire'[c] = 1 .. Len(wire[c]) + 1
          /\ \A n \in DOMAIN wire[c] : wire'[c][n] = wire[c][n]
          /\ \A d \in Contexts \ {c} : wire'[d] = wire[d]
      BY <2>2, Written DEF IInv
    <3>2. DOMAIN wire[c] \subseteq DOMAIN wire'[c]
      BY <3>1
    <3> QED
      BY <3>1, <3>2
  <2> QED
    BY <2>1, <2>2 DEF OnlyAdds, Takes
<1> QED
  BY <1>1, <1>2, <1>3 DEF Out

LEMMA SlicesAreFed ==
  ASSUME IInv, NEW c \in Contexts, NEW k \in Slices(c, since[c])
  PROVE  k \in DOMAIN fed /\ fed[k].ctx = c /\ fed[k].type = "ipb"
<1>1. since[c] \in Nat /\ DOMAIN fed = 1 .. Len(fed) /\ Len(fed) \in Nat
  BY H264Assumption DEF IInv, TypeOK
<1> QED
  BY <1>1 DEF Slices

(* The slices of the context d after a step of c.                          *)
LEMMA SlicesAfter ==
  ASSUME IInv, NEW c \in Contexts, NEW type \in Types, Takes(c, type), NEW d \in Contexts
  PROVE  /\ Slices(d, since[d])' \subseteq Slices(d, since[d]) \cup {Len(fed) + 1}
         /\ d # c \/ type # "ipb" => Slices(d, since[d])' \subseteq Slices(d, since[d])
<1>1. /\ DOMAIN fed = 1 .. Len(fed) /\ Len(fed') = Len(fed) + 1 /\ Len(fed) \in Nat
      /\ \A j \in DOMAIN fed : fed'[j] = fed[j]
      /\ fed'[Len(fed) + 1] = [ctx |-> c, type |-> type] /\ since' = since
  BY Taken DEF IInv
<1>2. PICK n \in Nat : n = Len(fed)
  BY <1>1
<1>3. PICK m \in Nat : m = since[d]
  BY H264Assumption DEF IInv, TypeOK
<1>4. fed'[n + 1].ctx = c /\ fed'[n + 1].type = type
  BY <1>1, <1>2
<1>5. ASSUME NEW k \in Slices(d, since[d])'
      PROVE  /\ k \in Slices(d, since[d]) \cup {n + 1}
             /\ d # c \/ type # "ipb" => k \in Slices(d, since[d])
  <2>1. k \in m + 1 .. n + 1 /\ fed'[k].ctx = d /\ fed'[k].type = "ipb"
    BY <1>1, <1>2, <1>3, <1>5 DEF Slices
  <2>2. CASE k = n + 1
    BY <1>4, <2>1, <2>2
  <2>3. CASE k # n + 1
    <3>1. k \in m + 1 .. n /\ k \in DOMAIN fed
      BY <1>1, <1>2, <2>1, <2>3
    <3> QED
      BY <1>1, <1>2, <1>3, <2>1, <3>1 DEF Slices
  <2> QED
    BY <2>2, <2>3
<1> QED
  BY <1>2, <1>5

LEMMA KeptByOthers ==
  ASSUME IInv, NEW c \in Contexts, OnlyAdds(c), NEW d \in Contexts \ {c}, Kept(d),
         pc'[d] = pc[d], ret'[d] = ret[d], since'[d] = since[d]
  PROVE  Kept(d)'
<1> SUFFICES ASSUME pc[d] # "idle", ret[d] = "ok", NEW k \in Slices(d, since[d])'
             PROVE  Out(k)' \/ AboutTo(d, k)'
  BY DEF Kept
<1>1. k \in Slices(d, since[d])
  <2>1. CASE UNCHANGED fed
    BY <2>1 DEF Slices
  <2>2. CASE \E type \in Types : Takes(c, type)
    BY <2>2, SlicesAfter
  <2> QED
    BY <2>1, <2>2 DEF OnlyAdds
<1>2. Out(k) \/ AboutTo(d, k)
  BY <1>1 DEF Kept
<1>3. k \in DOMAIN fed
  BY <1>1, SlicesAreFed
<1>4. CASE Out(k)
  BY <1>3, <1>4, OutStays
<1>5. CASE AboutTo(d, k)
  <2>1. IsLatest(fed', d, k)
    BY <1>3, <1>5, LatestTaken DEF OnlyAdds, AboutTo, IInv
  <2> QED
    BY <1>5, <2>1 DEF AboutTo
<1> QED
  BY <1>2, <1>4, <1>5

(* What remains to be shown of a step of c.                                *)
LEMMA PromisesStep ==
  ASSUME IInv, Promises, ~aborted, NEW c \in Contexts, OnlyAdds(c), UNCHANGED okd,
         \A d \in Contexts \ {c} : pc'[d] = pc[d] /\ ret'[d] = ret[d] /\ since'[d] = since[d],
         ~aborted' => Kept(c)'
  PROVE  Promises'
<1>1. \A d \in Contexts \ {c} : Kept(d)'
  BY KeptByOthers DEF Promises
<1>2. \A k \in okd : k \in DOMAIN fed' /\ Out(k)'
  BY OutStays DEF Promises
<1> QED
  BY <1>1, <1>2 DEF Promises

LEMMA PromisesAfterTake ==
  ASSUME IInv, Promises, NEW c \in Contexts, NEW type \in Types, Takes(c, type),
         \A d \in Contexts \ {c} : pc'[d] = pc[d] /\ ret'[d] = ret[d],
         ret'[c] = "ok" => ret[c] = "ok",
         \/ type # "ipb" \/ ret'[c] # "ok" \/ aborted'
         \/ pc'[c] \in {"header", "frame"}
  PROVE  Promises'
<1>1. /\ pc[c] = "demux" /\ ~aborted /\ UNCHANGED <<since, okd>>
  BY Taken DEF IInv
<1>2. OnlyAdds(c)
  BY DEF OnlyAdds
<1>3. ASSUME ~aborted' PROVE Kept(c)'
  <2> SUFFICES ASSUME ret'[c] = "ok", NEW k \in Slices(c, since[c])'
               PROVE  Out(k)' \/ AboutTo(c, k)'
    BY DEF Kept
  <2>1. CASE k \in Slices(c, since[c])
    <3>1. Out(k)
      BY <1>1, <2>1 DEF Promises, Kept, AboutTo
    <3> QED
      BY <1>2, <2>1, <3>1, OutStays, SlicesAreFed
  <2>2. CASE k \notin Slices(c, since[c])
    <3>1. type = "ipb" /\ k = Len(fed) + 1
      BY <2>2, SlicesAfter
    <3>2. pc'[c] \in {"header", "frame"}
      BY <1>3, <3>1
    <3>3. IsLatest(fed', c, k)
      BY <3>1, LatestTaken DEF IInv
    <3> QED
      BY <3>2, <3>3 DEF AboutTo
  <2> QED
    BY <2>1, <2>2
<1> QED
  BY <1>1, <1>2, <1>3, PromisesStep

LEMMA PromisesAfterWrite ==
  ASSUME IInv, Promises, NEW c \in Contexts, WriteHeader(c) \/ WriteFrame(c)
  PROVE  Promises'
<1>1. /\ pc[c] \in {"header", "frame"} /\ ~aborted
      /\ UNCHANGED <<fed, since, okd, aborted>>
  BY DEF WriteHeader, WriteFrame
<1>2. /\ pc \in [Contexts -> {"idle", "demux", "header", "frame"}]
      /\ ret \in [Contexts -> {"ok", "dropped", "failed"}]
  BY DEF IInv, TypeOK
<1>3. PICK l \in DOMAIN fed : l = Latest(c) /\ l \in 1..MaxNalus /\ IsLatest(fed, c, l)
  BY <1>1, HeaderItem DEF IInv
<1>4. Kept(c)
  BY <1>1 DEF Promises
<1>5. \A k : AboutTo(c, k) => k = l
  BY <1>3, LatestIs DEF AboutTo, IInv
<1>6. \A k \in Slices(c, since[c]) : k \in DOMAIN fed /\ fed[k].type = "ipb"
  BY SlicesAreFed
<1>7. Slices(c, since[c])' = Slices(c, since[c])
  BY <1>1 DEF Slices
<1>8. CASE WriteHeader(c)
  <2>1. OnlyAdds(c)
    BY <1>1, <1>8, HeaderItem DEF OnlyAdds, WriteHeader, IInv
  <2>2. PICK type : type = fed[l].type
    OBVIOUS
  <2>3. IpbFrame(c, l, type)
    BY <1>3, <1>8, <2>2 DEF WriteHeader
  <2>4. /\ \/ pc' = [pc EXCEPT ![c] = "demux"] /\ (type = "ipb" => ret'[c] = "dropped")
           \/ pc' = [pc EXCEPT ![c] = "frame"]
        /\ \A d \in Contexts \ {c} : ret'[d] = ret[d]
        /\ ret'[c] # "dropped" => ret'[c] = ret[c]
    BY <1>3, <2>3, Ipb DEF IInv
  <2>5. \A d \in Contexts \ {c} : pc'[d] = pc[d]
    BY <1>2, <2>4
  <2>6. Kept(c)'
    <3> SUFFICES ASSUME ret'[c] = "ok", NEW k \in Slices(c, since[c])
                 PROVE  Out(k)' \/ AboutTo(c, k)'
      BY <1>7 DEF Kept
    <3>1. ret[c] = "ok" /\ pc[c] # "idle"
      BY <1>1, <2>4
    <3>2. Out(k) \/ AboutTo(c, k)
      BY <1>4, <3>1 DEF Kept
    <3>3. CASE Out(k)
      BY <1>6, <2>1, <3>3, OutStays
    <3>4. CASE AboutTo(c, k)
      <4>1. k = l /\ type = "ipb"
        BY <1>5, <1>6, <2>2, <3>4
      <4>2. pc'[c] = "frame"
        BY <1>2, <2>4, <4>1
      <4> QED
        BY <1>1, <1>3, <4>1, <4>2 DEF AboutTo
    <3> QED
      BY <3>2, <3>3, <3>4
  <2> QED
    BY <1>1, <2>1, <2>4, <2>5, <2>6, PromisesStep
<1>9. CASE WriteFrame(c)
  <2>1. PICK item \in Items : item = [what |-> "frame", k |-> l] /\ Writes(c, item)
    BY <1>1, <1>3, <1>9, HeaderItem DEF WriteFrame, IInv
  <2>2. OnlyAdds(c)
    BY <1>1, <2>1 DEF OnlyAdds
  <2>3. Out(l)'
    <3>1. /\ Len(wire[c]) \in Nat /\ DOMAIN wire'[c] = 1 .. Len(wire[c]) + 1
          /\ wire'[c][Len(wire[c]) + 1] = item
      BY <2>1, Written DEF IInv
    <3>2. Len(wire[c]) + 1 \in DOMAIN wire'[c]
      BY <3>1
    <3>3. fed'[l].ctx = c
      BY <1>1, <1>3 DEF IsLatest
    <3> QED
      BY <2>1, <3>1, <3>2, <3>3 DEF Out
  <2>4. ret' = ret /\ pc' = [pc EXCEPT ![c] = "demux"]
    BY <1>9 DEF WriteFrame
  <2>5. \A d \in Contexts \ {c} : pc'[d] = pc[d]
    BY <1>2, <2>4
  <2>6. Kept(c)'
    <3> SUFFICES ASSUME ret[c] = "ok", NEW k \in Slices(c, since[c])
                 PROVE  Out(k)'
      BY <1>7, <2>4 DEF Kept
    <3>1. Out(k) \/ AboutTo(c, k)
      BY <1>1, <1>4 DEF Kept
    <3> QED
      BY <1>5, <1>6, <2>2, <2>3, <3>1, OutStays
  <2> QED
    BY <1>1, <2>2, <2>4, <2>5, <2>6, PromisesStep
<1> QED
  BY <1>8, <1>9

LEMMA PromisesOtherwise ==
  ASSUME IInv, Promises, NEW c \in Contexts, Call(c) \/ WriteFails(c) \/ Return(c)
  PROVE  Promises'
<1>1. ~aborted /\ UNCHANGED <<fed, wire, aborted>>
  BY DEF Call, WriteFails, Return
<1>2. /\ pc \in [Contexts -> {"idle", "demux", "header", "frame"}]
      /\ ret \in [Contexts -> {"ok", "dropped", "failed"}]
      /\ since \in [Contexts -> 0..MaxNalus]
  BY DEF IInv, TypeOK
<1>3. \A d \in Contexts \ {c} : pc'[d] = pc[d] /\ ret'[d] = ret[d] /\ since'[d] = since[d]
  BY <1>2 DEF Call, WriteFails, Return
<1>4. OnlyAdds(c)
  BY <1>1 DEF OnlyAdds
<1>5. CASE Call(c)
  <2>1. since'[c] = Len(fed) /\ Len(fed) \in Nat
    BY <1>2, <1>5 DEF Call, IInv, TypeOK
  <2>2. Slices(c, since[c])' = {}
    BY <1>1, <2>1 DEF Slices
  <2>3. Kept(c)' /\ UNCHANGED okd
    BY <1>5, <2>2 DEF Kept, Call
  <2> QED
    BY <1>1, <1>3, <1>4, <2>3, PromisesStep
<1>6. CASE WriteFails(c)
  <2>1. Kept(c)' /\ UNCHANGED okd
    BY <1>2, <1>6 DEF Kept, WriteFails
  <2> QED
    BY <1>1, <1>3, <1>4, <2>1, PromisesStep
<1>7. CASE Return(c)
  <2>1. pc[c] = "demux" /\ pc'[c] = "idle"
    BY <1>2, <1>7 DEF Return
  <2>2. \A d \in Contexts : Kept(d)'
    <3>1. Kept(c)'
      BY <2>1 DEF Kept
    <3> QED
      BY <1>1, <1>3, <1>4, <3>1, KeptByOthers DEF Promises
  <2>3. ASSUME NEW k \in okd' PROVE k \in DOMAIN fed /\ Out(k)
    <3>1. k \in okd \/ (ret[c] = "ok" /\ k \in Slices(c, since[c]))
      BY <1>7, <2>3 DEF Return
    <3>2. CASE k \in okd
      BY <3>2 DEF Promises
    <3>3. CASE ret[c] = "ok" /\ k \in Slices(c, since[c])
      BY <1>1, <2>1, <3>3, SlicesAreFed DEF Promises, Kept, AboutTo
    <3> QED
      BY <3>1, <3>2, <3>3
  <2> QED
    BY <1>1, <1>4, <2>2, <2>3, OutStays DEF Promises
<1> QED
  BY <1>5, <1>6, <1>7

LEMMA PromisesKept == IInv /\ Promises /\ [Next]_vars => Promises'
<1> SUFFICES ASSUME IInv, Promises, [Next]_vars PROVE Promises'
  OBVIOUS
<1>1. CASE UNCHANGED vars
  BY <1>1 DEF Promises, Kept, Out, AboutTo, Slices, vars, flags
<1>2. ASSUME NEW c \in Contexts, TakeSps(c) \/ TakePps(c) PROVE Promises'
  <2>1. PICK type \in Types : Takes(c, type) /\ type # "ipb"
    BY <1>2 DEF TakeSps, TakePps, Types
  <2> QED
    BY <1>2, <2>1, PromisesAfterTake DEF TakeSps, TakePps
<1>3. ASSUME NEW c \in Contexts, NEW type \in {"ipb", "aud"}, TakeSlice(c, type)
      PROVE  Promises'
  <2>1. Takes(c, type) /\ type \in Types
    BY <1>3 DEF TakeSlice, Types
  <2>2. PICK k \in 1..MaxNalus : k = Len(fed) + 1
    BY <2>1, Taken DEF IInv
  <2>3. IpbFrame(c, k, type)
    BY <1>3, <2>2 DEF TakeSlice
  <2>4. pc \in [Contexts -> {"idle", "demux", "header", "frame"}]
    BY DEF IInv, TypeOK
  <2>5. /\ \/ pc' = [pc EXCEPT ![c] = "demux"] /\ (type = "ipb" => ret'[c] = "dropped")
           \/ pc' = [pc EXCEPT ![c] = "frame"]
        /\ \A d \in Contexts \ {c} : ret'[d] = ret[d]
        /\ ret'[c] # "dropped" => ret'[c] = ret[c]
    BY <2>3, Ipb DEF IInv
  <2>6. /\ \A d \in Contexts \ {c} : pc'[d] = pc[d] /\ ret'[d] = ret[d]
        /\ ret'[c] = "ok" => ret[c] = "ok"
        /\ type # "ipb" \/ ret'[c] # "ok" \/ pc'[c] \in {"header", "frame"}
    BY <2>4, <2>5
  <2> QED
    BY <2>1, <2>6, PromisesAfterTake
<1>4. ASSUME NEW c \in Contexts, NEW type \in {"ipb", "aud"}, TakeSliceHeaderDue(c, type)
      PROVE  Promises'
  <2>1. Takes(c, type) /\ type \in Types /\ ret' = ret
    BY <1>4 DEF TakeSliceHeaderDue, Types
  <2>2. pc \in [Contexts -> {"idle", "demux", "header", "frame"}]
    BY DEF IInv, TypeOK
  <2>3. /\ \A d \in Contexts \ {c} : pc'[d] = pc[d]
        /\ aborted' \/ pc'[c] = "header"
    BY <1>4, <2>2 DEF TakeSliceHeaderDue
  <2> QED
    BY <2>1, <2>3, PromisesAfterTake
<1> QED
  BY <1>1, <1>2, <1>3, <1>4, PromisesAfterWrite, PromisesOtherwise DEF Next

(* A call that returns success has written every slice it was given, with  *)
(* any number of contexts that give way to each other in the writes.       *)
THEOREM SuccessMeansPublished == Spec => []SuccessIsPublished
<1>1. Init => Promises
  BY DEF Init, Promises, Kept
<1>2. Promises => SuccessIsPublished
  BY DEF Promises, Out, SuccessIsPublished
<1>3. Spec => []Promises
  BY <1>1, PromisesKept, Invariance, PTL DEF Spec
<1> QED
  BY <1>2, <1>3, PTL

-----------------------------------------------------------------------------
(* The connection that opens the program in order.  Its first two NALUs    *)
(* are one set of each type, which are kept, and nobody has looked at a    *)
(* slice before the third.                                                 *)

Sets == {"sps", "pps"}
SetOf(x, type) == IF type = "sps" THEN x.h264_sps ELSE x.h264_pps
CountOf(type) == IF type = "sps" THEN sps_count_flag ELSE pps_count_flag

Opens(c) ==
  /\ \A k \in DOMAIN fed : k <= 2 => fed[k].ctx = c /\ fed[k].type \in Sets
  /\ Len(fed) >= 2 => fed[1].type # fed[2].type

SetsKept(c) ==
  \A k \in DOMAIN fed : k <= 2 => SetOf(context[c], fed[k].type) = k /\ CountOf(fed[k].type) # 0

NoSliceYet(c) ==
  Len(fed) <= 2 =>
    /\ sps_pps_count_flag = 0 /\ dropped = {}
    /\ \A d \in Contexts : wire[d] = << >> /\ pc[d] \in {"idle", "demux"}
    /\ \A type \in Sets : (\A k \in DOMAIN fed : fed[k].type # type) => CountOf(type) = 0
    /\ Len(fed) > 0 => Changed(c)

ThirdIsSlice(c) == Len(fed) >= 3 /\ fed[3].ctx = c /\ fed[3].type \in {"ipb", "aud"}

Flowing(c) ==
  /\ context[c].h264_sps_pps_sent
  /\ \A k \in dropped : fed[k].ctx # c
  /\ \A n \in Headers(c) : {wire[c][n].sps, wire[c][n].pps} = {1, 2}

Opening(c) ==
  Opens(c) => SetsKept(c) /\ NoSliceYet(c) /\ (ThirdIsSlice(c) => Flowing(c))

InOrder ==
  /\ dropped \subseteq DOMAIN fed
  /\ \A c \in Contexts : Opening(c)

(* How one more NALU of the context e leaves the beginning of the program. *)
LEMMA OpensTaken ==
  ASSUME TypeOK, NEW e \in Contexts, NEW type \in Types, Takes(e, type),
         NEW c \in Contexts, Opens(c)'
  PROVE  /\ Opens(c)
         /\ Len(fed) < 2 => /\ e = c /\ type \in Sets
                            /\ \A k \in DOMAIN fed : fed[k].type # type
         /\ Len(fed) >= 2 => \A ty \in Sets : \E k \in DOMAIN fed : k <= 2 /\ fed[k].type = ty
         /\ Len(fed) >= 3 => (ThirdIsSlice(c)' => ThirdIsSlice(c))
         /\ Len(fed) = 2 => (ThirdIsSlice(c)' => e = c /\ type \in {"ipb", "aud"})
<1>1. /\ Len(fed') = Len(fed) + 1 /\ Len(fed) \in Nat
      /\ DOMAIN fed' = 1 .. Len(fed) + 1 /\ DOMAIN fed = 1 .. Len(fed)
      /\ \A k \in DOMAIN fed : fed'[k] = fed[k]
      /\ fed'[Len(fed) + 1].ctx = e /\ fed'[Len(fed) + 1].type = type
  <2>1. fed'[Len(fed) + 1] = [ctx |-> e, type |-> type]
    BY Taken
  <2> QED
    BY <2>1, Taken
<1>2. PICK n \in Nat : n = Len(fed)
  BY <1>1
<1>3. Opens(c)
  <2>1. ASSUME NEW k \in DOMAIN fed, k <= 2 PROVE fed[k].ctx = c /\ fed[k].type \in Sets
    <3>1. k \in DOMAIN fed' /\ fed'[k] = fed[k]
      BY <1>1
    <3> QED
      BY <2>1, <3>1 DEF Opens
  <2>2. ASSUME Len(fed) >= 2 PROVE fed[1].type # fed[2].type
    <3>1. 1 \in DOMAIN fed /\ 2 \in DOMAIN fed /\ Len(fed') >= 2
      BY <1>1, <2>2
    <3> QED
      BY <1>1, <3>1 DEF Opens
  <2> QED
    BY <2>1, <2>2 DEF Opens
<1>4. ASSUME Len(fed) < 2
      PROVE  e = c /\ type \in Sets /\ \A k \in DOMAIN fed : fed[k].type # type
  <2>1. n + 1 \in DOMAIN fed' /\ n + 1 <= 2
    BY <1>1, <1>2, <1>4
  <2>2. e = c /\ type \in Sets
    BY <1>1, <1>2, <2>1 DEF Opens
  <2>3. ASSUME NEW k \in DOMAIN fed PROVE fed[k].type # type
    <3>1. k = 1 /\ n = 1
      BY <1>1, <1>2, <1>4
    <3>2. fed'[1].type # fed'[2].type
      BY <1>1, <1>2, <3>1 DEF Opens
    <3> QED
      BY <1>1, <1>2, <3>1, <3>2
  <2> QED
    BY <2>2, <2>3
<1>5. ASSUME Len(fed) >= 2 PROVE \A ty \in Sets : \E k \in DOMAIN fed : k <= 2 /\ fed[k].type = ty
  <2>1. 1 \in DOMAIN fed /\ 2 \in DOMAIN fed /\ 1 <= 2 /\ 2 <= 2
    BY <1>1, <1>5
  <2>2. fed[1].type \in Sets /\ fed[2].type \in Sets /\ fed[1].type # fed[2].type
    BY <1>3, <1>5, <2>1 DEF Opens
  <2> QED
    BY <2>1, <2>2 DEF Sets
<1>6. ASSUME Len(fed) >= 3, ThirdIsSlice(c)' PROVE ThirdIsSlice(c)
  <2>1. 3 \in DOMAIN fed /\ fed'[3] = fed[3] /\ Len(fed') >= 3
    BY <1>1, <1>6
  <2> QED
    BY <1>6, <2>1 DEF ThirdIsSlice
<1>7. ASSUME Len(fed) = 2, ThirdIsSlice(c)' PROVE e = c /\ type \in {"ipb", "aud"}
  <2>1. fed'[3].ctx = e /\ fed'[3].type = type
    BY <1>1, <1>2, <1>7
  <2> QED
    BY <1>7, <2>1 DEF ThirdIsSlice
<1> QED
  BY <1>3, <1>4, <1>5, <1>6, <1>7

(* What the step has to show when the program has begun.                   *)
LEMMA OpeningAfter ==
  ASSUME TypeOK, InOrder, NEW e \in Contexts, NEW type \in Types, Takes(e, type),
         NEW c \in Contexts, Opens(c)', Len(fed) >= 2,
         \A ty \in Sets : SetOf(context'[c], ty) = SetOf(context[c], ty) /\ CountOf(ty)' = CountOf(ty),
         ThirdIsSlice(c)' => Flowing(c)'
  PROVE  Opening(c)'
<1>1. /\ Len(fed') = Len(fed) + 1 /\ Len(fed) \in Nat
      /\ DOMAIN fed' = 1 .. Len(fed) + 1 /\ DOMAIN fed = 1 .. Len(fed)
      /\ \A k \in DOMAIN fed : fed'[k] = fed[k]
  BY Taken
<1>2. Opens(c) /\ SetsKept(c)
  BY OpensTaken DEF InOrder, Opening
<1>3. SetsKept(c)'
  <2>1. ASSUME NEW k \in DOMAIN fed', k <= 2
        PROVE  SetOf(context'[c], fed'[k].type) = k /\ (CountOf(fed[k].type) # 0)'
    <3>1. k \in DOMAIN fed /\ fed'[k] = fed[k]
      BY <1>1, <2>1
    <3>2. PICK ty \in Sets : ty = fed[k].type
      BY <1>2, <2>1, <3>1 DEF Opens
    <3>3. SetOf(context[c], ty) = k /\ CountOf(ty) # 0
      BY <1>2, <2>1, <3>1, <3>2 DEF SetsKept
    <3>4. SetOf(context'[c], ty) = k /\ CountOf(ty)' # 0
      BY <3>3
    <3> QED
      BY <3>1, <3>2, <3>4 DEF CountOf
  <2> QED
    BY <2>1 DEF SetsKept
<1>4. NoSliceYet(c)'
  BY <1>1 DEF NoSliceYet
<1> QED
  BY <1>3, <1>4 DEF Opening

LEMMA KeepsOne ==
  ASSUME NEW x \in Fields, NEW k
  PROVE  /\ SetOf(KeepsSps(x, k), "sps") = k /\ SetOf(KeepsSps(x, k), "pps") = SetOf(x, "pps")
         /\ SetOf(KeepsPps(x, k), "pps") = k /\ SetOf(KeepsPps(x, k), "sps") = SetOf(x, "sps")
         /\ KeepsSps(x, k).h264_sps_changed /\ KeepsPps(x, k).h264_pps_changed
  BY DEF KeepsSps, KeepsPps, SetOf, Fields

(* A parameter set of the type is taken: kept when it is the first.        *)
LEMMA SetTaken ==
  ASSUME TypeOK, NEW e \in Contexts, TakeSps(e) \/ TakePps(e)
  PROVE  \E type \in Sets :
           /\ Takes(e, type)
           /\ UNCHANGED <<sps_pps_count_flag, pc, dropped>>
           /\ \A ty \in Sets : ty # type => CountOf(ty)' = CountOf(ty)
           /\ CountOf(type)' # 0
           /\ CountOf(type) # 0 => CountOf(type)' = CountOf(type)
           /\ \A d \in Contexts : d # e \/ CountOf(type) # 0 => context'[d] = context[d]
           /\ CountOf(type) = 0 =>
                /\ SetOf(context'[e], type) = Len(fed) + 1
                /\ \A ty \in Sets : ty # type => SetOf(context'[e], ty) = SetOf(context[e], ty)
                /\ Changed(e)'
           /\ \A d \in Contexts : context'[d].h264_sps_pps_sent = context[d].h264_sps_pps_sent
<1>1. context \in [Contexts -> Fields] /\ "sps" # "pps"
  BY DEF TypeOK, Fields
<1>2. PICK k : k = Len(fed) + 1
  OBVIOUS
<1>3. CASE TakeSps(e)
  <2>1. CASE sps_count_flag = 0
    <3>1. context' = [context EXCEPT ![e] = KeepsSps(@, k)] /\ sps_count_flag' = 1
      BY <1>2, <1>3, <2>1 DEF TakeSps
    <3>2. context'[e] = KeepsSps(context[e], k) /\ \A d \in Contexts \ {e} : context'[d] = context[d]
      BY <1>1, <3>1
    <3>3. \A d \in Contexts : context'[d].h264_sps_pps_sent = context[d].h264_sps_pps_sent
      BY <1>1, <3>2, Keeping
    <3>4. SetOf(context'[e], "sps") = k /\ SetOf(context'[e], "pps") = SetOf(context[e], "pps")
          /\ Changed(e)'
      BY <1>1, <3>2, KeepsOne DEF Changed
    <3> QED
      BY <1>2, <1>3, <2>1, <3>1, <3>2, <3>3, <3>4 DEF TakeSps, Sets, CountOf
  <2>2. CASE sps_count_flag # 0
    BY <1>3, <2>2 DEF TakeSps, Sets, CountOf
  <2> QED
    BY <2>1, <2>2
<1>4. CASE TakePps(e)
  <2>1. CASE pps_count_flag = 0
    <3>1. context' = [context EXCEPT ![e] = KeepsPps(@, k)] /\ pps_count_flag' = 1
      BY <1>2, <1>4, <2>1 DEF TakePps
    <3>2. context'[e] = KeepsPps(context[e], k) /\ \A d \in Contexts \ {e} : context'[d] = context[d]
      BY <1>1, <3>1
    <3>3. \A d \in Contexts : context'[d].h264_sps_pps_sent = context[d].h264_sps_pps_sent
      BY <1>1, <3>2, Keeping
    <3>4. SetOf(context'[e], "pps") = k /\ SetOf(context'[e], "sps") = SetOf(context[e], "sps")
          /\ Changed(e)'
      BY <1>1, <3>2, KeepsOne DEF Changed
    <3> QED
      BY <1>2, <1>4, <2>1, <3>1, <3>2, <3>3, <3>4 DEF TakePps, Sets, CountOf
  <2>2. CASE pps_count_flag # 0
    BY <1>4, <2>2 DEF TakePps, Sets, CountOf
  <2> QED
    BY <2>1, <2>2
<1> QED
  BY <1>3, <1>4

(* What Flowing needs of a step that writes nothing on c.                  *)
LEMMA FlowingStays ==
  ASSUME TypeOK, InOrder, NEW c, Flowing(c), context'[c].h264_sps_pps_sent,
         wire'[c] = wire[c], \A k \in DOMAIN fed : fed'[k] = fed[k],
         \A k \in dropped' \ dropped : fed'[k].ctx # c
  PROVE  Flowing(c)'
<1>1. Headers(c)' = Headers(c)
  BY DEF Headers
<1>2. \A k \in dropped' : fed'[k].ctx # c
  BY DEF InOrder, Flowing
<1> QED
  BY <1>1, <1>2 DEF Flowing

LEMMA SetInOrder ==
  ASSUME IInv, InOrder, NEW e \in Contexts, TakeSps(e) \/ TakePps(e)
  PROVE  InOrder'
<1>1. PICK type \in Sets :
           /\ Takes(e, type)
           /\ UNCHANGED <<sps_pps_count_flag, pc, dropped>>
           /\ \A ty \in Sets : ty # type => CountOf(ty)' = CountOf(ty)
           /\ CountOf(type)' # 0
           /\ CountOf(type) # 0 => CountOf(type)' = CountOf(type)
           /\ \A d \in Contexts : d # e \/ CountOf(type) # 0 => context'[d] = context[d]
           /\ CountOf(type) = 0 =>
                /\ SetOf(context'[e], type) = Len(fed) + 1
                /\ \A ty \in Sets : ty # type => SetOf(context'[e], ty) = SetOf(context[e], ty)
                /\ Changed(e)'
           /\ \A d \in Contexts : context'[d].h264_sps_pps_sent = context[d].h264_sps_pps_sent
  BY SetTaken DEF IInv
<1>2. type \in Types /\ type \notin {"ipb", "aud"}
  BY <1>1 DEF Sets, Types
<1>3. /\ Len(fed') = Len(fed) + 1 /\ Len(fed) \in Nat
      /\ DOMAIN fed' = 1 .. Len(fed) + 1 /\ DOMAIN fed = 1 .. Len(fed)
      /\ \A k \in DOMAIN fed : fed'[k] = fed[k]
      /\ fed'[Len(fed) + 1].ctx = e /\ fed'[Len(fed) + 1].type = type
      /\ UNCHANGED wire
  <2>1. fed'[Len(fed) + 1] = [ctx |-> e, type |-> type]
    BY <1>1, <1>2, Taken DEF IInv
  <2> QED
    BY <1>1, <1>2, <2>1, Taken DEF IInv
<1>4. ASSUME NEW c \in Contexts, Opens(c)' PROVE Opening(c)'
  <2>1. /\ Opens(c)
        /\ Len(fed) < 2 => /\ e = c /\ \A k \in DOMAIN fed : fed[k].type # type
        /\ Len(fed) >= 2 => \A ty \in Sets : \E k \in DOMAIN fed : k <= 2 /\ fed[k].type = ty
        /\ Len(fed) >= 3 => (ThirdIsSlice(c)' => ThirdIsSlice(c))
        /\ Len(fed) = 2 => (ThirdIsSlice(c)' => e = c /\ type \in {"ipb", "aud"})
    BY <1>1, <1>2, <1>4, OpensTaken DEF IInv
  <2>2. SetsKept(c) /\ NoSliceYet(c) /\ (ThirdIsSlice(c) => Flowing(c))
    BY <2>1 DEF InOrder, Opening
  <2>3. CASE Len(fed) >= 2
    <3>1. PICK k \in DOMAIN fed : k <= 2 /\ fed[k].type = type
      BY <1>1, <2>1, <2>3
    <3>2. CountOf(type) # 0
      BY <2>2, <3>1 DEF SetsKept
    <3>3. context'[c] = context[c]
      BY <1>1, <3>2
    <3>4. \A ty \in Sets : SetOf(context'[c], ty) = SetOf(context[c], ty) /\ CountOf(ty)' = CountOf(ty)
      BY <1>1, <3>2, <3>3
    <3>5. ASSUME ThirdIsSlice(c)' PROVE Flowing(c)'
      <4>1. Len(fed) >= 3
        <5>1. Len(fed) # 2
          BY <1>2, <2>1, <3>5
        <5> QED
          BY <1>3, <2>3, <5>1
      <4>2. ThirdIsSlice(c)
        BY <2>1, <3>5, <4>1
      <4>3. Flowing(c) /\ context'[c].h264_sps_pps_sent
        BY <2>2, <3>3, <4>2 DEF Flowing
      <4> QED
        BY <1>1, <1>3, <4>3, FlowingStays DEF IInv
    <3> QED
      BY <1>1, <1>2, <1>4, <2>3, <3>4, <3>5, OpeningAfter DEF IInv
  <2>4. CASE Len(fed) < 2
    <3>1. e = c /\ CountOf(type) = 0
      BY <1>1, <2>1, <2>2, <2>4 DEF NoSliceYet
    <3>2. SetsKept(c)'
      <4>1. ASSUME NEW k \in DOMAIN fed', k <= 2
            PROVE  SetOf(context'[c], fed'[k].type) = k /\ (CountOf(fed[k].type) # 0)'
        <5>1. CASE k = Len(fed) + 1
          <6>1. SetOf(context'[c], type) = k /\ CountOf(type)' # 0
            BY <1>1, <3>1, <5>1
          <6> QED
            BY <1>3, <5>1, <6>1 DEF CountOf
        <5>2. CASE k # Len(fed) + 1
          <6>1. k \in DOMAIN fed /\ fed'[k] = fed[k]
            BY <1>3, <4>1, <5>2
          <6>2. PICK ty \in Sets : ty = fed[k].type
            BY <2>1, <4>1, <6>1 DEF Opens
          <6>3. ty # type /\ SetOf(context[c], ty) = k /\ CountOf(ty) # 0
            BY <2>1, <2>2, <2>4, <4>1, <6>1, <6>2 DEF SetsKept
          <6>4. SetOf(context'[c], ty) = k /\ CountOf(ty)' # 0
            BY <1>1, <3>1, <6>3
          <6> QED
            BY <6>1, <6>2, <6>4 DEF CountOf
        <5> QED
          BY <5>1, <5>2
      <4> QED
        BY <4>1 DEF SetsKept
    <3>3. NoSliceYet(c)'
      <4>1. /\ sps_pps_count_flag' = 0 /\ dropped' = {}
            /\ \A d \in Contexts : wire'[d] = << >> /\ pc'[d] \in {"idle", "demux"}
        BY <1>1, <1>3, <2>2, <2>4 DEF NoSliceYet
      <4>2. ASSUME NEW ty \in Sets, \A k \in DOMAIN fed' : fed'[k].type # ty
            PROVE  CountOf(ty)' = 0
        <5>1. Len(fed) + 1 \in DOMAIN fed' /\ DOMAIN fed \subseteq DOMAIN fed'
          BY <1>3
        <5>2. ty # type /\ \A k \in DOMAIN fed : fed[k].type # ty
          BY <1>3, <4>2, <5>1
        <5>3. CountOf(ty) = 0
          BY <2>2, <2>4, <5>2 DEF NoSliceYet
        <5> QED
          BY <1>1, <5>2, <5>3
      <4>3. Changed(c)'
        BY <1>1, <3>1
      <4> QED
        BY <4>1, <4>2, <4>3 DEF NoSliceYet
    <3>4. ~ThirdIsSlice(c)'
      BY <1>3, <2>4 DEF ThirdIsSlice
    <3> QED
      BY <3>2, <3>3, <3>4 DEF Opening
  <2> QED
    BY <1>3, <2>3, <2>4
<1>5. \A c \in Contexts : Opening(c)'
  BY <1>4 DEF Opening
<1>6. dropped' \subseteq DOMAIN fed'
  BY <1>1, <1>3 DEF InOrder
<1> QED
  BY <1>5, <1>6 DEF InOrder

(* A slice or delimiter after the beginning of the program.                *)
LEMMA SliceInOrder ==
  ASSUME IInv, InOrder, NEW e \in Contexts, NEW type \in {"ipb", "aud"},
         Takes(e, type), UNCHANGED <<sps_count_flag, pps_count_flag>>,
         dropped' \subseteq dropped \cup {Len(fed) + 1},
         \A c \in Contexts :
           /\ context'[c].h264_sps = context[c].h264_sps
           /\ context'[c].h264_pps = context[c].h264_pps
           /\ context[c].h264_sps_pps_sent => context'[c].h264_sps_pps_sent,
         context'[e].h264_sps_pps_sent => dropped' = dropped,
         context[e].h264_sps # NoSet /\ sps_pps_count_flag = 0 /\ Changed(e) =>
           context'[e].h264_sps_pps_sent
  PROVE  InOrder'
<1>1. type \in Types /\ type \notin Sets
  BY DEF Sets, Types
<1>2. /\ Len(fed') = Len(fed) + 1 /\ Len(fed) \in Nat
      /\ DOMAIN fed' = 1 .. Len(fed) + 1 /\ DOMAIN fed = 1 .. Len(fed)
      /\ \A k \in DOMAIN fed : fed'[k] = fed[k]
      /\ fed'[Len(fed) + 1].ctx = e
      /\ UNCHANGED wire
  <2>1. fed'[Len(fed) + 1] = [ctx |-> e, type |-> type]
    BY <1>1, Taken DEF IInv
  <2> QED
    BY <1>1, <2>1, Taken DEF IInv
<1>3. dropped' \subseteq DOMAIN fed'
  BY <1>2 DEF InOrder
<1>4. ASSUME NEW c \in Contexts, Opens(c)' PROVE Opening(c)'
  <2>1. /\ Opens(c) /\ Len(fed) >= 2
        /\ \A ty \in Sets : \E k \in DOMAIN fed : k <= 2 /\ fed[k].type = ty
        /\ Len(fed) >= 3 => (ThirdIsSlice(c)' => ThirdIsSlice(c))
        /\ Len(fed) = 2 => (ThirdIsSlice(c)' => e = c)
    <3>1. Len(fed) >= 2
      BY <1>1, <1>2, <1>4, OpensTaken DEF IInv
    <3> QED
      BY <1>1, <1>4, <3>1, OpensTaken DEF IInv
  <2>2. SetsKept(c) /\ NoSliceYet(c) /\ (ThirdIsSlice(c) => Flowing(c))
    BY <2>1 DEF InOrder, Opening
  <2>3. \A ty \in Sets : SetOf(context'[c], ty) = SetOf(context[c], ty) /\ CountOf(ty)' = CountOf(ty)
    BY DEF SetOf, CountOf
  <2>4. ASSUME ThirdIsSlice(c)' PROVE Flowing(c)'
    <3>1. CASE Len(fed) >= 3
      <4>1. Flowing(c) /\ context'[c].h264_sps_pps_sent
        BY <2>1, <2>2, <2>4, <3>1 DEF Flowing
      <4>2. \A k \in dropped' \ dropped : fed'[k].ctx # c
        BY <1>2, <4>1
      <4> QED
        BY <1>2, <4>1, <4>2, FlowingStays DEF IInv
    <3>2. CASE Len(fed) = 2
      <4>1. e = c
        BY <2>1, <2>4, <3>2
      <4>2. /\ sps_pps_count_flag = 0 /\ Changed(c) /\ wire[c] = << >>
        BY <2>2, <3>2 DEF NoSliceYet
      <4>3. PICK k \in DOMAIN fed : k <= 2 /\ fed[k].type = "sps"
        BY <2>1 DEF Sets
      <4>4. context[c].h264_sps = k /\ k # NoSet
        BY <1>2, <2>2, <4>3 DEF SetsKept, SetOf, NoSet
      <4>5. context'[c].h264_sps_pps_sent /\ dropped' = dropped
        BY <4>1, <4>2, <4>4
      <4>6. \A i \in dropped' : fed'[i].ctx # c
        <5>1. dropped = {}
          BY <2>2, <3>2 DEF NoSliceYet
        <5> QED
          BY <4>5, <5>1
      <4>7. Headers(c)' = {}
        BY <1>2, <4>2 DEF Headers
      <4> QED
        BY <4>5, <4>6, <4>7 DEF Flowing
    <3> QED
      BY <1>2, <2>1, <3>1, <3>2
  <2> QED
    BY <1>1, <1>4, <2>1, <2>3, <2>4, OpeningAfter DEF IInv
<1>5. \A c \in Contexts : Opening(c)'
  BY <1>4 DEF Opening
<1> QED
  BY <1>3, <1>5 DEF InOrder

(* What is dropped by the NALU at place k.                                 *)
LEMMA IpbDrops ==
  ASSUME NEW c \in Contexts, NEW k, NEW type, IpbFrame(c, k, type)
  PROVE  /\ dropped' \subseteq dropped \cup {k}
         /\ context'[c].h264_sps_pps_sent => dropped' = dropped
  BY DEF IpbFrame, HoldsBack

LEMMA SlicesInOrder ==
  ASSUME IInv, InOrder, NEW e \in Contexts, NEW type \in {"ipb", "aud"},
         TakeSlice(e, type) \/ TakeSliceHeaderDue(e, type)
  PROVE  InOrder'
<1>1. CASE TakeSlice(e, type)
  <2>1. PICK k : k = Len(fed) + 1
    OBVIOUS
  <2>2. IpbFrame(e, k, type)
    BY <1>1, <2>1 DEF TakeSlice
  <2>3. /\ dropped' \subseteq dropped \cup {Len(fed) + 1}
        /\ context'[e].h264_sps_pps_sent => dropped' = dropped
    BY <2>1, <2>2, IpbDrops
  <2>4. /\ Takes(e, type) /\ UNCHANGED <<sps_count_flag, pps_count_flag, context>>
        /\ ~(sps_pps_count_flag = 0 /\ Changed(e))
    BY <1>1 DEF TakeSlice, HeaderDue
  <2> QED
    BY <2>3, <2>4, SliceInOrder
<1>2. CASE TakeSliceHeaderDue(e, type)
  <2>1. /\ Takes(e, type) /\ UNCHANGED <<sps_count_flag, pps_count_flag, dropped>>
    BY <1>2 DEF TakeSliceHeaderDue, flags
  <2>2. context \in [Contexts -> Fields]
    BY DEF IInv, TypeOK, Fields
  <2>3. PICK x \in Fields : x = [context[e] EXCEPT !.h264_sps_changed = FALSE,
            !.h264_pps_changed = FALSE, !.h264_sps_pps_sent = TRUE]
    BY <2>2 DEF Fields
  <2>4. /\ x.h264_sps = context[e].h264_sps /\ x.h264_pps = context[e].h264_pps
        /\ x.h264_sps_pps_sent
    BY <2>2, <2>3 DEF Fields
  <2>5. IF context[e].h264_sps = NoSet THEN context' = context
        ELSE context' = [context EXCEPT ![e] = x]
    BY <1>2, <2>3 DEF TakeSliceHeaderDue
  <2>6. \A c \in Contexts :
           /\ context'[c].h264_sps = context[c].h264_sps
           /\ context'[c].h264_pps = context[c].h264_pps
           /\ context[c].h264_sps_pps_sent => context'[c].h264_sps_pps_sent
    BY <2>2, <2>4, <2>5
  <2>7. context[e].h264_sps # NoSet => context'[e].h264_sps_pps_sent
    BY <2>2, <2>4, <2>5
  <2> QED
    BY <2>1, <2>6, <2>7, SliceInOrder
<1> QED
  BY <1>1, <1>2

LEMMA WriteHeaderInOrder ==
  ASSUME IInv, InOrder, NEW e \in Contexts, WriteHeader(e)
  PROVE  InOrder'
<1>1. /\ pc[e] = "header" /\ UNCHANGED <<sps_count_flag, pps_count_flag, context, fed>>
      /\ Writes(e, [what |-> "header", sps |-> context[e].h264_sps, pps |-> context[e].h264_pps])
  BY DEF WriteHeader
<1>2. /\ [what |-> "header", sps |-> context[e].h264_sps, pps |-> context[e].h264_pps] \in Items
      /\ Latest(e) \in DOMAIN fed /\ IsLatest(fed, e, Latest(e))
  BY <1>1, HeaderItem DEF IInv
<1>3. PICK k \in DOMAIN fed : k = Latest(e) /\ fed[k].ctx = e
  BY <1>2 DEF IsLatest
<1>4. /\ dropped' \subseteq dropped \cup {k}
      /\ context'[e].h264_sps_pps_sent => dropped' = dropped
  <2>1. PICK type : type = fed[Latest(e)].type
    OBVIOUS
  <2>2. IpbFrame(e, k, type)
    BY <1>3, <2>1 DEF WriteHeader
  <2> QED
    BY <2>2, IpbDrops
<1>5. PICK item \in Items :
        item = [what |-> "header", sps |-> context[e].h264_sps, pps |-> context[e].h264_pps]
  BY <1>2
<1>6. /\ Len(wire[e]) \in Nat /\ DOMAIN wire[e] = 1 .. Len(wire[e])
      /\ DOMAIN wire'[e] = 1 .. Len(wire[e]) + 1
      /\ \A n \in DOMAIN wire[e] : wire'[e][n] = wire[e][n]
      /\ wire'[e][Len(wire[e]) + 1] = item
      /\ \A d \in Contexts \ {e} : wire'[d] = wire[d]
  BY <1>1, <1>5, Written DEF IInv
<1>7. ASSUME NEW c \in Contexts, Opens(c)' PROVE Opening(c)'
  <2>1. Opens(c)
    BY <1>1, <1>7 DEF Opens
  <2>2. SetsKept(c) /\ NoSliceYet(c) /\ (ThirdIsSlice(c) => Flowing(c))
    BY <2>1 DEF InOrder, Opening
  <2>3. SetsKept(c)'
    BY <1>1, <2>2 DEF SetsKept, CountOf
  <2>4. Len(fed) > 2 /\ Len(fed) \in Nat /\ DOMAIN fed = 1 .. Len(fed)
    <3>1. Len(fed) \in Nat /\ DOMAIN fed = 1 .. Len(fed)
      BY DEF IInv, TypeOK
    <3>2. ~(Len(fed) <= 2)
      BY <1>1, <2>2 DEF NoSliceYet
    <3> QED
      BY <3>1, <3>2
  <2>5. NoSliceYet(c)'
    BY <1>1, <2>4 DEF NoSliceYet
  <2>6. ASSUME ThirdIsSlice(c)' PROVE Flowing(c)'
    <3>1. ThirdIsSlice(c)
      BY <1>1, <2>6 DEF ThirdIsSlice
    <3>2. Flowing(c) /\ context'[c].h264_sps_pps_sent
      BY <1>1, <2>2, <3>1 DEF Flowing
    <3>3. ASSUME NEW i \in dropped' PROVE fed'[i].ctx # c
      <4>1. CASE e = c
        BY <1>1, <1>4, <3>2, <4>1 DEF Flowing
      <4>2. CASE e # c
        BY <1>1, <1>3, <1>4, <3>2, <4>2 DEF Flowing
      <4> QED
        BY <4>1, <4>2
    <3>4. {context[c].h264_sps, context[c].h264_pps} = {1, 2}
      <4>1. 1 \in DOMAIN fed /\ 2 \in DOMAIN fed /\ 1 <= 2 /\ 2 <= 2
        BY <2>4
      <4>2. fed[1].type \in Sets /\ fed[2].type \in Sets /\ fed[1].type # fed[2].type
        BY <2>1, <2>4, <4>1 DEF Opens
      <4>3. SetOf(context[c], fed[1].type) = 1 /\ SetOf(context[c], fed[2].type) = 2
        BY <2>2, <4>1 DEF SetsKept
      <4>4. CASE fed[1].type = "sps"
        <5>1. context[c].h264_sps = 1 /\ context[c].h264_pps = 2
          BY <4>2, <4>3, <4>4 DEF SetOf, Sets
        <5> QED
          BY <5>1
      <4>5. CASE fed[1].type # "sps"
        <5>1. context[c].h264_sps = 2 /\ context[c].h264_pps = 1
          BY <4>2, <4>3, <4>5 DEF SetOf, Sets
        <5> QED
          BY <5>1
      <4> QED
        BY <4>4, <4>5
    <3>5. ASSUME NEW n \in Headers(c)' PROVE {wire'[c][n].sps, wire'[c][n].pps} = {1, 2}
      <4>1. n \in DOMAIN wire'[c] /\ wire'[c][n].what = "header"
        BY <3>5 DEF Headers
      <4>2. CASE n \in DOMAIN wire[c] /\ wire'[c][n] = wire[c][n]
        BY <3>2, <4>1, <4>2 DEF Flowing, Headers
      <4>3. CASE ~(n \in DOMAIN wire[c] /\ wire'[c][n] = wire[c][n])
        <5>1. e = c
          BY <1>6, <4>1, <4>3
        <5>2. wire'[c][n] = item
          BY <1>6, <4>1, <4>3, <5>1
        <5> QED
          BY <1>5, <3>4, <5>1, <5>2
      <4> QED
        BY <4>2, <4>3
    <3> QED
      BY <3>2, <3>3, <3>5 DEF Flowing
  <2> QED
    BY <2>3, <2>5, <2>6 DEF Opening
<1>8. \A c \in Contexts : Opening(c)'
  BY <1>7 DEF Opening
<1> QED
  BY <1>1, <1>3, <1>4, <1>8 DEF InOrder

LEMMA OtherInOrder ==
  ASSUME IInv, InOrder, NEW e \in Contexts,
         WriteFrame(e) \/ Call(e) \/ WriteFails(e) \/ Return(e)
  PROVE  InOrder'
<1>1. UNCHANGED <<flags, context, fed, dropped>>
  BY DEF WriteFrame, Call, WriteFails, Return
<1>2. /\ pc \in [Contexts -> {"idle", "demux", "header", "frame"}]
      /\ pc'[e] \in {"idle", "demux"}
      /\ \A d \in Contexts \ {e} : pc'[d] = pc[d]
  BY DEF WriteFrame, Call, WriteFails, Return, IInv, TypeOK
<1>3. \/ UNCHANGED wire
      \/ pc[e] = "frame" /\ \E item \in Items : Writes(e, item) /\ item.what = "frame"
  <2>1. CASE WriteFrame(e)
    <3>1. PICK item \in Items : item = [what |-> "frame", k |-> Latest(e)]
      BY <2>1, HeaderItem DEF WriteFrame, IInv
    <3> QED
      BY <2>1, <3>1 DEF WriteFrame
  <2>2. CASE Call(e) \/ WriteFails(e) \/ Return(e)
    BY <2>2 DEF Call, WriteFails, Return
  <2> QED
    BY <2>1, <2>2
<1>4. \A c \in Contexts : \A n \in Headers(c)' : n \in Headers(c) /\ wire'[c][n] = wire[c][n]
  <2>1. CASE UNCHANGED wire
    BY <2>1 DEF Headers
  <2>2. CASE \E item \in Items : Writes(e, item) /\ item.what = "frame"
    <3>1. PICK item \in Items : Writes(e, item) /\ item.what = "frame"
      BY <2>2
    <3>2. /\ Len(wire[e]) \in Nat /\ DOMAIN wire[e] = 1 .. Len(wire[e])
          /\ DOMAIN wire'[e] = 1 .. Len(wire[e]) + 1
          /\ \A n \in DOMAIN wire[e] : wire'[e][n] = wire[e][n]
          /\ wire'[e][Len(wire[e]) + 1] = item
          /\ \A d \in Contexts \ {e} : wire'[d] = wire[d]
      BY <3>1, Written DEF IInv
    <3>3. ASSUME NEW c \in Contexts, NEW n \in DOMAIN wire'[c], wire'[c][n].what = "header"
          PROVE  n \in DOMAIN wire[c] /\ wire'[c][n] = wire[c][n]
      <4>1. CASE c = e
        <5>1. n # Len(wire[e]) + 1 \/ wire'[c][n] = item
          BY <3>2, <4>1
        <5>2. n # Len(wire[e]) + 1
          BY <3>1, <3>3, <5>1
        <5> QED
          BY <3>2, <3>3, <4>1, <5>2
      <4>2. CASE c # e
        BY <3>2, <3>3, <4>2
      <4> QED
        BY <4>1, <4>2
    <3> QED
      BY <3>3 DEF Headers
  <2> QED
    BY <1>3, <2>1, <2>2
<1>5. ASSUME NEW c \in Contexts, Opens(c)' PROVE Opening(c)'
  <2>1. Opens(c)
    BY <1>1, <1>5 DEF Opens
  <2>2. SetsKept(c) /\ NoSliceYet(c) /\ (ThirdIsSlice(c) => Flowing(c))
    BY <2>1 DEF InOrder, Opening
  <2>3. SetsKept(c)'
    BY <1>1, <2>2 DEF SetsKept, CountOf, flags
  <2>4. NoSliceYet(c)'
    <3>1. ASSUME Len(fed) <= 2
          PROVE  /\ sps_pps_count_flag' = 0 /\ dropped' = {}
                 /\ \A d \in Contexts : wire'[d] = << >> /\ pc'[d] \in {"idle", "demux"}
                 /\ \A type \in Sets : (\A k \in DOMAIN fed : fed[k].type # type) => CountOf(type)' = 0
                 /\ Len(fed) > 0 => Changed(c)'
      <4>1. pc[e] # "frame"
        BY <2>2, <3>1 DEF NoSliceYet
      <4> QED
        BY <1>1, <1>2, <1>3, <2>2, <3>1, <4>1 DEF NoSliceYet, flags, CountOf, Changed
    <3> QED
      BY <1>1, <3>1 DEF NoSliceYet
  <2>5. ThirdIsSlice(c)' => Flowing(c)'
    BY <1>1, <1>4, <2>2 DEF ThirdIsSlice, Flowing
  <2> QED
    BY <2>3, <2>4, <2>5 DEF Opening
<1>6. \A c \in Contexts : Opening(c)'
  BY <1>5 DEF Opening
<1> QED
  BY <1>1, <1>6 DEF InOrder

LEMMA InOrderKept == IInv /\ InOrder /\ [Next]_vars => InOrder'
<1> SUFFICES ASSUME IInv, InOrder, [Next]_vars PROVE InOrder'
  OBVIOUS
<1>1. CASE UNCHANGED vars
  <2>1. UNCHANGED <<flags, context, pc, fed, wire, dropped>>
    BY <1>1 DEF vars
  <2>2. ASSUME NEW c \in Contexts, Opening(c) PROVE Opening(c)'
    <3>1. Opens(c)' => Opens(c)
      BY <2>1 DEF Opens
    <3>2. SetsKept(c) => SetsKept(c)'
      BY <2>1 DEF SetsKept, CountOf, flags
    <3>3. NoSliceYet(c) => NoSliceYet(c)'
      BY <2>1 DEF NoSliceYet, CountOf, Changed, flags
    <3>4. (ThirdIsSlice(c)' => ThirdIsSlice(c)) /\ (Flowing(c) => Flowing(c)')
      BY <2>1 DEF ThirdIsSlice, Flowing, Headers
    <3> QED
      BY <2>2, <3>1, <3>2, <3>3, <3>4 DEF Opening
  <2> QED
    BY <2>1, <2>2 DEF InOrder
<1> QED
  BY <1>1, SetInOrder, SlicesInOrder, WriteHeaderInOrder, OtherInOrder DEF Next

(* The connection that opens the program with both parameter sets and a    *)
(* slice has its header out complete and loses no slice to the static      *)
(* flags, whatever other connections do at the same time.                  *)
THEOREM OrderlyMeansPublished == Spec => []OrderlyIsPublished
<1>1. Init => InOrder
  BY DEF Init, InOrder, Opening, SetsKept, NoSliceYet, ThirdIsSlice, CountOf
<1>2. IInv /\ InOrder => OrderlyIsPublished
  <2> SUFFICES ASSUME IInv, InOrder, NEW c \in Contexts, Orderly(c) PROVE Flowing(c)
    BY DEF OrderlyIsPublished, Flowing
  <2>1. Opens(c)
    <3>1. DOMAIN fed = 1 .. Len(fed) /\ Len(fed) \in Nat
      BY DEF IInv, TypeOK
    <3>2. fed[1].type \in Sets /\ fed[2].type \in Sets /\ fed[1].type # fed[2].type
      <4>1. {fed[1].type, fed[2].type} = Sets /\ "sps" # "pps"
        BY DEF Orderly, Sets
      <4>2. PICK a, b : a = fed[1].type /\ b = fed[2].type
        OBVIOUS
      <4>3. {a, b} = {"sps", "pps"}
        BY <4>1, <4>2 DEF Sets
      <4>4. a \in {"sps", "pps"} /\ b \in {"sps", "pps"} /\ a # b
        <5>1. a \in {"sps", "pps"} /\ b \in {"sps", "pps"}
          BY <4>3
        <5>2. "sps" \in {a, b} /\ "pps" \in {a, b}
          BY <4>3
        <5>3. a # b
          BY <5>2
        <5> QED
          BY <5>1, <5>3
      <4> QED
        BY <4>2, <4>4 DEF Sets
    <3> QED
      BY <3>1, <3>2 DEF Opens, Orderly
  <2>2. ThirdIsSlice(c)
    BY DEF Orderly, ThirdIsSlice
  <2> QED
    BY <2>1, <2>2 DEF InOrder, Opening
<1>3. Spec => []InOrder
  BY <1>1, InOrderKept, Invariance, PTL DEF Spec
<1> QED
  BY <1>2, <1>3, Invariance, PTL

-----------------------------------------------------------------------------
(* No gaps.  While its writes succeed, a connection with something on the  *)
(* wire has its header announced, so that nothing is held back again.      *)

Continues(c) ==
  /\ Unbroken(wire[c], Slices(c, 0), InHand(c))
  /\ wire[c] # << >> \/ pc[c] = "header" => context[c].h264_sps_pps_sent
  /\ pc[c] = "frame" => fed[Latest(c)].type = "ipb"

Continuing == \A c \in Contexts \ lost : Continues(c)

FramesOf(w) == {n \in DOMAIN w : w[n].what = "frame"}

LEMMA NoFrames ==
  ASSUME NEW w, FramesOf(w) = {}, NEW slices, NEW hand
  PROVE  Unbroken(w, slices, hand)
  BY DEF Unbroken, FramesOf

(* A slice is taken and not held back.                                     *)
LEMMA ComesInHand ==
  ASSUME NEW w, NEW slices \in SUBSET Nat, NEW k \in Nat, \A j \in slices : j < k,
         Unbroken(w, slices, {})
  PROVE  Unbroken(w, slices \cup {k}, {k})
<1> DEFINE out == {w[n].k : n \in FramesOf(w)}
<1>1. /\ \A m, n \in FramesOf(w) : m < n => w[m].k < w[n].k
      /\ out \subseteq slices
      /\ \A j \in out, i \in slices : i >= j => i \in out
  BY DEF Unbroken, FramesOf
<1>2. k \notin slices
  <2>1. k \in slices => k < k
    OBVIOUS
  <2> QED
    BY <2>1
<1> HIDE DEF out
<1>3. ASSUME NEW j \in out, NEW i \in slices \cup {k}, i >= j PROVE i \in out <=> i \notin {k}
  BY <1>1, <1>2, <1>3
<1>4. out \subseteq slices \cup {k}
  BY <1>1
<1> QED
  BY <1>1, <1>3, <1>4 DEF Unbroken, FramesOf, out

(* The slice in hand goes out: it is the last that was taken.              *)
LEMMA GoesOut ==
  ASSUME NEW w, NEW x, NEW last \in Nat, NEW item, NEW slices \in SUBSET Nat, NEW k \in slices,
         DOMAIN w = 1 .. last, DOMAIN x = 1 .. last + 1,
         \A n \in 1 .. last : x[n] = w[n],
         x[last + 1] = item, item.what = "frame", item.k = k,
         \A j \in slices : j <= k,
         Unbroken(w, slices, {k})
  PROVE  Unbroken(x, slices, {})
<1> DEFINE out == {w[n].k : n \in FramesOf(w)}
           after == {x[n].k : n \in FramesOf(x)}
<1>1. /\ \A m, n \in FramesOf(w) : m < n => w[m].k < w[n].k
      /\ out \subseteq slices
      /\ \A j \in out, i \in slices : i >= j => (i \in out <=> i # k)
  BY DEF Unbroken, FramesOf
<1>2. FramesOf(x) = FramesOf(w) \cup {last + 1}
  BY DEF FramesOf
<1>3. \A n \in FramesOf(w) : n \in 1 .. last /\ x[n] = w[n]
  BY DEF FramesOf
<1>4. after = out \cup {k}
  BY <1>2, <1>3
<1>5. k \notin out
  <2>1. k \in out => k >= k
    OBVIOUS
  <2> QED
    BY <1>1, <2>1
<1>6. \A n \in FramesOf(w) : w[n].k \in out
  OBVIOUS
<1> HIDE DEF out, after
<1>7. \A j \in out : j \in Nat /\ j < k
  BY <1>1, <1>5
<1>8. ASSUME NEW m \in FramesOf(x), NEW n \in FramesOf(x), m < n PROVE x[m].k < x[n].k
  <2>1. m \in FramesOf(w)
    BY <1>2, <1>3, <1>8
  <2>2. CASE n \in FramesOf(w)
    BY <1>1, <1>3, <1>8, <2>1, <2>2
  <2>3. CASE n = last + 1
    BY <1>3, <1>6, <1>7, <2>1, <2>3
  <2> QED
    BY <1>2, <2>2, <2>3
<1>9. after \subseteq slices
  BY <1>1, <1>4
<1>10. ASSUME NEW j \in after, NEW i \in slices, i >= j PROVE i \in after
  <2>1. CASE j \in out
    BY <1>1, <1>4, <1>10, <2>1
  <2>2. CASE j = k
    BY <1>4, <1>10, <2>2
  <2> QED
    BY <1>4, <2>1, <2>2
<1> QED
  BY <1>8, <1>9, <1>10 DEF Unbroken, FramesOf, after

(* All slices of the context d after c took a NALU.                        *)
LEMMA AllSlices ==
  ASSUME IInv, NEW d
  PROVE  /\ Slices(d, 0) = {k \in DOMAIN fed : fed[k].ctx = d /\ fed[k].type = "ipb"}
         /\ Slices(d, 0) \subseteq 1 .. Len(fed) /\ Len(fed) \in Nat
<1>1. DOMAIN fed = 1 .. Len(fed) /\ Len(fed) \in Nat
  BY DEF IInv, TypeOK
<1>2. 0 + 1 .. Len(fed) = 1 .. Len(fed)
  BY <1>1
<1> QED
  BY <1>1, <1>2 DEF Slices

LEMMA AllSlicesAfter ==
  ASSUME IInv, NEW c \in Contexts, NEW type \in Types, Takes(c, type), NEW d
  PROVE  Slices(d, 0)' = IF d = c /\ type = "ipb" THEN Slices(d, 0) \cup {Len(fed) + 1}
                         ELSE Slices(d, 0)
<1>1. /\ DOMAIN fed' = 1 .. Len(fed) + 1 /\ DOMAIN fed = 1 .. Len(fed)
      /\ Len(fed') = Len(fed) + 1 /\ Len(fed) \in Nat
      /\ \A k \in DOMAIN fed : fed'[k] = fed[k]
  BY Taken DEF IInv
<1>2. fed'[Len(fed) + 1].ctx = c /\ fed'[Len(fed) + 1].type = type
  <2>1. fed'[Len(fed) + 1] = [ctx |-> c, type |-> type]
    BY Taken DEF IInv
  <2> QED
    BY <2>1
<1>3. PICK n \in Nat : n = Len(fed)
  BY <1>1
<1>4. Slices(d, 0)' = {k \in 1 .. n + 1 : fed'[k].ctx = d /\ fed'[k].type = "ipb"}
  <2>1. 0 + 1 .. n + 1 = 1 .. n + 1
    OBVIOUS
  <2> QED
    BY <1>1, <1>3, <2>1 DEF Slices
<1>5. Slices(d, 0) = {k \in 1 .. n : fed[k].ctx = d /\ fed[k].type = "ipb"}
  BY <1>1, <1>3, AllSlices
<1>6. 1 .. n + 1 = (1 .. n) \cup {n + 1}
  OBVIOUS
<1> QED
  BY <1>1, <1>2, <1>3, <1>4, <1>5, <1>6

LEMMA LatestChosen ==
  ASSUME NEW f \in Seq(Nalus), NEW c, NEW k, IsLatest(f, c, k)
  PROVE  (CHOOSE j \in DOMAIN f : f[j].ctx = c /\ \A i \in j + 1 .. Len(f) : f[i].ctx # c) = k
<1>1. DOMAIN f = 1 .. Len(f) /\ Len(f) \in Nat
  OBVIOUS
<1>2. \A j \in DOMAIN f :
        f[j].ctx = c /\ (\A i \in j + 1 .. Len(f) : f[i].ctx # c) => j = k
  BY <1>1 DEF IsLatest
<1> QED
  BY <1>2 DEF IsLatest

(* A context that does not move.                                           *)
LEMMA OthersContinue ==
  ASSUME IInv, IInv', Continuing, NEW c \in Contexts, OnlyAdds(c),
         NEW d \in Contexts \ {c}, d \notin lost,
         pc'[d] = pc[d],
         context'[d].h264_sps_pps_sent = context[d].h264_sps_pps_sent
  PROVE  Continues(d)'
<1>1. wire'[d] = wire[d]
  <2>1. ASSUME NEW item \in Items, Writes(c, item) PROVE wire'[d] = wire[d]
    BY <2>1, Written DEF IInv
  <2> QED
    BY <2>1 DEF OnlyAdds, Takes
<1>2. Slices(d, 0)' = Slices(d, 0)
  <2>1. CASE UNCHANGED fed
    BY <2>1 DEF Slices
  <2>2. CASE \E type \in Types : Takes(c, type)
    BY <2>2, AllSlicesAfter
  <2> QED
    BY <2>1, <2>2 DEF OnlyAdds
<1>3. ASSUME pc[d] \in {"header", "frame"}
      PROVE  Latest(d)' = Latest(d) /\ fed'[Latest(d)] = fed[Latest(d)]
  <2>1. CASE UNCHANGED fed
    BY <2>1 DEF Latest
  <2>2. CASE \E type \in Types : Takes(c, type)
    <3>1. PICK k \in DOMAIN fed : IsLatest(fed, d, k)
      BY <1>3 DEF IInv, AtNalu
    <3>2. IsLatest(fed', d, k) /\ fed'[k] = fed[k]
      BY <2>2, <3>1, LatestTaken, Taken DEF IInv
    <3>3. Latest(d) = k
      BY <3>1, LatestIs DEF IInv
    <3>4. fed' \in Seq(Nalus)
      BY DEF IInv, TypeOK, Nalus
    <3>5. Latest(d)' = k
      BY <3>2, <3>4, LatestChosen DEF Latest
    <3> QED
      BY <3>2, <3>3, <3>5
  <2> QED
    BY <2>1, <2>2 DEF OnlyAdds
<1>4. InHand(d)' = InHand(d)
  BY <1>3 DEF InHand
<1>5. Continues(d)
  BY DEF Continuing
<1> QED
  BY <1>1, <1>2, <1>3, <1>4, <1>5 DEF Continues

LEMMA ContinuingStep ==
  ASSUME IInv, IInv', Continuing, NEW c \in Contexts, OnlyAdds(c),
         \A d \in Contexts \ {c} :
           /\ pc'[d] = pc[d]
           /\ context'[d].h264_sps_pps_sent = context[d].h264_sps_pps_sent,
         lost \subseteq lost',
         c \notin lost' => Continues(c)'
  PROVE  Continuing'
  BY OthersContinue DEF Continuing

(* The context that is fed.                                                *)
LEMMA ContinuingTake ==
  ASSUME IInv, IInv', Continuing, NEW c \in Contexts, NEW type \in Types, Takes(c, type),
         \A d \in Contexts \ {c} :
           /\ pc'[d] = pc[d]
           /\ context'[d].h264_sps_pps_sent = context[d].h264_sps_pps_sent,
         context[c].h264_sps_pps_sent => context'[c].h264_sps_pps_sent,
         \/ pc'[c] = "demux" /\ (type = "ipb" => ~context'[c].h264_sps_pps_sent)
         \/ pc'[c] = "frame" /\ context'[c].h264_sps_pps_sent /\ type = "ipb"
         \/ pc'[c] = "header" /\ context'[c].h264_sps_pps_sent /\ sps_pps_count_flag = 0
         \/ pc'[c] = "demux" /\ sps_pps_count_flag = 0
  PROVE  Continuing'
<1>1. pc[c] = "demux" /\ UNCHANGED <<wire, lost>>
  BY Taken DEF IInv
<1>2. OnlyAdds(c)
  BY DEF OnlyAdds
<1>3. ASSUME c \notin lost PROVE Continues(c)'
  <2>1. Unbroken(wire[c], Slices(c, 0), {})
    BY <1>1, <1>3 DEF Continuing, Continues, InHand
  <2>2. wire[c] # << >> => context[c].h264_sps_pps_sent /\ sps_pps_count_flag >= 1
    BY <1>3 DEF Continuing, Continues, IInv, Announced, Ordered
  <2>3. ASSUME wire[c] = << >> PROVE Unbroken(wire'[c], Slices(c, 0)', InHand(c)')
    <3>1. FramesOf(wire'[c]) = {}
      BY <1>1, <2>3 DEF FramesOf
    <3> QED
      BY <3>1, NoFrames
  <2>4. CASE type # "ipb" /\ pc'[c] = "demux"
    BY <1>1, <2>1, <2>2, <2>4, AllSlicesAfter DEF Continues, InHand
  <2>5. CASE type = "ipb" /\ pc'[c] = "demux"
    <3>1. wire[c] = << >>
      BY <2>2, <2>5 DEF IInv, TypeOK
    <3> QED
      BY <1>1, <2>3, <2>5, <3>1 DEF Continues
  <2>6. CASE pc'[c] = "header"
    <3>1. wire[c] = << >> /\ context'[c].h264_sps_pps_sent
      BY <2>2, <2>6
    <3> QED
      BY <2>3, <2>6, <3>1 DEF Continues
  <2>7. CASE pc'[c] = "frame"
    <3>1. type = "ipb" /\ context'[c].h264_sps_pps_sent
      BY <2>7
    <3>2. IsLatest(fed', c, Len(fed) + 1) /\ fed' \in Seq(Nalus)
      BY LatestTaken, Taken DEF IInv
    <3>3. Latest(c)' = Len(fed) + 1
      BY <3>2, LatestChosen DEF Latest
    <3>4. fed'[Len(fed) + 1].type = "ipb"
      <4>1. fed'[Len(fed) + 1] = [ctx |-> c, type |-> type]
        BY Taken DEF IInv
      <4> QED
        BY <3>1, <4>1
    <3>5. PICK k \in Nat : k = Len(fed) + 1 /\ Slices(c, 0) \subseteq 1 .. k - 1
      BY AllSlices
    <3>6. /\ Slices(c, 0) \in SUBSET Nat /\ \A j \in Slices(c, 0) : j < k
      BY <3>5
    <3>7. Unbroken(wire[c], Slices(c, 0) \cup {k}, {k})
      BY <2>1, <3>6, ComesInHand
    <3>8. Slices(c, 0)' = Slices(c, 0) \cup {k} /\ InHand(c)' = {k}
      BY <2>7, <3>1, <3>3, <3>5, AllSlicesAfter DEF InHand
    <3> QED
      BY <1>1, <2>7, <3>1, <3>3, <3>4, <3>7, <3>8 DEF Continues
  <2> QED
    BY <2>4, <2>5, <2>6, <2>7
<1> QED
  BY <1>1, <1>2, <1>3, ContinuingStep

LEMMA ContinuingTakes ==
  ASSUME IInv, IInv', Continuing, NEW c \in Contexts,
         \/ TakeSps(c) \/ TakePps(c)
         \/ \E type \in {"ipb", "aud"} : TakeSlice(c, type) \/ TakeSliceHeaderDue(c, type)
  PROVE  Continuing'
<1>1. /\ context \in [Contexts -> Fields]
      /\ pc \in [Contexts -> {"idle", "demux", "header", "frame"}]
  BY DEF IInv, TypeOK, Fields
<1>2. CASE TakeSps(c) \/ TakePps(c)
  <2>1. PICK type \in Types : Takes(c, type) /\ type # "ipb"
    BY <1>2 DEF TakeSps, TakePps, Types
  <2>2. pc[c] = "demux" /\ pc' = pc
    BY <1>2 DEF TakeSps, TakePps, Takes
  <2>3. PICK k : k = Len(fed) + 1
    OBVIOUS
  <2>4. \A d \in Contexts : context'[d].h264_sps_pps_sent = context[d].h264_sps_pps_sent
    <3>1. /\ KeepsSps(context[c], k).h264_sps_pps_sent = context[c].h264_sps_pps_sent
          /\ KeepsPps(context[c], k).h264_sps_pps_sent = context[c].h264_sps_pps_sent
      BY <1>1, Keeping
    <3>2. \/ context' = context
          \/ context' = [context EXCEPT ![c] = KeepsSps(@, k)]
          \/ context' = [context EXCEPT ![c] = KeepsPps(@, k)]
      BY <1>2, <2>3 DEF TakeSps, TakePps
    <3> QED
      BY <1>1, <3>1, <3>2
  <2> QED
    BY <2>1, <2>2, <2>4, ContinuingTake
<1>3. ASSUME NEW type \in {"ipb", "aud"}, TakeSlice(c, type) PROVE Continuing'
  <2>1. Takes(c, type) /\ type \in Types /\ UNCHANGED context
    BY <1>3 DEF TakeSlice, Types
  <2>2. \/ pc' = [pc EXCEPT ![c] = "demux"] /\ (type = "ipb" => ~context'[c].h264_sps_pps_sent)
        \/ pc' = [pc EXCEPT ![c] = "frame"] /\ context'[c].h264_sps_pps_sent /\ type = "ipb"
        \/ pc' = [pc EXCEPT ![c] = "demux"] /\ type # "ipb"
    BY <1>3 DEF TakeSlice, IpbFrame, HoldsBack
  <2> QED
    BY <1>1, <2>1, <2>2, ContinuingTake
<1>4. ASSUME NEW type \in {"ipb", "aud"}, TakeSliceHeaderDue(c, type) PROVE Continuing'
  <2>1. Takes(c, type) /\ type \in Types /\ sps_pps_count_flag = 0 /\ pc[c] = "demux"
    BY <1>4 DEF TakeSliceHeaderDue, HeaderDue, Takes, Types
  <2>2. PICK x \in Fields : x.h264_sps_pps_sent /\ x = [context[c] EXCEPT
            !.h264_sps_changed = FALSE, !.h264_pps_changed = FALSE, !.h264_sps_pps_sent = TRUE]
    BY <1>1 DEF Fields
  <2>3. \/ context' = context /\ pc' = pc
        \/ context' = [context EXCEPT ![c] = x] /\ pc' = [pc EXCEPT ![c] = "header"]
    BY <1>4, <2>2 DEF TakeSliceHeaderDue
  <2>4. /\ \A d \in Contexts \ {c} :
             /\ pc'[d] = pc[d]
             /\ context'[d].h264_sps_pps_sent = context[d].h264_sps_pps_sent
        /\ context[c].h264_sps_pps_sent => context'[c].h264_sps_pps_sent
        /\ \/ pc'[c] = "demux"
           \/ pc'[c] = "header" /\ context'[c].h264_sps_pps_sent
    BY <1>1, <2>1, <2>2, <2>3
  <2> QED
    BY <2>1, <2>4, ContinuingTake
<1> QED
  BY <1>2, <1>3, <1>4

LEMMA ContinuingWriteHeader ==
  ASSUME IInv, IInv', Continuing, NEW c \in Contexts, WriteHeader(c)
  PROVE  Continuing'
<1>1. /\ pc[c] = "header" /\ UNCHANGED <<context, fed, lost>>
      /\ pc \in [Contexts -> {"idle", "demux", "header", "frame"}]
  BY DEF WriteHeader, IInv, TypeOK
<1>2. PICK item \in Items : item.what = "header" /\ Writes(c, item)
  <2>1. PICK item \in Items :
          item = [what |-> "header", sps |-> context[c].h264_sps, pps |-> context[c].h264_pps]
    BY <1>1, HeaderItem DEF IInv
  <2> QED
    BY <2>1 DEF WriteHeader
<1>3. OnlyAdds(c)
  BY <1>1, <1>2 DEF OnlyAdds
<1>4. PICK k, type : k = Latest(c) /\ type = fed[Latest(c)].type
  OBVIOUS
<1>5. IpbFrame(c, k, type)
  BY <1>4 DEF WriteHeader
<1>6. \/ pc' = [pc EXCEPT ![c] = "demux"]
      \/ pc' = [pc EXCEPT ![c] = "frame"] /\ type = "ipb"
  BY <1>5 DEF IpbFrame
<1>7. ASSUME c \notin lost PROVE Continues(c)'
  <2>1. wire[c] = << >> /\ context[c].h264_sps_pps_sent
    BY <1>1, <1>7 DEF IInv, Announced, Ordered, Continuing, Continues
  <2>2. /\ Len(wire[c]) = 0 /\ DOMAIN wire'[c] = 1 .. Len(wire[c]) + 1
        /\ wire'[c][Len(wire[c]) + 1] = item
    BY <1>2, <2>1, Written DEF IInv
  <2>3. FramesOf(wire'[c]) = {}
    <3>1. DOMAIN wire'[c] = {1} /\ wire'[c][1] = item
      BY <2>2
    <3> QED
      BY <1>2, <3>1 DEF FramesOf
  <2>4. Unbroken(wire'[c], Slices(c, 0)', InHand(c)')
    BY <2>3, NoFrames
  <2>5. pc'[c] = "frame" => fed'[Latest(c)'].type = "ipb"
    BY <1>1, <1>4, <1>6 DEF Latest
  <2> QED
    BY <1>1, <2>1, <2>4, <2>5 DEF Continues
<1>8. \A d \in Contexts \ {c} : pc'[d] = pc[d]
  BY <1>1, <1>6
<1> QED
  BY <1>1, <1>3, <1>7, <1>8, ContinuingStep

LEMMA ContinuingWriteFrame ==
  ASSUME IInv, IInv', Continuing, NEW c \in Contexts, WriteFrame(c)
  PROVE  Continuing'
<1>1. /\ pc[c] = "frame" /\ pc' = [pc EXCEPT ![c] = "demux"]
      /\ UNCHANGED <<context, fed, lost>>
      /\ pc \in [Contexts -> {"idle", "demux", "header", "frame"}]
  BY DEF WriteFrame, IInv, TypeOK
<1>2. Latest(c) \in DOMAIN fed /\ IsLatest(fed, c, Latest(c))
  BY <1>1, HeaderItem DEF IInv
<1>3. PICK k \in DOMAIN fed : k = Latest(c) /\ IsLatest(fed, c, k)
  BY <1>2
<1>4. PICK item \in Items : item = [what |-> "frame", k |-> k] /\ Writes(c, item)
  BY <1>1, <1>3, HeaderItem DEF WriteFrame, IInv
<1>5. item.what = "frame" /\ item.k = k
  BY <1>4
<1>6. OnlyAdds(c)
  BY <1>1, <1>4 DEF OnlyAdds
<1>7. ASSUME c \notin lost PROVE Continues(c)'
  <2>1. /\ Unbroken(wire[c], Slices(c, 0), {k}) /\ fed[k].type = "ipb"
        /\ context[c].h264_sps_pps_sent
    BY <1>1, <1>3, <1>7 DEF Continuing, Continues, InHand, IInv, Announced, Ordered
  <2>2. k \in Slices(c, 0) /\ Slices(c, 0) \in SUBSET Nat
    BY <1>3, <2>1, AllSlices DEF IsLatest
  <2>3. ASSUME NEW j \in Slices(c, 0) PROVE j <= k
    <3>1. j \in DOMAIN fed /\ fed[j].ctx = c /\ j \in 1 .. Len(fed) /\ Len(fed) \in Nat
      BY AllSlices
    <3>2. j \notin k + 1 .. Len(fed)
      BY <1>3, <3>1 DEF IsLatest
    <3> QED
      BY <2>2, <3>1, <3>2
  <2>4. PICK last \in Nat :
          /\ DOMAIN wire[c] = 1 .. last /\ DOMAIN wire'[c] = 1 .. last + 1
          /\ \A n \in 1 .. last : wire'[c][n] = wire[c][n]
          /\ wire'[c][last + 1] = item
    <3>1. /\ Len(wire[c]) \in Nat /\ DOMAIN wire[c] = 1 .. Len(wire[c])
          /\ DOMAIN wire'[c] = 1 .. Len(wire[c]) + 1
          /\ \A n \in DOMAIN wire[c] : wire'[c][n] = wire[c][n]
          /\ wire'[c][Len(wire[c]) + 1] = item
      BY <1>4, Written DEF IInv
    <3> QED
      BY <3>1
  <2>5. Unbroken(wire'[c], Slices(c, 0), {})
    BY <1>5, <2>1, <2>2, <2>3, <2>4, GoesOut
  <2>6. Slices(c, 0)' = Slices(c, 0) /\ pc'[c] = "demux"
    BY <1>1 DEF Slices
  <2> QED
    BY <1>1, <2>1, <2>5, <2>6 DEF Continues, InHand
<1>8. \A d \in Contexts \ {c} : pc'[d] = pc[d]
  BY <1>1
<1> QED
  BY <1>1, <1>6, <1>7, <1>8, ContinuingStep

LEMMA ContinuingOtherwise ==
  ASSUME IInv, IInv', Continuing, NEW c \in Contexts, Call(c) \/ WriteFails(c) \/ Return(c)
  PROVE  Continuing'
<1>1. /\ UNCHANGED <<context, fed, wire>> /\ lost \subseteq lost'
      /\ pc \in [Contexts -> {"idle", "demux", "header", "frame"}]
  BY DEF Call, WriteFails, Return, IInv, TypeOK
<1>2. OnlyAdds(c)
  BY <1>1 DEF OnlyAdds
<1>3. \A d \in Contexts \ {c} : pc'[d] = pc[d]
  BY <1>1 DEF Call, WriteFails, Return
<1>4. ASSUME c \notin lost' PROVE Continues(c)'
  <2>1. Call(c) \/ Return(c)
    BY <1>4 DEF WriteFails
  <2>2. pc[c] \in {"idle", "demux"} /\ pc'[c] \in {"idle", "demux"} /\ c \notin lost
    BY <1>1, <1>4, <2>1 DEF Call, Return
  <2>3. Continues(c)
    BY <2>2 DEF Continuing
  <2> QED
    BY <1>1, <2>2, <2>3 DEF Continues, InHand, Slices
<1> QED
  BY <1>1, <1>2, <1>3, <1>4, ContinuingStep

LEMMA ContinuingKept == IInv /\ IInv' /\ Continuing /\ [Next]_vars => Continuing'
<1> SUFFICES ASSUME IInv, IInv', Continuing, [Next]_vars PROVE Continuing'
  OBVIOUS
<1>1. CASE UNCHANGED vars
  <2>1. UNCHANGED <<context, pc, fed, wire, lost>>
    BY <1>1 DEF vars
  <2>2. ASSUME NEW c \in Contexts, Continues(c) PROVE Continues(c)'
    <3>1. Latest(c)' = Latest(c) /\ Slices(c, 0)' = Slices(c, 0)
      BY <2>1 DEF Latest, Slices
    <3>2. InHand(c)' = InHand(c)
      BY <2>1, <3>1 DEF InHand
    <3> QED
      BY <2>1, <2>2, <3>1, <3>2 DEF Continues
  <2> QED
    BY <2>1, <2>2 DEF Continuing
<1> QED
  BY <1>1, ContinuingTakes, ContinuingWriteHeader, ContinuingWriteFrame, ContinuingOtherwise DEF Next

(* Dropping never starts again on a connection that has slices out, and    *)
(* none of them goes out twice or out of order.                            *)
THEOREM NoneIsMissing == Spec => []NoGaps
<1>1. Init => Continuing
  <2> SUFFICES ASSUME Init, NEW c \in Contexts PROVE Continues(c)
    BY DEF Continuing
  <2>1. wire[c] = << >> /\ pc[c] = "idle"
    BY DEF Init
  <2>2. FramesOf(wire[c]) = {}
    BY <2>1 DEF FramesOf
  <2> QED
    BY <2>1, <2>2, NoFrames DEF Continues
<1>2. Continuing => NoGaps
  BY DEF Continuing, Continues, NoGaps
<1>3. Spec => []Continuing
  BY <1>1, ContinuingKept, Invariance, PTL DEF Spec
<1> QED
  BY <1>2, <1>3, PTL
=============================================================================
