-------------------------- MODULE FastStreamProofs --------------------------
(***************************************************************************)
(* Proofs about FastStream, for every block size, request size and amount  *)
(* of data: the invariants MCFastStream checks on a small block are        *)
(* inductive together, and the buffer implements the byte queue.           *)
(***************************************************************************)
EXTENDS FastStream, SequenceTheorems, TLAPS

(* No slice is outstanding while grow reads or after the assertion fired.  *)
NoSliceWhileBusy == mode # "idle" => out = << >>

IInv ==
  /\ TypeOK
  /\ UnreadInOrder
  /\ RecvFitsBlock
  /\ SliceCanBePutBack
  /\ NoSliceWhileBusy

LEMMA InitIInv == Init => IInv
  BY SizesAssumption
  DEF Init, IInv, TypeOK, UnreadInOrder, RecvFitsBlock, SliceCanBePutBack,
      NoSliceWhileBusy, Offsets, NoByte

(* What the parts of IInv say about numbers, which every step needs.       *)
LEMMA Bounds ==
  ASSUME IInv
  PROVE  /\ p \in Nat /\ end \in Nat /\ nb_buffer \in Nat /\ room \in Nat
         /\ arrived \in Nat /\ MaxBuffer \in Nat
         /\ p <= end /\ end <= nb_buffer /\ nb_buffer <= MaxBuffer
         /\ Exists \in Nat
  BY SizesAssumption DEF IInv, TypeOK, UnreadInOrder, Exists

(* An empty slice satisfies what the invariant says of slices.             *)
LEMMA EmptySlice ==
  << >> \in Seq(Int) /\ Len(<< >>) = 0
  BY EmptySeq

-----------------------------------------------------------------------------
LEMMA GrowEnoughIInv ==
  ASSUME IInv, NEW n \in 1..MaxRequest, GrowEnough(n)
  PROVE  IInv'
  BY EmptySlice
  DEF GrowEnough, IInv, TypeOK, UnreadInOrder, RecvFitsBlock, SliceCanBePutBack,
      NoSliceWhileBusy, Exists

LEMMA GrowInPlaceIInv ==
  ASSUME IInv, NEW n \in 1..MaxRequest, GrowInPlace(n)
  PROVE  IInv'
  BY EmptySlice, Bounds, SizesAssumption
  DEF GrowInPlace, StartReading, IInv, TypeOK, UnreadInOrder, RecvFitsBlock,
      SliceCanBePutBack, NoSliceWhileBusy, Exists, FreeSpace

LEMMA GrowAbortsIInv ==
  ASSUME IInv, NEW n \in 1..MaxRequest, GrowAborts(n)
  PROVE  IInv'
  BY EmptySlice
  DEF GrowAborts, IInv, TypeOK, UnreadInOrder, RecvFitsBlock, SliceCanBePutBack,
      NoSliceWhileBusy, Exists

(* The move keeps the unread bytes: offset i now holds what p + i held.    *)
LEMMA GrowMovingIInv ==
  ASSUME IInv, NEW n \in 1..MaxRequest, GrowMoving(n)
  PROVE  IInv'
<1> USE DEF GrowMoving, AfterMove, StartReading
<1>1. TypeOK'
  <2>1. buffer' \in [Offsets -> Int]
    BY Bounds DEF IInv, TypeOK, Moved, Offsets, Exists
  <2>2. QED
    BY <2>1, EmptySlice, Bounds, SizesAssumption DEF IInv, TypeOK, Exists
<1>2. UnreadInOrder'
  <2>1. p' <= end' /\ end' <= nb_buffer'
    BY Bounds DEF Exists
  <2>2. ASSUME NEW i \in Offsets, p' <= i, i < end'
        PROVE  buffer'[i] = arrived' - (end' - i)
    <3>1. i < Exists /\ p + i \in Offsets /\ p <= p + i /\ p + i < end
      BY <2>2, Bounds DEF Exists, Offsets
    <3>2. buffer[p + i] = arrived - (end - (p + i))
      BY <3>1 DEF IInv, UnreadInOrder
    <3>3. buffer'[i] = buffer[p + i]
      BY <2>2, <3>1 DEF Moved
    <3>4. QED
      BY <2>2, <3>2, <3>3, Bounds DEF Exists, Offsets
  <2>3. QED
    BY <2>1, <2>2 DEF UnreadInOrder
<1>3. RecvFitsBlock'
  BY Bounds DEF IInv, RecvFitsBlock, TypeOK, Exists
<1>4. SliceCanBePutBack' /\ NoSliceWhileBusy'
  BY DEF SliceCanBePutBack, NoSliceWhileBusy
<1>5. QED
  BY <1>1, <1>2, <1>3, <1>4 DEF IInv

-----------------------------------------------------------------------------
LEMMA RecvIInv ==
  ASSUME IInv, NEW k \in 1..MaxBuffer, Recv(k)
  PROVE  IInv'
<1>0. /\ end + k <= nb_buffer /\ k \in Nat /\ out = << >>
      /\ end' = end + k /\ arrived' = arrived + k /\ p' = p /\ nb_buffer' = nb_buffer
  BY Bounds, SizesAssumption DEF Recv, IInv, RecvFitsBlock, NoSliceWhileBusy
<1>1. TypeOK'
  <2>1. buffer' \in [Offsets -> Int]
    BY Bounds, <1>0 DEF Recv, IInv, TypeOK, Offsets
  <2>2. QED
    BY <2>1, <1>0, Bounds, SizesAssumption DEF Recv, IInv, TypeOK
<1>2. UnreadInOrder'
  <2>1. p' <= end' /\ end' <= nb_buffer'
    BY <1>0, Bounds
  <2>2. ASSUME NEW i \in Offsets, p' <= i, i < end'
        PROVE  buffer'[i] = arrived' - (end' - i)
    <3>0. i \in Int
      BY Bounds DEF Offsets
    <3>1. CASE i < end
      <4>1. buffer[i] = arrived - (end - i)
        BY <2>2, <1>0, <3>1 DEF IInv, UnreadInOrder
      <4>2. buffer'[i] = buffer[i]
        BY <3>0, <3>1, Bounds DEF Recv
      <4>3. QED
        BY <3>0, <4>1, <4>2, <1>0, Bounds
    <3>2. CASE i >= end
      <4>1. buffer'[i] = arrived + (i - end)
        BY <2>2, <3>2, <1>0 DEF Recv
      <4>2. QED
        BY <3>0, <4>1, <1>0, Bounds
    <3>3. QED
      BY <3>0, <3>1, <3>2, Bounds
  <2>3. QED
    BY <2>1, <2>2 DEF UnreadInOrder
<1>3. RecvFitsBlock'
  BY <1>0, Bounds, SizesAssumption DEF Recv, IInv, RecvFitsBlock, TypeOK, Exists
<1>4. SliceCanBePutBack' /\ NoSliceWhileBusy'
  BY <1>0 DEF Recv, SliceCanBePutBack, NoSliceWhileBusy
<1>5. QED
  BY <1>1, <1>2, <1>3, <1>4 DEF IInv

LEMMA RecvFailsIInv ==
  ASSUME IInv, RecvFails
  PROVE  IInv'
  BY DEF RecvFails, IInv, TypeOK, UnreadInOrder, RecvFitsBlock, SliceCanBePutBack,
         NoSliceWhileBusy, Exists

-----------------------------------------------------------------------------
(* What read_slice hands out: as many bytes as asked for, from p on.       *)
LEMMA ReadSliceOut ==
  ASSUME IInv, NEW n \in 1..MaxRequest, ReadSlice(n)
  PROVE  /\ out' \in Seq(Int)
         /\ Len(out') = n
         /\ \A i \in 1..n : /\ out'[i] = buffer[p + i - 1]
                             /\ buffer[p + i - 1] = arrived - (end - (p + i - 1))
<1>0. n \in Nat /\ n <= Exists
  BY SizesAssumption, Bounds DEF ReadSlice, Exists
<1>1. ASSUME NEW i \in 1..n
      PROVE  /\ p + i - 1 \in Offsets
             /\ buffer[p + i - 1] = arrived - (end - (p + i - 1))
  <2>1. /\ p + i - 1 \in Offsets
        /\ p <= p + i - 1 /\ p + i - 1 < end
    BY <1>0, Bounds DEF Offsets, Exists
  <2>2. QED
    BY <2>1 DEF IInv, UnreadInOrder
<1>2. out' = [i \in 1..n |-> buffer[p + i - 1]]
  BY DEF ReadSlice
<1>3. \A i \in 1..n : buffer[p + i - 1] \in Int
  BY <1>1 DEF IInv, TypeOK
<1>4. out' \in [1..n -> Int]
  BY <1>2, <1>3
<1>5. out' \in Seq(Int) /\ Len(out') = n
  <2>1. out' \in Seq(Int)
    BY <1>0, <1>4, SeqDef
  <2>2. DOMAIN out' = 1..n /\ DOMAIN out' = 1..Len(out') /\ Len(out') \in Nat
    BY <2>1, <1>4, LenProperties
  <2>3. QED
    BY <1>0, <2>1, <2>2
<1>6. ASSUME NEW i \in 1..n
      PROVE  out'[i] = buffer[p + i - 1]
  BY <1>2
<1>7. QED
  BY <1>1, <1>5, <1>6

LEMMA ReadSliceIInv ==
  ASSUME IInv, NEW n \in 1..MaxRequest, ReadSlice(n)
  PROVE  IInv'
<1>0. /\ n \in Nat /\ n <= Exists /\ p' = p + n
      /\ end' = end /\ arrived' = arrived /\ buffer' = buffer /\ nb_buffer' = nb_buffer
      /\ mode' = "idle" /\ required' = required /\ room' = room /\ ret' = ret
  BY SizesAssumption, Bounds DEF ReadSlice, Exists
<1>1. TypeOK'
  <2>1. p' \in Nat /\ out' \in Seq(Int)
    BY <1>0, ReadSliceOut, Bounds
  <2>2. QED
    BY <1>0, <2>1 DEF IInv, TypeOK
<1>2. UnreadInOrder'
  <2>1. p' <= end' /\ end' <= nb_buffer'
    BY <1>0, Bounds DEF Exists
  <2>2. ASSUME NEW i \in Offsets, p' <= i, i < end'
        PROVE  buffer'[i] = arrived' - (end' - i)
    <3>1. p <= i /\ i < end
      BY <1>0, <2>2, Bounds DEF Offsets
    <3>2. QED
      BY <1>0, <3>1 DEF IInv, UnreadInOrder
  <2>3. QED
    BY <2>1, <2>2 DEF UnreadInOrder
<1>3. SliceCanBePutBack'
  <2>1. Len(out') <= p'
    BY <1>0, ReadSliceOut, Bounds
  <2>2. ASSUME NEW i \in 1..Len(out')
        PROVE  buffer'[p' - Len(out') + i - 1] = arrived' - (Exists' + Len(out')) + i - 1
    <3>1. i \in 1..n /\ i \in Int /\ Len(out') = n
      BY ReadSliceOut
    <3>2. p' - n + i - 1 = p + i - 1
      BY <3>1, <1>0, Bounds
    <3>3. buffer[p + i - 1] = arrived - (end - (p + i - 1))
      BY <3>1, ReadSliceOut
    <3>4. arrived - (end - (p + i - 1)) = arrived' - (Exists' + n) + i - 1
      <4>1. p \in Int /\ end \in Int /\ arrived \in Int /\ n \in Int /\ i \in Int
        BY <3>1, Bounds
      <4>2. arrived' = arrived /\ Exists' = end - (p + n)
        BY <1>0 DEF Exists
      <4>3. arrived - (end - (p + i - 1)) = arrived - ((end - (p + n)) + n) + i - 1
        BY ONLY <4>1
      <4>4. QED
        BY <4>2, <4>3
    <3>5. QED
      BY <3>1, <3>2, <3>3, <3>4, <1>0
  <2>3. QED
    BY <2>1, <2>2 DEF SliceCanBePutBack
<1>4. RecvFitsBlock' /\ NoSliceWhileBusy'
  BY <1>0 DEF RecvFitsBlock, NoSliceWhileBusy
<1>5. QED
  BY <1>1, <1>2, <1>3, <1>4 DEF IInv

LEMMA SkipBackIInv ==
  ASSUME IInv, SkipBack
  PROVE  IInv'
<1>p. PICK len \in Nat : len = Len(out)
  BY EmptySeq DEF IInv, TypeOK
<1>0. /\ mode = "idle" /\ out # << >>
      /\ len \in Nat /\ len > 0 /\ len <= p
      /\ p' = p - len /\ end' = end /\ out' = << >> /\ mode' = mode
      /\ arrived' = arrived /\ buffer' = buffer /\ nb_buffer' = nb_buffer
      /\ required' = required /\ room' = room /\ ret' = ret
  BY <1>p, EmptySeq DEF SkipBack, IInv, TypeOK, SliceCanBePutBack
<1>s. \A j \in 1..len : buffer[p - len + j - 1] = arrived - (Exists + len) + j - 1
  BY <1>p, <1>0 DEF IInv, SliceCanBePutBack
<1>n. p \in Nat /\ end \in Nat /\ arrived \in Nat /\ Exists = end - p
  BY Bounds DEF Exists
<1>1. TypeOK'
  <2>1. p' \in Nat
    BY <1>0, Bounds
  <2>2. QED
    BY <1>0, <2>1, EmptySlice DEF IInv, TypeOK
<1>2. UnreadInOrder'
  <2>1. p' <= end' /\ end' <= nb_buffer'
    BY <1>0, Bounds
  <2>2. ASSUME NEW i \in Offsets, p' <= i, i < end'
        PROVE  buffer'[i] = arrived' - (end' - i)
    <3>0. i \in Int
      BY Bounds DEF Offsets
    <3>1. CASE i >= p
      BY <1>0, <2>2, <3>1 DEF IInv, UnreadInOrder
    <3>2. CASE i < p
      <4>0. PICK j \in Int : j = i - p + len + 1
        BY <1>0, <3>0, Bounds
      <4>1. j \in 1..len /\ p - len + j - 1 = i
        <5>1. p - len <= i
          BY <1>0, <2>2
        <5>2. QED
          BY <4>0, <3>0, <3>2, <5>1, <1>n
      <4>2. buffer[p - len + j - 1] = arrived - (Exists + len) + j - 1
        BY <1>s, <4>1
      <4>3. arrived - (Exists + len) + j - 1 = arrived - (end - i)
        BY <4>0, <3>0, <1>n
      <4>4. QED
        BY <1>0, <4>1, <4>2, <4>3
    <3>3. QED
      BY <3>0, <3>1, <3>2, Bounds
  <2>3. QED
    BY <2>1, <2>2 DEF UnreadInOrder
<1>3. RecvFitsBlock' /\ SliceCanBePutBack' /\ NoSliceWhileBusy'
  BY <1>0 DEF RecvFitsBlock, SliceCanBePutBack, NoSliceWhileBusy
<1>4. QED
  BY <1>1, <1>2, <1>3 DEF IInv

LEMMA SetBufferIInv ==
  ASSUME IInv, NEW size \in 1 .. MaxBuffer + 1, SetBuffer(size)
  PROVE  IInv'
<1>0. /\ nb_buffer' \in DefaultBuffer..MaxBuffer /\ nb_buffer' > nb_buffer
  BY Bounds, SizesAssumption DEF SetBuffer, Resized, IInv, TypeOK
<1>1. QED
  BY <1>0, EmptySlice, Bounds
  DEF SetBuffer, IInv, TypeOK, UnreadInOrder, RecvFitsBlock, SliceCanBePutBack,
      NoSliceWhileBusy, Exists

-----------------------------------------------------------------------------
LEMMA StepIInv ==
  ASSUME IInv, [Next]_vars
  PROVE  IInv'
<1>1. ASSUME NEW n \in 1..MaxRequest, Grow(n)
      PROVE  IInv'
  BY <1>1, GrowEnoughIInv, GrowInPlaceIInv, GrowMovingIInv, GrowAbortsIInv DEF Grow
<1>2. ASSUME NEW n \in 1..MaxRequest, ReadSlice(n)
      PROVE  IInv'
  BY <1>2, ReadSliceIInv
<1>3. ASSUME NEW k \in 1..MaxBuffer, Recv(k)
      PROVE  IInv'
  BY <1>3, RecvIInv
<1>4. CASE RecvFails
  BY <1>4, RecvFailsIInv
<1>5. CASE SkipBack
  BY <1>5, SkipBackIInv
<1>6. ASSUME NEW size \in 1 .. MaxBuffer + 1, SetBuffer(size)
      PROVE  IInv'
  BY <1>6, SetBufferIInv
<1>7. CASE UNCHANGED vars
  BY <1>7
  DEF vars, IInv, TypeOK, UnreadInOrder, RecvFitsBlock, SliceCanBePutBack,
      NoSliceWhileBusy, Exists
<1>8. QED
  BY <1>1, <1>2, <1>3, <1>4, <1>5, <1>6, <1>7 DEF Next

(* Every reachable state satisfies the inductive invariant.                *)
LEMMA Invariance == Spec => []IInv
  BY InitIInv, StepIInv, PTL DEF Spec

(* The variables keep their types: in particular the block never exceeds   *)
(* SRS_MAX_SOCKET_BUFFER and nothing beyond the peer's bytes is counted.   *)
THEOREM TypeCorrect == Spec => []TypeOK
<1>1. IInv => TypeOK
  BY DEF IInv
<1>2. QED
  BY <1>1, Invariance, PTL

(* The unread bytes are the last ones that arrived, in order, for every    *)
(* block size and every pattern of short, failed and retried receives.     *)
THEOREM UnreadStaysInOrder == Spec => []UnreadInOrder
<1>1. IInv => UnreadInOrder
  BY DEF IInv
<1>2. QED
  BY <1>1, Invariance, PTL

(* No recv is asked for zero bytes or for more than the block can take.    *)
THEOREM RecvAlwaysFits == Spec => []RecvFitsBlock
<1>1. IInv => RecvFitsBlock
  BY DEF IInv
<1>2. QED
  BY <1>1, Invariance, PTL

(* skip(-n) of the last slice always finds the bytes it gives back.        *)
THEOREM PutBackIsSound == Spec => []SliceCanBePutBack
<1>1. IInv => SliceCanBePutBack
  BY DEF IInv
<1>2. QED
  BY <1>1, Invariance, PTL

-----------------------------------------------------------------------------
LEMMA RefusalStep ==
  ASSUME IInv, [Next]_vars, NEW n \in 1..MaxRequest, Grow(n),
         ret' = "overflow" \/ mode' = "aborted"
  PROVE  n > nb_buffer
<1>1. CASE GrowEnough(n)
  BY <1>1 DEF GrowEnough
<1>2. CASE GrowInPlace(n)
  BY <1>2 DEF GrowInPlace, StartReading
<1>3. CASE GrowMoving(n)
  <2>1. ~(nb_buffer - Exists >= n - Exists)
    BY <1>3 DEF GrowMoving, AfterMove, StartReading
  <2>2. QED
    BY <2>1, Bounds, SizesAssumption
<1>4. CASE GrowAborts(n)
  BY <1>4, Bounds, SizesAssumption DEF GrowAborts, FillsBlock
<1>5. QED
  BY <1>1, <1>2, <1>3, <1>4 DEF Grow

(* grow fails for want of room only when the block itself is too small.    *)
THEOREM RefusalsAreJustified == Spec => RefusesOnlyOversize
<1>1. IInv /\ [Next]_vars
        => [\A n \in 1..MaxRequest :
              Grow(n) /\ (ret' = "overflow" \/ mode' = "aborted") => n > nb_buffer]_vars
  BY RefusalStep
<1>2. QED
  BY <1>1, Invariance, PTL DEF Spec, RefusesOnlyOversize

-----------------------------------------------------------------------------
(* Refinement: a recv is Receive, read_slice is Take, skip(-n) is PutBack, *)
(* the other steps give up the slice or stutter.                           *)
LEMMA QueueInit == Init => Queue!Init
  BY DEF Init, Queue!Init, Exists

LEMMA QueueGrow ==
  ASSUME IInv, NEW n \in 1..MaxRequest, Grow(n)
  PROVE  [Queue!Next]_(Queue!vars)
<1>1. /\ out' = << >> /\ arrived' = arrived
      /\ end' - p' = end - p
  BY Bounds DEF Grow, GrowEnough, GrowInPlace, GrowMoving, GrowAborts, Exists
<1>2. QED
  BY <1>1 DEF Queue!Next, Queue!GiveUpSlice, Exists

LEMMA QueueRecv ==
  ASSUME IInv, NEW k \in 1..MaxBuffer, Recv(k)
  PROVE  [Queue!Next]_(Queue!vars)
<1>1. /\ out = << >> /\ out' = out /\ k \in Nat /\ k > 0
      /\ arrived' = arrived + k /\ end' = end + k /\ p' = p
  BY Bounds DEF Recv, IInv, NoSliceWhileBusy
<1>2. arrived' \in Nat /\ arrived' > arrived
  BY <1>1, Bounds
<1>3. arrived' - Exists' = arrived - Exists
  BY <1>1, Bounds DEF Exists
<1>4. QED
  BY <1>1, <1>2, <1>3 DEF Queue!Next, Queue!Receive

LEMMA QueueReadSlice ==
  ASSUME IInv, NEW n \in 1..MaxRequest, ReadSlice(n)
  PROVE  [Queue!Next]_(Queue!vars)
<1>1. n \in Nat /\ n <= Exists /\ p' = p + n /\ end' = end /\ arrived' = arrived
  BY SizesAssumption DEF ReadSlice
<1>2. n \in 0 .. arrived - (arrived - Exists)
  BY <1>1, Bounds
<1>3. out' = [i \in 1..n |-> (arrived - Exists) + i - 1]
  <2>1. ASSUME NEW i \in 1..n
        PROVE  buffer[p + i - 1] = (arrived - Exists) + i - 1
    <3>1. buffer[p + i - 1] = arrived - (end - (p + i - 1))
      BY ReadSliceOut
    <3>2. p \in Nat /\ end \in Nat /\ arrived \in Nat /\ i \in Int /\ Exists = end - p
      BY Bounds DEF Exists
    <3>3. QED
      BY <3>1, <3>2
  <2>2. QED
    BY <2>1 DEF ReadSlice
<1>4. arrived' - Exists' = (arrived - Exists) + n
  BY <1>1, Bounds DEF Exists
<1>5. QED
  BY <1>1, <1>2, <1>3, <1>4 DEF Queue!Next, Queue!Take, Queue!Slice

LEMMA QueueSkipBack ==
  ASSUME IInv, SkipBack
  PROVE  [Queue!Next]_(Queue!vars)
<1>1. PICK len \in Nat : len = Len(out)
  BY EmptySeq DEF IInv, TypeOK
<1>2. p' = p - len /\ end' = end /\ arrived' = arrived /\ out' = << >>
  BY <1>1 DEF SkipBack
<1>3. arrived' - Exists' = (arrived - Exists) - len
  BY <1>2, Bounds DEF Exists
<1>4. QED
  BY <1>1, <1>2, <1>3 DEF Queue!Next, Queue!PutBack

LEMMA QueueOther ==
  ASSUME IInv, RecvFails \/ UNCHANGED vars \/ \E size \in 1 .. MaxBuffer + 1 : SetBuffer(size)
  PROVE  [Queue!Next]_(Queue!vars)
<1>1. CASE RecvFails \/ UNCHANGED vars
  BY <1>1 DEF RecvFails, vars, Queue!vars, Exists
<1>2. CASE \E size \in 1 .. MaxBuffer + 1 : SetBuffer(size)
  BY <1>2 DEF SetBuffer, Queue!Next, Queue!GiveUpSlice, Exists
<1>3. QED
  BY <1>1, <1>2

(* Whatever the block size and the receives, the reader sees the stream as *)
(* the byte queue hands it out: no byte lost, repeated or out of order.    *)
THEOREM Refinement == Spec => ImplementsQueue
<1>1. IInv /\ [Next]_vars => [Queue!Next]_(Queue!vars)
  BY QueueGrow, QueueRecv, QueueReadSlice, QueueSkipBack, QueueOther DEF Next
<1>2. QED
  BY <1>1, QueueInit, Invariance, PTL DEF Spec, Queue!Spec, ImplementsQueue
=============================================================================
