----------------------------- MODULE FastStream -----------------------------
(***************************************************************************)
(* SrsFastStream (rtmp_socket_to_buffer.c): the buffer between the socket  *)
(* and the chunk reader.  One malloc'ed block, a read pointer p and an end *)
(* pointer; grow(n) receives until n unread bytes are there, moving what   *)
(* is unread to the front when the tail of the block is too short.         *)
(*                                                                         *)
(* Pointers are offsets into the block.  A byte of the stream is its       *)
(* position in the stream, NoByte is heap memory nobody wrote.  The socket *)
(* is the environment: each recv may return any number of bytes that fits  *)
(* the length asked for, or fail.                                          *)
(***************************************************************************)
EXTENDS Integers, Sequences

CONSTANTS
  DefaultBuffer,  \* SRS_DEFAULT_RECV_BUFFER_SIZE
  MaxBuffer,      \* SRS_MAX_SOCKET_BUFFER
  MaxRequest,     \* bound: the largest size a caller asks for
  MaxBytes        \* bound: the bytes the peer ever sends

ASSUME SizesAssumption ==
  /\ DefaultBuffer \in Nat \ {0}
  /\ MaxBuffer \in Nat
  /\ DefaultBuffer <= MaxBuffer
  /\ MaxRequest \in Nat
  /\ MaxBytes \in Nat

VARIABLES
  buffer,     \* the block: what each offset holds
  nb_buffer,  \* its size
  p, end,     \* offsets of the first unread byte and of the free space
  mode,       \* "idle", "reading" inside grow's loop, "aborted" by srs_assert
  required,   \* grow's required_size while it reads
  room,       \* grow's nb_free_space while it reads
  ret,        \* what the last grow returned
  arrived,    \* bytes received so far
  out         \* the bytes behind the pointer read_slice returned last, or << >>

vars == <<buffer, nb_buffer, p, end, mode, required, room, ret, arrived, out>>

NoByte == -1
Offsets == 0 .. MaxBuffer - 1
Exists == end - p             \* nb_exists_bytes, srs_fast_stream_size
(* Seeded fault: free space counted as if the unread bytes stood in front. *)
FreeSpaceFromFront == nb_buffer - Exists

FreeSpace == nb_buffer - end  \* nb_free_space

Init ==
  /\ buffer = [i \in Offsets |-> NoByte]
  /\ nb_buffer = DefaultBuffer
  /\ p = 0 /\ end = 0
  /\ mode = "idle" /\ required = 0 /\ room = 0 /\ ret = "ok"
  /\ arrived = 0
  /\ out = << >>

-----------------------------------------------------------------------------
(* grow(n), as far as its first recv.                                      *)

GrowEnough(n) ==
  /\ mode = "idle"
  /\ Exists >= n
  /\ ret' = "ok"
  /\ out' = << >>
  /\ UNCHANGED <<buffer, nb_buffer, p, end, mode, required, room, arrived>>

(* Enter the read loop with f free bytes behind end.                       *)
StartReading(n, f) ==
  /\ mode' = "reading"
  /\ required' = n
  /\ room' = f
  /\ ret' = "ok"

GrowInPlace(n) ==
  /\ mode = "idle"
  /\ Exists < n
  /\ FreeSpace >= n - Exists
  /\ StartReading(n, FreeSpace)
  /\ out' = << >>
  /\ UNCHANGED <<buffer, nb_buffer, p, end, arrived>>

(* The memmove to the front; with nothing unread it is the reset.          *)
(* Seeded fault: the pointers go to the front and the bytes do not.        *)
NotMoved == buffer

Moved == [i \in Offsets |-> IF i < Exists THEN buffer[p + i] ELSE buffer[i]]

(* The assertion before the move: what is unread does not fill the block.  *)
FillsBlock == Exists > 0 /\ Exists >= nb_buffer

(* After the move nb_buffer - Exists bytes are free: read into them, or    *)
(* give up when n bytes do not fit the block at all.                       *)
(* Seeded fault: the free space is not computed again after the move.      *)
AfterMoveStale(n) ==
  IF FreeSpace >= n - Exists
  THEN StartReading(n, FreeSpace)
  ELSE ret' = "overflow" /\ UNCHANGED <<mode, required, room>>

AfterMove(n) ==
  IF nb_buffer - Exists >= n - Exists
  THEN StartReading(n, nb_buffer - Exists)
  ELSE ret' = "overflow" /\ UNCHANGED <<mode, required, room>>

GrowMoving(n) ==
  /\ mode = "idle"
  /\ Exists < n
  /\ FreeSpace < n - Exists
  /\ ~FillsBlock
  /\ buffer' = Moved
  /\ p' = 0
  /\ end' = Exists
  /\ AfterMove(n)
  /\ out' = << >>
  /\ UNCHANGED <<nb_buffer, arrived>>

GrowAborts(n) ==
  /\ mode = "idle"
  /\ Exists < n
  /\ FreeSpace < n - Exists
  /\ FillsBlock
  /\ mode' = "aborted"
  /\ out' = << >>
  /\ UNCHANGED <<buffer, nb_buffer, p, end, required, room, ret, arrived>>

Grow(n) == GrowEnough(n) \/ GrowInPlace(n) \/ GrowMoving(n) \/ GrowAborts(n)

-----------------------------------------------------------------------------
(* The read loop.                                                          *)

(* recv returns k bytes, at most the length it was asked for.              *)
Recv(k) ==
  /\ mode = "reading"
  /\ k <= room
  /\ arrived + k <= MaxBytes
  /\ buffer' = [i \in Offsets |-> IF i >= end /\ i < end + k THEN arrived + (i - end) ELSE buffer[i]]
  /\ end' = end + k
  /\ room' = room - k
  /\ arrived' = arrived + k
  /\ IF end + k - p < required
     THEN UNCHANGED <<mode, ret>>
     ELSE mode' = "idle" /\ ret' = "ok"
  /\ UNCHANGED <<nb_buffer, p, required, out>>

(* Seeded fault: a failed recv throws away what had been received.         *)
RecvFailsDropping ==
  /\ mode = "reading"
  /\ mode' = "idle"
  /\ ret' = "error"
  /\ end' = p
  /\ UNCHANGED <<buffer, nb_buffer, p, required, room, arrived, out>>

(* recv fails or times out: grow returns, what was received stays.         *)
RecvFails ==
  /\ mode = "reading"
  /\ mode' = "idle"
  /\ ret' = "error"
  /\ UNCHANGED <<buffer, nb_buffer, p, end, required, room, arrived, out>>

-----------------------------------------------------------------------------
(* The calls between two grows.                                            *)

(* Seeded fault: the slice is handed out and the pointer stays.            *)
ReadSliceStaying(n) ==
  /\ mode = "idle"
  /\ Exists >= n
  /\ out' = [i \in 1..n |-> buffer[p + i - 1]]
  /\ UNCHANGED <<buffer, nb_buffer, p, end, mode, required, room, ret, arrived>>

(* read_1byte and read_slice: their assertions are the guard.              *)
ReadSlice(n) ==
  /\ mode = "idle"
  /\ Exists >= n
  /\ out' = [i \in 1..n |-> buffer[p + i - 1]]
  /\ p' = p + n
  /\ UNCHANGED <<buffer, nb_buffer, end, mode, required, room, ret, arrived>>

(* skip(-n), which the reader uses to put back the n bytes of the slice it *)
(* took last when they turn out to be no extended timestamp.               *)
SkipBack ==
  /\ mode = "idle"
  /\ out # << >>
  /\ p' = p - Len(out)
  /\ out' = << >>
  /\ UNCHANGED <<buffer, nb_buffer, end, mode, required, room, ret, arrived>>

(* Seeded fault: the request is not limited to the maximum.                *)
ResizedUnlimited(size) == size
Resized(size) == IF size > MaxBuffer THEN MaxBuffer ELSE size

(* set_buffer: realloc, only ever to a bigger block.                       *)
SetBuffer(size) ==
  /\ mode = "idle"
  /\ Resized(size) > nb_buffer
  /\ nb_buffer' = Resized(size)
  /\ out' = << >>
  /\ UNCHANGED <<buffer, p, end, mode, required, room, ret, arrived>>

Next ==
  \/ \E n \in 1..MaxRequest : Grow(n) \/ ReadSlice(n)
  \/ \E k \in 1..MaxBuffer : Recv(k)
  \/ RecvFails
  \/ SkipBack
  \/ \E size \in 1 .. MaxBuffer + 1 : SetBuffer(size)

Spec == Init /\ [][Next]_vars

-----------------------------------------------------------------------------
TypeOK ==
  /\ buffer \in [Offsets -> Int]
  /\ nb_buffer \in DefaultBuffer..MaxBuffer
  /\ p \in Nat /\ end \in Nat
  /\ mode \in {"idle", "reading", "aborted"}
  /\ required \in 0..MaxRequest
  /\ room \in Nat
  /\ ret \in {"ok", "error", "overflow"}
  /\ arrived \in 0..MaxBytes
  /\ out \in Seq(Int)

(* What is unread is the last part of what arrived, in order, whatever     *)
(* moves, short reads, failed reads, put-backs and reallocs came before    *)
(* (rtmp_socket_to_buffer.c, grow and set_buffer).                         *)
UnreadInOrder ==
  /\ p <= end
  /\ end <= nb_buffer
  /\ \A i \in Offsets : p <= i /\ i < end => buffer[i] = arrived - (end - i)

(* Every recv asks for at least one byte and never for more than lies      *)
(* between end and the end of the block: a zero-length recv returns 0,     *)
(* which the socket layer reports as the peer closing, and a longer one    *)
(* overruns the heap block (grow's nb_free_space, lines 119-171).          *)
RecvFitsBlock ==
  mode = "reading" =>
    /\ Exists < required
    /\ room >= required - Exists
    /\ end + room <= nb_buffer

(* The bytes a caller may still put back lie in front of p untouched, so   *)
(* skip(-4) never points before the block or at bytes already replaced.    *)
SliceCanBePutBack ==
  mode = "idle" /\ out # << >> =>
    /\ Len(out) <= p
    /\ \A i \in 1..Len(out) : buffer[p - Len(out) + i - 1] = arrived - (Exists + Len(out)) + i - 1

(* grow only ever refuses, by an error or by its assertion, a request that *)
(* is larger than the whole block: never one that a move would have made   *)
(* room for.                                                               *)
RefusesOnlyOversize ==
  [][\A n \in 1..MaxRequest :
        Grow(n) /\ (ret' = "overflow" \/ mode' = "aborted") => n > nb_buffer]_vars

(* The byte queue the chunk reader relies on.                              *)
Queue == INSTANCE ByteQueue WITH pos <- arrived - Exists
ImplementsQueue == Queue!Spec
=============================================================================
