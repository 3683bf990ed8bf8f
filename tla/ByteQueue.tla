------------------------------ MODULE ByteQueue ------------------------------
(***************************************************************************)
(* What the chunk reader expects of its input buffer: the bytes that       *)
(* arrived on the socket are handed out once each, in the order in which   *)
(* they arrived, and the slice handed out last can be put back.            *)
(*                                                                         *)
(* The k-th byte the peer sends is represented by its position k, so a     *)
(* byte that is lost, repeated or reordered is seen as a wrong position.   *)
(***************************************************************************)
EXTENDS Integers, Sequences

VARIABLES
  arrived,   \* number of bytes received from the peer
  pos,       \* position of the next byte to hand out
  out        \* the slice handed out last, until it is given up

vars == <<arrived, pos, out>>

Slice(from, n) == [i \in 1..n |-> from + i - 1]

Init ==
  /\ arrived = 0
  /\ pos = 0
  /\ out = << >>

(* Bytes come in from the socket; the slice handed out is given up.        *)
Receive ==
  /\ arrived' \in Nat
  /\ arrived' > arrived
  /\ out' = << >>
  /\ UNCHANGED pos

GiveUpSlice ==
  /\ out' = << >>
  /\ UNCHANGED <<arrived, pos>>

Take ==
  \E n \in 0 .. arrived - pos :
    /\ out' = Slice(pos, n)
    /\ pos' = pos + n
    /\ UNCHANGED arrived

PutBack ==
  /\ pos' = pos - Len(out)
  /\ out' = << >>
  /\ UNCHANGED arrived

Next == Receive \/ GiveUpSlice \/ Take \/ PutBack

Spec == Init /\ [][Next]_vars
=============================================================================
