--------------------------- MODULE MessageStreams ---------------------------
(***************************************************************************)
(* What a caller of srs_protocol_recv_message relies on: every chunk       *)
(* stream is a queue of messages, each handed out once, unchanged and in   *)
(* the order of its stream.  Between streams nothing is promised, and      *)
(* nothing at all once the connection is broken.                           *)
(***************************************************************************)
EXTENDS Integers, Sequences

CONSTANT Cids

VARIABLES
  sent,    \* the messages the server has sent whole, by chunk stream
  got,     \* the messages handed out
  broken   \* the server broke the protocol or cannot be understood, or a chunk was
           \* cut by an error

vars == <<sent, got, broken>>

Init ==
  /\ sent = [c \in Cids |-> << >>]
  /\ got = [c \in Cids |-> << >>]
  /\ broken \in BOOLEAN

Sends(c) ==
  /\ sent'[c] # << >>
  /\ sent = [sent' EXCEPT ![c] = SubSeq(@, 1, Len(@) - 1)]
  /\ UNCHANGED <<got, broken>>

HandsOut(c) ==
  /\ ~broken
  /\ Len(got[c]) < Len(sent[c])
  /\ got' = [got EXCEPT ![c] = Append(@, sent[c][Len(@) + 1])]
  /\ UNCHANGED <<sent, broken>>

Breaks == broken' = TRUE

Next ==
  \/ \E c \in Cids : Sends(c) \/ HandsOut(c)
  \/ Breaks

Spec == Init /\ [][Next]_vars
=============================================================================
