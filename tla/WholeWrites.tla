------------------------------ MODULE WholeWrites -----------------------------
(***************************************************************************)
(* What the tasks that write to one connection rely on, while the socket   *)
(* takes every byte: the message that a task passes is received whole and  *)
(* once, at one moment between its call and its return.  When a send went  *)
(* wrong, everything may be lost.                                          *)
(***************************************************************************)
EXTENDS Sequences

CONSTANTS
  Tasks,
  Ids,   \* messages
  NoId   \* no message

VARIABLES
  asked,     \* the message each task has passed, until its call returns
  received,  \* the messages the server got, in order
  lost       \* nothing is promised any more

vars == <<asked, received, lost>>

Received == {received[i] : i \in DOMAIN received}

Init == asked = [t \in Tasks |-> NoId] /\ received = << >> /\ lost \in BOOLEAN

Ask(t, m) ==
  /\ asked[t] = NoId
  /\ m \notin Received /\ \A u \in Tasks : asked[u] # m
  /\ asked' = [asked EXCEPT ![t] = m]
  /\ UNCHANGED <<received, lost>>

Receive(t) ==
  /\ asked[t] # NoId /\ asked[t] \notin Received
  /\ received' = Append(received, asked[t])
  /\ UNCHANGED <<asked, lost>>

Return(t) ==
  /\ asked[t] \in Received
  /\ asked' = [asked EXCEPT ![t] = NoId]
  /\ UNCHANGED <<received, lost>>

Lost == lost' = TRUE

Next == Lost \/ \E t \in Tasks : Receive(t) \/ Return(t) \/ \E m \in Ids : Ask(t, m)

Spec == Init /\ [][Next]_vars
=============================================================================
