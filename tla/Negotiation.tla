----------------------------- MODULE Negotiation -----------------------------
(***************************************************************************)
(* What an application relies on when its calls on a connection succeed:   *)
(* a call only succeeds after the server has granted what it asked for on  *)
(* this connection; what is granted is never withdrawn; no stream is taken *)
(* for two calls; and a new connection starts from nothing.                *)
(*                                                                         *)
(* A call may be guessed: then nothing but the handshake is known, and of  *)
(* the stream nothing any more.                                            *)
(***************************************************************************)
EXTENDS Integers

VARIABLES
  done,      \* calls that returned success
  guessed,   \* calls that may succeed without an answer
  stream,    \* the stream to publish on, 0 for none
  refused,   \* the server has refused the handshake
  answered,  \* it has answered a connect
  accepted,  \* it has accepted one
  created    \* streams it has created

vars == <<done, guessed, stream, refused, answered, accepted, created>>

Init ==
  /\ done = {} /\ guessed = {} /\ stream = 0
  /\ refused = FALSE /\ answered = FALSE /\ accepted = FALSE /\ created = 0

Reconnect == Init'

(* The server.  It does not refuse what a successful handshake sent it.    *)
Refuse ==
  /\ "handshake" \notin done /\ refused' = TRUE
  /\ UNCHANGED <<done, guessed, stream, answered, accepted, created>>

Answer ==
  /\ "handshake" \in done
  /\ answered' = TRUE /\ accepted' \in {accepted, TRUE}
  /\ UNCHANGED <<done, guessed, stream, refused, created>>

CreateStream ==
  /\ accepted /\ created' = created + 1
  /\ UNCHANGED <<done, guessed, stream, refused, answered, accepted>>

(* The client.                                                             *)
Succeed(call) ==
  /\ done' = done \cup {call}
  /\ UNCHANGED <<guessed, stream, refused, answered, accepted, created>>

Shake == ~refused /\ Succeed("handshake")

ConnectApp == answered /\ Succeed("connect_app")

(* A stream that the client has not had yet.                               *)
TakeStream ==
  /\ stream' \in 1..created
  /\ stream' > stream \/ "publish" \in guessed
  /\ UNCHANGED <<done, guessed, refused, answered, accepted, created>>

Publish == (stream > 0 \/ "publish" \in guessed) /\ Succeed("publish")

Guess(call) ==
  /\ "handshake" \in done
  /\ guessed' = guessed \cup {call} /\ done' \in {done, done \cup {call}}
  /\ call # "publish" => stream' = stream
  /\ UNCHANGED <<refused, answered, accepted, created>>

Next ==
  \/ Reconnect
  \/ Refuse \/ Answer \/ CreateStream
  \/ Shake \/ ConnectApp \/ TakeStream \/ Publish
  \/ \E call \in {"connect_app", "publish"} : Guess(call)

Spec == Init /\ [][Next]_vars
=============================================================================
