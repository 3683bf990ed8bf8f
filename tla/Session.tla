------------------------------- MODULE Session -------------------------------
(***************************************************************************)
(* The life of a connection: create, set_timeout, handshake, connect_app,  *)
(* publish_stream and destroy (snx_rtmp.c), with rtmp_client.c and         *)
(* rtmp_simple_handshake.c, what is done with each message received        *)
(* (on_recv_message, do_decode_message) and the acknowledgements.          *)
(*                                                                         *)
(* One task makes the calls, in any order, and may repeat one that failed. *)
(* The server is external; it answers late, rejects, sends messages nobody *)
(* asked for or that are malformed, and gives a client up that breaks the  *)
(* protocol.  Messages are whole here (ChunkReader), except S0S1S2, which  *)
(* comes in two parts.                                                     *)
(***************************************************************************)
EXTENDS Integers, Sequences

CONSTANTS
  Timeouts,   \* values of SO_RCVTIMEO and SO_SNDTIMEO; with 0 a wait has no end
  NoTimeout,  \* SRS_CONSTS_NO_TMMS
  Default,    \* SRS_SOCKET_DEFAULT_TMMS
  Windows,    \* window sizes the server announces
  Settings,   \* timeouts for receiving and sending that the application sets
  Garbage,    \* what may be read where a packet should be
  MaxCalls,   \* bound: calls
  MaxChatter  \* bound: messages of the server that are no answer, per connection

ASSUME SessionAssumption ==
  /\ Timeouts \subseteq Nat /\ NoTimeout \notin Timeouts \cup {0}
  /\ Default \in Timeouts \ {0}
  /\ Settings \subseteq (Timeouts \cup {NoTimeout}) \X (Timeouts \cup {NoTimeout})
  /\ Windows \subseteq Int /\ Garbage \subseteq Int
  /\ MaxCalls \in Nat /\ MaxChatter \in Nat

VARIABLES
  ctx,       \* the application has a context
  pc,        \* "idle", or where in a call the task is; "aborted" or "dead"
  fd,        \* whether the socket is connected
  timeout,   \* Context: stimeout and rtimeout; the socket's SO_RCVTIMEO and SO_SNDTIMEO
  hs,        \* SrsHandshakeBytes: c0c1 and s0s1s2 allocated, parts of s0s1s2 read, its version
  stream_id,
  ack,       \* in_ack_size: window, nb_recv_bytes; rbytes of the socket
  msg,       \* the message expect_message looks at
  toServer, toClient,
  srv,       \* the server's side of the connection
  chatter,
  calls,
  told,      \* calls that returned success on this connection
  guessed,   \* those whose success comes from an uninitialized packet type
  cut        \* a send of the handshake was short

client == <<fd, timeout, hs, stream_id, ack, msg>>
history == <<told, guessed, cut>>
vars == <<ctx, pc, client, toServer, toClient, srv, chatter, calls, history>>

NoMsg == [k |-> "none"]

(* memset, context_param_init and the init functions below it.             *)
NewTimeout == [stimeout |-> NoTimeout, rtimeout |-> NoTimeout, rcv |-> 0, snd |-> 0]
NewHs == [c0c1 |-> FALSE, s0s1s2 |-> FALSE, parts |-> 0, plain |-> TRUE]
NewAck == [window |-> 0, nb_recv_bytes |-> 0, rbytes |-> 0]
NewServer == [stage |-> "none", refused |-> FALSE, answered |-> FALSE, accepted |-> FALSE, streams |-> 0]

Init ==
  /\ ctx = FALSE /\ pc = "idle" /\ fd = "new"
  /\ timeout = NewTimeout /\ hs = NewHs /\ stream_id = 0 /\ ack = NewAck /\ msg = NoMsg
  /\ toServer = << >> /\ toClient = << >> /\ srv = NewServer /\ chatter = 0 /\ calls = 0
  /\ told = {} /\ guessed = {} /\ cut = FALSE

-----------------------------------------------------------------------------
(* The application.  A socket that cannot be created leaves no context.    *)

Create ==
  /\ ~ctx
  /\ ctx' = TRUE
  /\ UNCHANGED <<pc, client, toServer, toClient, srv, chatter, calls, history>>

(* destroy frees everything and closes the socket; the next create starts  *)
(* from nothing, on a new connection.                                      *)
Destroy ==
  /\ ctx /\ pc = "idle"
  /\ ctx' = FALSE /\ fd' = "new"
  /\ timeout' = NewTimeout /\ hs' = NewHs /\ stream_id' = 0 /\ ack' = NewAck /\ msg' = NoMsg
  /\ toServer' = << >> /\ toClient' = << >> /\ srv' = NewServer /\ chatter' = 0
  /\ told' = {} /\ guessed' = {} /\ cut' = FALSE
  /\ UNCHANGED <<pc, calls>>

(* With NoTimeout the socket option gets an uninitialized value.           *)
Option(t) == IF t = NoTimeout THEN Timeouts ELSE {t}

SetTimeout(r, s) ==
  /\ ctx /\ pc = "idle" /\ calls < MaxCalls
  /\ calls' = calls + 1
  /\ \E rcv \in Option(r), snd \in Option(s) :
       timeout' = [stimeout |-> s, rtimeout |-> r, rcv |-> rcv, snd |-> snd]
  /\ UNCHANGED <<ctx, pc, fd, hs, stream_id, ack, msg, toServer, toClient, srv, chatter, history>>

Call(first) ==
  /\ ctx /\ pc = "idle" /\ calls < MaxCalls
  /\ pc' = first
  /\ calls' = calls + 1
  /\ UNCHANGED <<ctx, client, toServer, toClient, srv, chatter, history>>

Calls == Call("resolve") \/ Call("connect") \/ Call("release")

Returns(call) == pc' = "idle" /\ told' = told \cup {call} /\ UNCHANGED <<guessed, cut>>

-----------------------------------------------------------------------------
(* The handshake.                                                          *)

(* parse_uri has no return statement: its result is what is in a register. *)
Resolve ==
  /\ pc = "resolve"
  /\ pc' \in {"socket", "idle"}
  /\ UNCHANGED <<ctx, client, toServer, toClient, srv, chatter, calls, history>>

(* Seeded fault: the defaults are kept in the context only.               *)
TimedInContext(t) ==
  [t EXCEPT !.stimeout = IF @ = NoTimeout THEN Default ELSE @,
            !.rtimeout = IF @ = NoTimeout THEN Default ELSE @]

(* connect_server's defaults; for receiving the socket gets the timeout of *)
(* sending, which may be 0.                                                *)
Timed(t) ==
  LET s == IF t.stimeout = NoTimeout THEN Default ELSE t.stimeout
  IN [stimeout |-> s,
      rtimeout |-> IF t.rtimeout = NoTimeout THEN Default ELSE t.rtimeout,
      rcv |-> IF t.rtimeout = NoTimeout THEN s ELSE t.rcv,
      snd |-> IF t.stimeout = NoTimeout THEN Default ELSE t.snd]

(* Seeded fault: a socket that is connected already is taken for success.  *)
ConnectAgain ==
  /\ pc = "socket"
  /\ timeout' = Timed(timeout)
  /\ fd' = "connected" /\ pc' = "c0c1"
  /\ UNCHANGED <<ctx, hs, stream_id, ack, msg, toServer, toClient, srv, chatter, calls, history>>

(* connect() on a socket that is connected fails.                          *)
Connect ==
  /\ pc = "socket"
  /\ timeout' = Timed(timeout)
  /\ \/ fd = "new" /\ fd' = "connected" /\ pc' = "c0c1"
     \/ fd' = fd /\ pc' = "idle"
  /\ UNCHANGED <<ctx, hs, stream_id, ack, msg, toServer, toClient, srv, chatter, calls, history>>

(* One send(): all of it, or only a part, which counts as success too.     *)
Write(item) ==
  /\ fd = "connected"
  /\ \/ toServer' = Append(toServer, item) /\ cut' = cut
     \/ toServer' = Append(toServer, [k |-> "part"]) /\ cut' = TRUE

(* create_c0c1, the send, and the entry of read_s0s1s2: what is there is   *)
(* not read again.                                                         *)
WriteC0C1 ==
  /\ pc = "c0c1"
  /\ Write([k |-> "c0c1"])
  /\ hs' = [hs EXCEPT !.c0c1 = TRUE, !.s0s1s2 = TRUE]
  /\ pc' = IF hs.s0s1s2 THEN "c2" ELSE "s0s1s2"
  /\ UNCHANGED <<ctx, fd, timeout, stream_id, ack, msg, toClient, srv, chatter, calls, told, guessed>>

(* One read() of read_fully, which counts the bytes of all reads again.    *)
ReadS0S1S2 ==
  /\ pc = "s0s1s2"
  /\ toClient # << >> /\ Head(toClient).k = "s"
  /\ toClient' = Tail(toClient)
  /\ hs' = [hs EXCEPT !.parts = @ + 1, !.plain = Head(toClient).plain]
  /\ ack' = [ack EXCEPT !.rbytes = @ + (IF hs'.parts = 2 THEN 3 ELSE 1)]
  /\ pc' = IF hs'.parts = 2 THEN "c2" ELSE pc
  /\ UNCHANGED <<ctx, fd, timeout, stream_id, msg, toServer, srv, chatter, calls, history>>

(* create_c2 and the send.                                                 *)
WriteC2 ==
  /\ pc = "c2"
  /\ IF hs.plain
     THEN /\ Write([k |-> "c2", whole |-> hs.parts = 2])
          /\ pc' = "idle" /\ told' = told \cup {"handshake"}
     ELSE pc' = "idle" /\ UNCHANGED <<told, toServer, cut>>
  /\ UNCHANGED <<ctx, client, toClient, srv, chatter, calls, guessed>>

-----------------------------------------------------------------------------
(* Command packets.                                                        *)

(* What follows each packet of connect_app and of fmle_publish.            *)
Then == [connect |-> "ack_size", ack_size |-> "expect_app",
         release |-> "fcpublish", fcpublish |-> "create", create |-> "expect_stream",
         publish |-> "idle"]

(* What follows a part is not understood, and left out.                    *)
Sent(item) ==
  IF \E i \in DOMAIN toServer : toServer[i].k = "part" THEN toServer ELSE Append(toServer, item)

(* writev: all of it, or what a short send makes of it, for a success.     *)
SendCommand ==
  /\ pc \in DOMAIN Then
  /\ fd = "connected"
  /\ \E k \in {pc, "part"} : toServer' = Sent([k |-> k])
  /\ IF pc = "publish" THEN Returns("publish") ELSE pc' = Then[pc] /\ UNCHANGED history
  /\ UNCHANGED <<ctx, client, toClient, srv, chatter, calls>>

Sending ==
  \/ pc \in DOMAIN Then \cup {"c0c1"}
  \/ pc = "c2" /\ hs.plain
  \/ msg # NoMsg /\ msg.due

(* A send fails, perhaps with a part of it on its way, and the call        *)
(* returns the error.                                                      *)
SendFails ==
  /\ Sending
  /\ pc' = "idle" /\ msg' = NoMsg
  /\ hs' = IF pc = "c0c1" THEN [hs EXCEPT !.c0c1 = TRUE] ELSE hs
  /\ ack' = IF msg = NoMsg THEN ack ELSE [ack EXCEPT !.nb_recv_bytes = ack.rbytes]
  /\ \/ toServer' = toServer
     \/ fd = "connected" /\ toServer' = Append(toServer, [k |-> "part"])
  /\ UNCHANGED <<ctx, fd, timeout, stream_id, toClient, srv, chatter, calls, history>>

-----------------------------------------------------------------------------
(* expect_message.                                                         *)

Waiting == pc \in {"expect_app", "expect_stream"} /\ msg = NoMsg

(* An acknowledgement is due when half of the window has been received.    *)
AckDue(rbytes) == ack.window > 0 /\ rbytes - ack.nb_recv_bytes >= ack.window \div 2

Receive ==
  /\ Waiting
  /\ toClient # << >> /\ Head(toClient).k # "s"
  /\ toClient' = Tail(toClient)
  /\ ack' = [ack EXCEPT !.rbytes = @ + 1]
  /\ msg' = [k |-> Head(toClient).k, n |-> Head(toClient).n, due |-> AckDue(ack.rbytes + 1)]
  /\ UNCHANGED <<ctx, pc, fd, timeout, hs, stream_id, toServer, srv, chatter, calls, history>>

(* What a failed handshake has left of S0S1S2 is read as chunks.  Its      *)
(* bytes are random and no answer: an error, memory nobody meant, or       *)
(* something that is dropped.                                              *)
ReceiveLeftover ==
  /\ Waiting
  /\ toClient # << >> /\ Head(toClient).k = "s"
  /\ toClient' = Tail(toClient)
  /\ ack' = [ack EXCEPT !.rbytes = @ + 1]
  /\ pc' \in {pc, "idle", "dead"}
  /\ UNCHANGED <<ctx, fd, timeout, hs, stream_id, msg, toServer, srv, chatter, calls, history>>

(* Seeded fault: the mark of acknowledged bytes is moved by all received.  *)
SendAckAdding ==
  /\ msg # NoMsg /\ msg.due
  /\ ack' = [ack EXCEPT !.nb_recv_bytes = @ + ack.rbytes]
  /\ \E k \in {"ack", "part"} : toServer' = Sent([k |-> k])
  /\ msg' = [msg EXCEPT !.due = FALSE]
  /\ UNCHANGED <<ctx, pc, fd, timeout, hs, stream_id, toClient, srv, chatter, calls, history>>

(* response_acknowledgement_message: the packet has no type, no chunk      *)
(* stream and no content of its own.                                       *)
SendAck ==
  /\ msg # NoMsg /\ msg.due
  /\ ack' = [ack EXCEPT !.nb_recv_bytes = ack.rbytes]
  /\ \E k \in {"ack", "part"} : toServer' = Sent([k |-> k])
  /\ msg' = [msg EXCEPT !.due = FALSE]
  /\ UNCHANGED <<ctx, pc, fd, timeout, hs, stream_id, toClient, srv, chatter, calls, history>>

Handling(kinds) == pc \in {"expect_app", "expect_stream"} /\ msg # NoMsg /\ ~msg.due /\ msg.k \in kinds

(* Seeded fault: the type of a packet is not compared.                     *)
MatchesAny(k) == TRUE

(* A response is known by its transaction id: 1 is that of connect, of     *)
(* which _error matches as well, and 4 that of createStream.               *)
Matches(k) ==
  \/ pc = "expect_app" /\ k \in {"result1", "error1"}
  \/ pc = "expect_stream" /\ k = "result4"

(* The message connect_app waits for: its content is not looked at.        *)
MatchApp ==
  /\ Handling({"result1", "error1", "result4", "bandwidth"}) /\ Matches(msg.k)
  /\ pc = "expect_app"
  /\ msg' = NoMsg
  /\ Returns("connect_app")
  /\ UNCHANGED <<ctx, fd, timeout, hs, stream_id, ack, toServer, toClient, srv, chatter, calls>>

MatchStream ==
  /\ Handling({"result1", "error1", "result4", "bandwidth"}) /\ Matches(msg.k)
  /\ pc = "expect_stream"
  /\ stream_id' = msg.n
  /\ pc' = "publish" /\ msg' = NoMsg
  /\ UNCHANGED <<ctx, fd, timeout, hs, ack, toServer, toClient, srv, chatter, calls, history>>

Drop ==
  /\ Handling({"result1", "error1", "result4", "bandwidth"}) /\ ~Matches(msg.k)
  /\ msg' = NoMsg
  /\ UNCHANGED <<ctx, pc, fd, timeout, hs, stream_id, ack, toServer, toClient, srv, chatter, calls, history>>

(* on_recv_message takes a window that is one, expect_message drops the    *)
(* message.                                                                *)
TakeWindow ==
  /\ Handling({"ack_size"})
  /\ ack' = [ack EXCEPT !.window = IF msg.n > 0 THEN msg.n ELSE @]
  /\ msg' = NoMsg
  /\ UNCHANGED <<ctx, pc, fd, timeout, hs, stream_id, toServer, toClient, srv, chatter, calls, history>>

(* A user control message decodes to no packet, which is asserted.         *)
TakeUserControl ==
  /\ Handling({"user_control"})
  /\ pc' = "aborted"
  /\ UNCHANGED <<ctx, client, toServer, toClient, srv, chatter, calls, history>>

(* Seeded fault: the name of the response to createStream is not checked.  *)
RejectUnseen ==
  /\ Handling({"error4"})
  /\ pc' = IF pc = "expect_stream" THEN "publish" ELSE "idle"
  /\ msg' = NoMsg
  /\ UNCHANGED <<ctx, fd, timeout, hs, stream_id, ack, toServer, toClient, srv, chatter, calls, history>>

(* The decoder of the response to createStream wants _result, whoever      *)
(* waits for what; a control message that is too short is not decoded.     *)
Reject ==
  /\ Handling({"error4", "malformed"})
  /\ pc' = "idle" /\ msg' = NoMsg
  /\ UNCHANGED <<ctx, fd, timeout, hs, stream_id, ack, toServer, toClient, srv, chatter, calls, history>>

(* Any other command leaves return_type as it was found on the stack.      *)
UntypedDropped ==
  /\ Handling({"command"})
  /\ msg' = NoMsg
  /\ UNCHANGED <<ctx, pc, fd, timeout, hs, stream_id, ack, toServer, toClient, srv, chatter, calls, history>>

UntypedTaken ==
  /\ Handling({"command"})
  /\ msg' = NoMsg
  /\ \/ pc = "expect_app" /\ pc' = "idle"
        /\ told' = told \cup {"connect_app"} /\ guessed' = guessed \cup {"connect_app"}
        /\ UNCHANGED stream_id
     \/ pc = "expect_stream" /\ pc' \in {"publish", "dead"}  \* reads through NULL
        /\ told' = told /\ guessed' = guessed \cup {"publish"}
        /\ stream_id' \in Garbage
  /\ UNCHANGED <<ctx, fd, timeout, hs, ack, toServer, toClient, srv, chatter, calls, cut>>

Receiving == Waiting \/ pc = "s0s1s2"

(* Seeded fault: expect_message receives again after a failure.            *)
RecvFailsAgain ==
  /\ Receiving
  /\ pc' = IF Waiting THEN pc ELSE "idle"
  /\ UNCHANGED <<ctx, client, toServer, toClient, srv, chatter, calls, history>>

(* A recv times out or fails.  recv_message frees through a NULL pointer   *)
(* on the way out, which may end the program.                              *)
RecvFails ==
  /\ Receiving
  /\ pc' \in IF Waiting THEN {"idle", "dead"} ELSE {"idle"}
  /\ UNCHANGED <<ctx, client, toServer, toClient, srv, chatter, calls, history>>

-----------------------------------------------------------------------------
(* The server.                                                             *)

ServerDoes(s, answers) ==
  /\ toServer' = Tail(toServer)
  /\ srv' = s
  /\ toClient' = toClient \o answers
  /\ UNCHANGED <<ctx, pc, client, chatter, calls, history>>

Message(k, n) == <<[k |-> k, n |-> n]>>
Got(k, stages) == toServer # << >> /\ Head(toServer).k = k /\ srv.stage \in stages

ServerHello ==
  /\ Got("c0c1", {"none"})
  /\ \E plain \in BOOLEAN :
       ServerDoes([srv EXCEPT !.stage = "hello"], [i \in 1..2 |-> [k |-> "s", plain |-> plain]])

ServerShaken ==
  /\ Got("c2", {"hello"}) /\ Head(toServer).whole
  /\ ServerDoes([srv EXCEPT !.stage = "shaken"], << >>)

ServerAccepts ==
  /\ Got("connect", {"shaken", "app"})
  /\ ServerDoes([srv EXCEPT !.stage = "app", !.answered = TRUE, !.accepted = TRUE], Message("result1", 0))

ServerRejects ==
  \/ /\ Got("connect", {"shaken", "app"})
     /\ ServerDoes([srv EXCEPT !.answered = TRUE], Message("error1", 0))
  \/ /\ Got("create", {"app"})
     /\ ServerDoes(srv, Message("error4", 0))

ServerCreates ==
  /\ Got("create", {"app"})
  /\ ServerDoes([srv EXCEPT !.streams = @ + 1], Message("result4", srv.streams + 1))

(* releaseStream may be answered, the others are not.                      *)
ServerTakes ==
  \/ \E k \in {"ack_size", "ack"} : Got(k, {"shaken", "app"}) /\ ServerDoes(srv, << >>)
  \/ \E k \in {"release", "fcpublish", "publish"} : Got(k, {"app"}) /\ ServerDoes(srv, << >>)
  \/ Got("release", {"app"}) /\ ServerDoes(srv, Message("command", 0))

Understood ==
  \/ Got("c0c1", {"none"})
  \/ Got("c2", {"hello"}) /\ Head(toServer).whole
  \/ \E k \in {"connect", "ack_size"} : Got(k, {"shaken", "app"})
  \/ \E k \in {"release", "fcpublish", "create", "publish"} : Got(k, {"app"})

(* What comes in the wrong place or is cut short ends the conversation.    *)
ServerGivesUp ==
  /\ toServer # << >> /\ ~Understood
  /\ ServerDoes([srv EXCEPT !.stage = "broken", !.refused = @ \/ srv.stage \in {"none", "hello"}], << >>)

ServerChats(k, n) ==
  /\ srv.stage \in {"shaken", "app"} /\ chatter < MaxChatter
  /\ chatter' = chatter + 1
  /\ toClient' = toClient \o Message(k, n)
  /\ UNCHANGED <<ctx, pc, client, toServer, srv, calls, history>>

-----------------------------------------------------------------------------
Application ==
  \/ Create \/ Destroy \/ Calls
  \/ \E t \in Settings : SetTimeout(t[1], t[2])

Handshake == Resolve \/ Connect \/ WriteC0C1 \/ ReadS0S1S2 \/ WriteC2

Expect ==
  \/ Receive \/ ReceiveLeftover \/ SendAck
  \/ MatchApp \/ MatchStream \/ Drop
  \/ TakeWindow \/ TakeUserControl \/ Reject \/ UntypedDropped \/ UntypedTaken

Inside == Handshake \/ SendCommand \/ SendFails \/ Expect \/ RecvFails

Server ==
  \/ ServerHello \/ ServerShaken \/ ServerAccepts \/ ServerRejects
  \/ ServerCreates \/ ServerTakes \/ ServerGivesUp
  \/ ServerChats("bandwidth", 0) \/ ServerChats("user_control", 0) \/ ServerChats("command", 0)
  \/ ServerChats("malformed", 0)
  \/ \E w \in Windows : ServerChats("ack_size", w)

Next == Application \/ Inside \/ Server

(* A call goes on, unless it waits in the socket without a timeout: such a *)
(* send or recv may wait for the server for ever.                          *)
Bounded ==
  fd = "connected" => (Sending => timeout.snd > 0) /\ (Receiving => timeout.rcv > 0)

Spec == Init /\ [][Next]_vars /\ WF_vars(Bounded /\ Inside)

-----------------------------------------------------------------------------
Places == {"idle", "aborted", "dead", "resolve", "socket", "c0c1", "s0s1s2", "c2",
           "expect_app", "expect_stream"} \cup DOMAIN Then

TimeoutTypes ==
  [stimeout : Timeouts \cup {NoTimeout}, rtimeout : Timeouts \cup {NoTimeout},
   rcv : Timeouts \cup {0}, snd : Timeouts \cup {0}]
HsTypes == [c0c1 : BOOLEAN, s0s1s2 : BOOLEAN, parts : 0..2, plain : BOOLEAN]
AckTypes == [window : {w \in Windows : w > 0} \cup {0}, nb_recv_bytes : Nat, rbytes : Nat]

TypeOK ==
  /\ ctx \in BOOLEAN /\ pc \in Places /\ fd \in {"new", "connected"}
  /\ timeout \in TimeoutTypes /\ hs \in HsTypes /\ ack \in AckTypes
  /\ ack.nb_recv_bytes <= ack.rbytes
  /\ stream_id \in Int
  /\ told \subseteq {"handshake", "connect_app", "publish"} /\ guessed \subseteq told \cup {"publish"}
  /\ calls \in 0..MaxCalls /\ chatter \in 0..MaxChatter /\ cut \in BOOLEAN

(* A handshake that returned success was whole: S0S1S2 was read to its end *)
(* and the server has not refused what it was sent, however often the call *)
(* was made and wherever an earlier one failed, unless a send was short.   *)
(* The buffers of a failed handshake would pass for complete ones; what    *)
(* keeps a second one from using them is that connect() fails.             *)
ShakenMeansWhole ==
  "handshake" \in told /\ ~cut => hs.parts = 2 /\ hs.plain /\ ~srv.refused

(* connect_app only succeeds after the handshake did and once the server   *)
(* has answered the connect command on this connection, with late answers, *)
(* repeated calls and messages nobody asked for, unless an uninitialized   *)
(* packet type happened to match.                                          *)
AppMeansAnswered ==
  "connect_app" \in told \ guessed => "handshake" \in told /\ srv.answered

(* publish_stream only succeeds with a stream that the server created on   *)
(* this connection, after it accepted the app: the answer may be that to   *)
(* an earlier call.                                                        *)
PublishMeansStream ==
  "publish" \in told \ guessed => srv.accepted /\ stream_id \in 1..srv.streams

(* A successful call was granted by the server before, on this connection; *)
(* no stream is taken for two calls of publish_stream, in whatever order   *)
(* answers and retries come; and nothing of a connection outlasts it: with *)
(* late answers, calls that failed anywhere and are repeated, and messages *)
(* nobody asked for.                                                       *)
Granted ==
  INSTANCE Negotiation
    WITH done <- told, stream <- stream_id, refused <- srv.refused /\ ~cut,
         answered <- srv.answered, accepted <- srv.accepted, created <- srv.streams
ImplementsNegotiation == Granted!Spec

(* The application has set both timeouts to a limit, or has left them to   *)
(* the defaults that the next connect_server sets.                         *)
Limited ==
  /\ timeout.stimeout # 0 /\ timeout.rtimeout # 0
  /\ fd = "connected" => NoTimeout \notin {timeout.stimeout, timeout.rtimeout}

(* On a connected socket both directions have a limit if the application   *)
(* set both or left them alone, in whatever order it made its calls and    *)
(* whatever an unset timeout put into the socket meanwhile.  One limit is  *)
(* not enough: an unset one for receiving becomes the one for sending.     *)
WaitsAreTimed ==
  fd = "connected" /\ Limited => timeout.rcv > 0 /\ timeout.snd > 0

(* Every call of such an application returns, or the program ends.         *)
CallsReturn == pc # "idle" /\ Limited ~> pc \in {"idle", "aborted", "dead"}

(* The assertion of on_recv_message that control messages decode to a      *)
(* packet never fails.                                                     *)
ControlDecodes == pc # "aborted"
=============================================================================
