--------------------------- MODULE SessionProofs ---------------------------
(***************************************************************************)
(* Proofs about Session, for any timeouts and windows and any number of    *)
(* calls and of messages nobody asked for: types, timed waits, what the    *)
(* success of each call means, and the refinement of Negotiation.          *)
(*                                                                         *)
(* The invariant has a part for each of these, and each part is shown to   *)
(* be preserved by every action on its own, given the types.               *)
(***************************************************************************)
EXTENDS Session, TLAPS

-----------------------------------------------------------------------------
(* What is in a queue, in whatever order.                                  *)
Items(q) == {q[i] : i \in DOMAIN q}

LEMMA ItemsAppend ==
  ASSUME NEW S, NEW q \in Seq(S), NEW x \in S
  PROVE  /\ Append(q, x) \in Seq(S) /\ Items(Append(q, x)) = Items(q) \cup {x}
         /\ Append(q, x) # << >>
         /\ q # << >> => Head(Append(q, x)) = Head(q)
<1>1. /\ Append(q, x) \in Seq(S) /\ DOMAIN Append(q, x) = 1 .. Len(q) + 1
      /\ DOMAIN q = 1 .. Len(q) /\ Len(q) \in Nat
      /\ \A i \in 1 .. Len(q) : Append(q, x)[i] = q[i]
      /\ Append(q, x)[Len(q) + 1] = x
  OBVIOUS
<1>2. Items(Append(q, x)) = Items(q) \cup {x}
  BY <1>1 DEF Items
<1>3. Append(q, x) # << >> /\ (q # << >> => Head(Append(q, x)) = Head(q))
  <2>1. Len(Append(q, x)) = Len(q) + 1
    OBVIOUS
  <2>2. Append(q, x) # << >>
    BY <1>1, <2>1
  <2>3. q # << >> => 1 \in 1 .. Len(q)
    BY <1>1
  <2>4. Head(q) = q[1] /\ Head(Append(q, x)) = Append(q, x)[1]
    OBVIOUS
  <2> QED
    BY <1>1, <2>2, <2>3, <2>4
<1> QED
  BY <1>1, <1>2, <1>3

LEMMA ItemsConcat ==
  ASSUME NEW S, NEW q \in Seq(S), NEW t \in Seq(S)
  PROVE  Items(q \o t) = Items(q) \cup Items(t)
<1>1. /\ DOMAIN (q \o t) = 1 .. Len(q) + Len(t)
      /\ DOMAIN q = 1 .. Len(q) /\ Len(q) \in Nat
      /\ DOMAIN t = 1 .. Len(t) /\ Len(t) \in Nat
  OBVIOUS
<1>2. \A i \in DOMAIN (q \o t) :
        (q \o t)[i] = IF i <= Len(q) THEN q[i] ELSE t[i - Len(q)]
  OBVIOUS
<1>3. PICK r : r = q \o t
  OBVIOUS
<1>4. \A i \in DOMAIN q : i \in DOMAIN r /\ r[i] = q[i]
  BY <1>1, <1>2, <1>3
<1>5. \A i \in DOMAIN t : i + Len(q) \in DOMAIN r /\ r[i + Len(q)] = t[i]
  BY <1>1, <1>2, <1>3
<1>6. \A i \in DOMAIN r : \/ i \in DOMAIN q /\ r[i] = q[i]
                          \/ i - Len(q) \in DOMAIN t /\ r[i] = t[i - Len(q)]
  BY <1>1, <1>2, <1>3
<1>7. Items(r) = Items(q) \cup Items(t)
  BY <1>4, <1>5, <1>6 DEF Items
<1> QED
  BY <1>3, <1>7

LEMMA ItemsTail ==
  ASSUME NEW S, NEW q \in Seq(S), q # << >>
  PROVE  /\ Tail(q) \in Seq(S) /\ Items(Tail(q)) \subseteq Items(q)
         /\ Head(q) \in Items(q) /\ Head(q) \in S
         /\ Len(q) \in Nat /\ Len(Tail(q)) = Len(q) - 1
<1>1. /\ Tail(q) \in Seq(S) /\ Len(Tail(q)) = Len(q) - 1 /\ Len(q) \in Nat \ {0}
      /\ DOMAIN q = 1 .. Len(q) /\ DOMAIN Tail(q) = 1 .. Len(q) - 1
      /\ \A i \in 1 .. Len(q) - 1 : Tail(q)[i] = q[i + 1]
  OBVIOUS
<1>2. Items(Tail(q)) \subseteq Items(q)
  BY <1>1 DEF Items
<1>3. Head(q) = q[1] /\ 1 \in DOMAIN q /\ q[1] \in S
  BY <1>1
<1> QED
  BY <1>1, <1>2, <1>3 DEF Items

LEMMA ItemsNone == Items(<< >>) = {}
  BY DEF Items

-----------------------------------------------------------------------------
Commands == {"connect", "ack_size", "release", "fcpublish", "create", "publish"}

Requests ==
  [k : {"c0c1", "part", "ack"} \cup Commands] \cup [k : {"c2"}, whole : BOOLEAN]

Kinds == {"result1", "error1", "result4", "error4", "bandwidth", "user_control", "command", "malformed"}

Answers ==
  [k : {"s"}, plain : BOOLEAN] \cup [k : Kinds, n : Nat] \cup [k : {"ack_size"}, n : Windows]

Received ==
  [k : Kinds, n : Nat, due : BOOLEAN] \cup [k : {"ack_size"}, n : Windows, due : BOOLEAN]

Stages == {"none", "hello", "shaken", "app", "broken"}

Servers ==
  [stage : Stages, refused : BOOLEAN, answered : BOOLEAN, accepted : BOOLEAN, streams : Nat]

(* Nothing has happened on the connection.                                 *)
Fresh ==
  /\ hs = NewHs /\ srv = NewServer /\ toServer = << >> /\ toClient = << >> /\ msg = NoMsg
  /\ told = {} /\ guessed = {} /\ cut = FALSE

Typed ==
  /\ TypeOK
  /\ toServer \in Seq(Requests) /\ toClient \in Seq(Answers)
  /\ msg \in {NoMsg} \cup Received
  /\ msg # NoMsg => pc \in {"expect_app", "expect_stream", "aborted"}
  /\ srv \in Servers
  /\ pc = "s0s1s2" => hs.parts \in {0, 1}
  /\ fd = "new" \/ pc = "c0c1" => Fresh
  /\ pc \in {"c0c1", "s0s1s2", "c2"} => fd = "connected" /\ "handshake" \notin told

LEMMA ThenPlaces ==
  /\ DOMAIN Then = Commands
  /\ Then["publish"] = "idle"
  /\ \A q \in Commands :
       Then[q] \in {"ack_size", "expect_app", "fcpublish", "create", "expect_stream", "idle"}
  BY DEF Then, Commands

-----------------------------------------------------------------------------
(* Types.                                                                  *)

LEMMA Beginning ==
  /\ NewTimeout \in TimeoutTypes /\ NewHs \in HsTypes /\ NewHs.parts = 0
  /\ NewAck \in AckTypes /\ NewAck.window = 0 /\ NewAck.nb_recv_bytes = 0 /\ NewAck.rbytes = 0
  /\ NewServer \in Servers
  /\ << >> \in Seq(Requests) /\ << >> \in Seq(Answers)
<1>1. NewTimeout \in TimeoutTypes
  BY DEF NewTimeout, TimeoutTypes
<1>2. NewHs \in HsTypes /\ NewHs.parts = 0
  BY DEF NewHs, HsTypes
<1>3. NewAck \in AckTypes /\ NewAck.window = 0 /\ NewAck.nb_recv_bytes = 0 /\ NewAck.rbytes = 0
  BY DEF NewAck, AckTypes
<1>4. NewServer \in Servers
  BY DEF NewServer, Servers, Stages
<1> QED
  BY <1>1, <1>2, <1>3, <1>4

LEMMA Asked ==
  ASSUME Typed, NEW x \in Requests, toServer' = Append(toServer, x)
  PROVE  /\ toServer' \in Seq(Requests) /\ Items(toServer') = Items(toServer) \cup {x}
         /\ toServer' # << >> /\ (toServer # << >> => Head(toServer') = Head(toServer))
  BY ItemsAppend DEF Typed

(* What is sent is left out behind a part of a message.                    *)
LEMMA SentItem ==
  ASSUME Typed, NEW x \in Requests, toServer' = Sent(x)
  PROVE  /\ toServer' \in Seq(Requests) /\ Items(toServer') \subseteq Items(toServer) \cup {x}
         /\ toServer # << >> => toServer' # << >> /\ Head(toServer') = Head(toServer)
<1>1. CASE toServer' = toServer
  BY <1>1 DEF Typed
<1>2. CASE toServer' = Append(toServer, x)
  BY <1>2, Asked
<1> QED
  BY <1>1, <1>2 DEF Sent

LEMMA SentCommand ==
  ASSUME Typed, SendCommand
  PROVE  \E x \in Requests : toServer' = Sent(x) /\ x.k # "c2"
<1>1. pc \in Commands
  BY ThenPlaces DEF SendCommand
<1>2. PICK k \in {pc, "part"} : toServer' = Sent([k |-> k])
  BY DEF SendCommand
<1> QED
  BY <1>1, <1>2 DEF Requests, Commands

LEMMA SentAck ==
  ASSUME Typed, SendAck
  PROVE  \E x \in Requests : toServer' = Sent(x) /\ x.k # "c2"
<1>1. PICK k \in {"ack", "part"} : toServer' = Sent([k |-> k])
  BY DEF SendAck
<1> QED
  BY <1>1 DEF Requests

LEMMA Taken ==
  ASSUME Typed, toClient # << >>, toClient' = Tail(toClient)
  PROVE  /\ toClient' \in Seq(Answers) /\ Items(toClient') \subseteq Items(toClient)
         /\ Head(toClient) \in Items(toClient) /\ Head(toClient) \in Answers
         /\ Len(toClient) \in Nat /\ Len(toClient') = Len(toClient) - 1
  BY ItemsTail DEF Typed

LEMMA AckMoved ==
  ASSUME NEW a \in AckTypes, NEW b, b = [a EXCEPT !.nb_recv_bytes = a.rbytes]
  PROVE  b \in AckTypes /\ b.nb_recv_bytes <= b.rbytes
<1>1. PICK r \in Nat : a.rbytes = r
  BY DEF AckTypes
<1>2. b = [a EXCEPT !.nb_recv_bytes = r]
  BY <1>1
<1>3. b.nb_recv_bytes = r /\ b.rbytes = r /\ b \in AckTypes
  BY <1>1, <1>2 DEF AckTypes
<1> QED
  BY <1>3

LEMMA AckGrown ==
  ASSUME NEW a \in AckTypes, a.nb_recv_bytes <= a.rbytes, NEW k \in Nat,
         NEW b, b = [a EXCEPT !.rbytes = a.rbytes + k]
  PROVE  b \in AckTypes /\ b.nb_recv_bytes <= b.rbytes
<1>1. PICK r \in Nat, n \in Nat : a.rbytes = r /\ a.nb_recv_bytes = n /\ n <= r
  BY DEF AckTypes
<1>2. b = [a EXCEPT !.rbytes = r + k] /\ r + k \in Nat
  BY <1>1
<1>3. b.nb_recv_bytes = n /\ b.rbytes = r + k /\ b \in AckTypes
  BY <1>1, <1>2 DEF AckTypes
<1> QED
  BY <1>1, <1>3

LEMMA TypedInit == Init => Typed
<1> SUFFICES ASSUME Init PROVE Typed
  OBVIOUS
<1>1. 0 \in 0 .. MaxCalls /\ 0 \in 0 .. MaxChatter
  BY SessionAssumption
<1>2. "idle" \in Places
  BY DEF Places
<1>a. NewAck.nb_recv_bytes <= NewAck.rbytes
  BY Beginning
<1>b. /\ ack = NewAck /\ timeout = NewTimeout /\ hs = NewHs /\ stream_id = 0
      /\ ctx \in BOOLEAN /\ pc = "idle" /\ fd = "new" /\ told = {} /\ guessed = {}
      /\ cut \in BOOLEAN /\ calls \in 0 .. MaxCalls /\ chatter \in 0 .. MaxChatter
  BY <1>1 DEF Init
<1>c. 0 \in Int
  OBVIOUS
<1>3. TypeOK
  BY <1>a, <1>b, <1>c, <1>2, Beginning DEF TypeOK
<1> QED
  BY <1>3, Beginning DEF Init, Typed, Fresh

LEMMA TypedApplication ==
  ASSUME Typed, Application
  PROVE  Typed'
<1>1. CASE Create
  BY <1>1 DEF Create, client, history, Typed, TypeOK, Fresh
<1>2. CASE Destroy
  <2>1. 0 \in 0 .. MaxChatter
    BY SessionAssumption
  <2>a. NewAck.nb_recv_bytes <= NewAck.rbytes
    BY Beginning
  <2>b. /\ ack' = NewAck /\ timeout' = NewTimeout /\ hs' = NewHs /\ stream_id' = 0
        /\ ctx' \in BOOLEAN /\ pc' = pc /\ fd' = "new" /\ told' = {} /\ guessed' = {}
        /\ cut' \in BOOLEAN /\ calls' = calls /\ chatter' \in 0 .. MaxChatter
    BY <1>2, <2>1 DEF Destroy
  <2>c. 0 \in Int
    OBVIOUS
  <2>2. TypeOK'
    BY <2>a, <2>b, <2>c, Beginning DEF Typed, TypeOK
  <2>3. Fresh' /\ ack' = NewAck /\ pc' = "idle"
    BY <1>2 DEF Destroy, Fresh
  <2> QED
    BY <2>2, <2>3, Beginning DEF Typed, Fresh
<1>3. CASE Calls
  <2>1. /\ pc' \in {"resolve", "connect", "release"} /\ calls' = calls + 1 /\ calls < MaxCalls
        /\ pc = "idle"
        /\ UNCHANGED <<ctx, client, toServer, toClient, srv, chatter, history>>
    BY <1>3 DEF Calls, Call
  <2>2. pc' \in Places
    BY <2>1, ThenPlaces DEF Places, Commands
  <2>3. calls' \in 0 .. MaxCalls
    BY <2>1, SessionAssumption DEF Typed, TypeOK
  <2> QED
    BY <2>1, <2>2, <2>3 DEF client, history, Typed, TypeOK, Fresh
<1>4. CASE \E t \in Settings : SetTimeout(t[1], t[2])
  <2>1. PICK t \in Settings : SetTimeout(t[1], t[2])
    BY <1>4
  <2>2. t[1] \in Timeouts \cup {NoTimeout} /\ t[2] \in Timeouts \cup {NoTimeout}
    BY SessionAssumption
  <2>3. timeout' \in TimeoutTypes
    BY <2>1, <2>2 DEF SetTimeout, Option, TimeoutTypes
  <2>4. calls' \in 0 .. MaxCalls
    BY <2>1, SessionAssumption DEF SetTimeout, Typed, TypeOK
  <2> QED
    BY <2>1, <2>3, <2>4 DEF SetTimeout, history, Typed, TypeOK, Fresh
<1> QED
  BY <1>1, <1>2, <1>3, <1>4 DEF Application

LEMMA TypedHandshake ==
  ASSUME Typed, Handshake
  PROVE  Typed'
<1>1. CASE Resolve
  BY <1>1 DEF Resolve, client, history, Typed, TypeOK, Places, Fresh
<1>2. CASE Connect
  <2>1. timeout' \in TimeoutTypes
    BY <1>2, SessionAssumption DEF Connect, Timed, Typed, TypeOK, TimeoutTypes
  <2>2. fd' \in {"new", "connected"} /\ pc' \in {"c0c1", "idle"}
        /\ (fd' = "new" => fd = "new") /\ (pc' = "c0c1" => fd = "new" /\ fd' = "connected")
    BY <1>2 DEF Connect, Typed, TypeOK
  <2> QED
    BY <1>2, <2>1, <2>2 DEF Connect, history, Typed, TypeOK, Places, Fresh
<1>3. CASE WriteC0C1
  <2>1. PICK x \in Requests : toServer' = Append(toServer, x)
    BY <1>3 DEF WriteC0C1, Write, Requests
  <2>2. toServer' \in Seq(Requests)
    BY <2>1, Asked
  <2>3. hs = NewHs /\ fd = "connected" /\ told = {}
    BY <1>3 DEF WriteC0C1, Typed, Fresh
  <2>4. hs' = [NewHs EXCEPT !.c0c1 = TRUE, !.s0s1s2 = TRUE] /\ cut' \in BOOLEAN
    BY <1>3, <2>3 DEF WriteC0C1, Write, Typed, TypeOK
  <2>5. pc' = "s0s1s2"
    BY <1>3, <2>3 DEF WriteC0C1, NewHs
  <2>6. hs' \in HsTypes /\ hs'.parts = 0
    BY <2>4, Beginning DEF HsTypes
  <2> QED
    BY <1>3, <2>2, <2>3, <2>4, <2>5, <2>6 DEF WriteC0C1, Typed, TypeOK, Places
<1>4. CASE ReadS0S1S2
  <2>1. Head(toClient) \in Answers /\ toClient' \in Seq(Answers)
    BY <1>4, Taken DEF ReadS0S1S2
  <2>2. Head(toClient).plain \in BOOLEAN
    BY <1>4, <2>1 DEF ReadS0S1S2, Answers, Kinds
  <2>3. hs.parts \in {0, 1} /\ hs \in HsTypes
    BY <1>4 DEF ReadS0S1S2, Typed, TypeOK
  <2>4. hs' \in HsTypes /\ hs'.parts = hs.parts + 1
    <3>1. PICK b \in BOOLEAN, n \in 0..1 : Head(toClient).plain = b /\ hs.parts = n
      BY <2>2, <2>3
    <3>2. hs' = [hs EXCEPT !.parts = n + 1, !.plain = b]
      BY <1>4, <3>1 DEF ReadS0S1S2
    <3>3. n + 1 \in 0..2
      OBVIOUS
    <3> QED
      BY <2>3, <3>1, <3>2, <3>3 DEF HsTypes
  <2>5. PICK k \in Nat : ack' = [ack EXCEPT !.rbytes = ack.rbytes + k]
    BY <1>4 DEF ReadS0S1S2
  <2>6. ack' \in AckTypes /\ ack'.nb_recv_bytes <= ack'.rbytes
    BY <2>5, AckGrown DEF Typed, TypeOK
  <2>8. pc' \in {"s0s1s2", "c2"} /\ (pc' = "s0s1s2" => hs'.parts # 2)
    BY <1>4 DEF ReadS0S1S2
  <2>9. fd = "connected" /\ "handshake" \notin told
    BY <1>4 DEF ReadS0S1S2, Typed
  <2>10. TypeOK'
    BY <1>4, <2>4, <2>6, <2>8
    DEF ReadS0S1S2, history, Typed, TypeOK, Places
  <2> QED
    BY <1>4, <2>1, <2>3, <2>4, <2>6, <2>8, <2>9, <2>10
    DEF ReadS0S1S2, history, Typed
<1>5. CASE WriteC2
  <2>1. toServer' \in Seq(Requests)
    <3>1. CASE hs.plain
      <4>1. PICK x \in Requests : toServer' = Append(toServer, x)
        BY <1>5, <3>1 DEF WriteC2, Write, Requests
      <4> QED
        BY <4>1, Asked
    <3>2. CASE ~hs.plain
      BY <1>5, <3>2 DEF WriteC2, Typed
    <3> QED
      BY <3>1, <3>2
  <2>2. cut' \in BOOLEAN /\ pc' = "idle" /\ told' \in {told, told \cup {"handshake"}}
    BY <1>5 DEF WriteC2, Write, Typed, TypeOK
  <2>3. fd = "connected"
    BY <1>5 DEF WriteC2, Typed
  <2> QED
    BY <1>5, <2>1, <2>2, <2>3 DEF WriteC2, client, Typed, TypeOK, Places
<1> QED
  BY <1>1, <1>2, <1>3, <1>4, <1>5 DEF Handshake

LEMMA TypedCommand ==
  ASSUME Typed, SendCommand \/ SendFails \/ RecvFails
  PROVE  Typed'
<1>1. CASE SendCommand
  <2>1. pc \in Commands /\ fd = "connected"
    BY <1>1, ThenPlaces DEF SendCommand
  <2>3. toServer' \in Seq(Requests)
    BY <1>1, SentCommand, SentItem
  <2>4. /\ pc' \in {"ack_size", "expect_app", "fcpublish", "create", "expect_stream", "idle"}
        /\ told' \in {told, told \cup {"publish"}} /\ guessed' = guessed /\ cut' = cut
    BY <1>1, <2>1, ThenPlaces DEF SendCommand, Returns, history
  <2>5. pc' \in Places
    BY <2>4, ThenPlaces DEF Places, Commands
  <2>6. msg = NoMsg
    BY <2>1 DEF Commands, Typed
  <2>7. TypeOK'
    BY <1>1, <2>4, <2>5 DEF SendCommand, client, Typed, TypeOK
  <2> QED
    BY <1>1, <2>1, <2>3, <2>4, <2>6, <2>7 DEF SendCommand, client, Typed
<1>2. CASE SendFails
  <2>1. toServer' \in Seq(Requests)
    <3>1. CASE toServer' = toServer
      BY <3>1 DEF Typed
    <3>2. CASE toServer' = Append(toServer, [k |-> "part"])
      BY <3>2, Asked DEF Requests
    <3> QED
      BY <1>2, <3>1, <3>2 DEF SendFails
  <2>2. pc' = "idle" /\ pc' \in Places /\ msg' = NoMsg
    BY <1>2 DEF SendFails, Places
  <2>3. hs' \in HsTypes /\ (pc # "c0c1" => hs' = hs)
    BY <1>2 DEF SendFails, Typed, TypeOK, HsTypes
  <2>4. ack' \in AckTypes /\ ack'.nb_recv_bytes <= ack'.rbytes
    BY <1>2, AckMoved DEF SendFails, Typed, TypeOK
  <2>5. fd = "new" => toServer' = toServer
    BY <1>2 DEF SendFails
  <2> QED
    BY <1>2, <2>1, <2>2, <2>3, <2>4, <2>5
    DEF SendFails, history, Typed, TypeOK, Fresh
<1>3. CASE RecvFails
  <2>1. pc' \in Places
    BY <1>3 DEF RecvFails, Places
  <2>2. msg = NoMsg /\ pc' \notin {"c0c1", "s0s1s2", "c2"}
    BY <1>3 DEF RecvFails, Receiving, Waiting, Typed
  <2>3. TypeOK'
    BY <1>3, <2>1 DEF RecvFails, client, history, Typed, TypeOK
  <2> QED
    BY <1>3, <2>2, <2>3 DEF RecvFails, client, history, Typed, Fresh
<1> QED
  BY <1>1, <1>2, <1>3

LEMMA TypedExpect ==
  ASSUME Typed, Expect
  PROVE  Typed'
<1>1. CASE Receive
  <2>1. Head(toClient) \in Answers /\ toClient' \in Seq(Answers)
    BY <1>1, Taken DEF Receive
  <2>2. [k |-> Head(toClient).k, n |-> Head(toClient).n, due |-> AckDue(ack.rbytes + 1)]
          \in Received
    <3>1. AckDue(ack.rbytes + 1) \in BOOLEAN
      BY DEF AckDue
    <3>2. Head(toClient) \in [k : Kinds, n : Nat] \cup [k : {"ack_size"}, n : Windows]
      BY <1>1, <2>1 DEF Receive, Answers
    <3> QED
      BY <3>1, <3>2 DEF Received
  <2>3. ack' \in AckTypes /\ ack'.nb_recv_bytes <= ack'.rbytes
    BY <1>1, AckGrown DEF Receive, Typed, TypeOK
  <2>4. fd = "connected"
    BY <1>1 DEF Receive, Typed, TypeOK, Fresh
  <2> QED
    BY <1>1, <2>1, <2>2, <2>3, <2>4 DEF Receive, Waiting, history, Typed, TypeOK
<1>9. CASE ReceiveLeftover
  <2>1. toClient' \in Seq(Answers)
    BY <1>9, Taken DEF ReceiveLeftover
  <2>2. ack' \in AckTypes /\ ack'.nb_recv_bytes <= ack'.rbytes
    BY <1>9, AckGrown DEF ReceiveLeftover, Typed, TypeOK
  <2>3. fd = "connected" /\ msg = NoMsg
    BY <1>9 DEF ReceiveLeftover, Waiting, Typed, TypeOK, Fresh
  <2>4. pc' \in {"expect_app", "expect_stream", "idle", "dead"} /\ pc' \in Places
    BY <1>9 DEF ReceiveLeftover, Waiting, Places
  <2> QED
    BY <1>9, <2>1, <2>2, <2>3, <2>4 DEF ReceiveLeftover, history, Typed, TypeOK
<1> SUFFICES ASSUME msg # NoMsg, msg \in Received, fd = "connected" PROVE Typed'
  BY <1>1, <1>9 DEF Expect, SendAck, MatchApp, MatchStream, Drop, TakeWindow, TakeUserControl,
     Reject, UntypedDropped, UntypedTaken, Handling, Typed, TypeOK, Fresh
<1>2. CASE SendAck
  <2>1. toServer' \in Seq(Requests)
    BY <1>2, SentAck, SentItem
  <2>2. msg' \in Received
    BY <1>2 DEF SendAck, Received
  <2>3. ack' \in AckTypes /\ ack'.nb_recv_bytes <= ack'.rbytes
    BY <1>2, AckMoved DEF SendAck, Typed, TypeOK
  <2>4. pc # "c0c1"
    BY DEF Typed, Fresh
  <2> QED
    BY <1>2, <2>1, <2>2, <2>3, <2>4 DEF SendAck, history, Typed, TypeOK
<1>3. CASE MatchApp
  BY <1>3 DEF MatchApp, Returns, Handling, Typed, TypeOK, Places
<1>4. CASE MatchStream
  <2>1. msg.n \in Int
    <3>1. Windows \subseteq Int /\ Nat \subseteq Int
      BY SessionAssumption
    <3>2. msg.n \in Nat \/ msg.n \in Windows
      BY DEF Received
    <3> QED
      BY <3>1, <3>2
  <2>2. "publish" \in Places
    BY ThenPlaces DEF Places, Commands
  <2> QED
    BY <1>4, <2>1, <2>2 DEF MatchStream, Handling, history, Typed, TypeOK
<1>5. CASE Drop \/ UntypedDropped
  BY <1>5 DEF Drop, UntypedDropped, Handling, history, Typed, TypeOK
<1>6. CASE TakeWindow
  <2>1. msg.n \in Windows
    BY <1>6 DEF TakeWindow, Handling, Received, Kinds
  <2>2. ack' \in AckTypes /\ ack'.nb_recv_bytes <= ack'.rbytes
    BY <1>6, <2>1 DEF TakeWindow, Typed, TypeOK, AckTypes
  <2> QED
    BY <1>6, <2>2 DEF TakeWindow, Handling, history, Typed, TypeOK
<1>7. CASE TakeUserControl \/ Reject
  BY <1>7 DEF TakeUserControl, Reject, Handling, client, history, Typed, TypeOK, Places
<1>8. CASE UntypedTaken
  <2>1. pc' \in {"idle", "publish", "dead"} /\ pc' \in Places
    BY <1>8, ThenPlaces DEF UntypedTaken, Places, Commands
  <2>2. /\ told' \in {told, told \cup {"connect_app"}}
        /\ guessed' \subseteq told' \cup {"publish"}
    BY <1>8 DEF UntypedTaken, Typed, TypeOK
  <2>3. stream_id' \in Int
    BY <1>8, SessionAssumption DEF UntypedTaken, Typed, TypeOK
  <2> QED
    BY <1>8, <2>1, <2>2, <2>3 DEF UntypedTaken, Handling, Typed, TypeOK
<1> QED
  BY <1>1, <1>2, <1>3, <1>4, <1>5, <1>6, <1>7, <1>8, <1>9 DEF Expect

(* What the server does: an answer or none, and nothing of the client's.   *)
LEMMA ServerStep ==
  ASSUME Typed, Server
  PROVE  /\ UNCHANGED <<ctx, pc, client, calls, history>>
         /\ srv' \in Servers /\ chatter' \in 0 .. MaxChatter
         /\ toServer' \in Seq(Requests) /\ toClient' \in Seq(Answers)
         /\ ~Fresh
<1> DEFINE Takes == toServer # << >> /\ toServer' = Tail(toServer) /\ chatter' = chatter
<1>1. Takes => toServer' \in Seq(Requests) /\ chatter' \in 0 .. MaxChatter /\ ~Fresh
  BY ItemsTail DEF Typed, TypeOK, Fresh
<1>2. ASSUME NEW x \in Answers, toClient' = toClient \o <<x>>
      PROVE  toClient' \in Seq(Answers)
  BY <1>2 DEF Typed
<1>3. toClient' = toClient \o << >> => toClient' = toClient
  BY DEF Typed
<1>4. srv.streams \in Nat
  BY DEF Typed, Servers
<1> USE DEF Got, ServerDoes, Message
<1>5. CASE ServerHello
  <2>1. Takes /\ srv' = [srv EXCEPT !.stage = "hello"]
    BY <1>5 DEF ServerHello
  <2>2. PICK plain \in BOOLEAN : toClient' = toClient \o [i \in 1..2 |-> [k |-> "s", plain |-> plain]]
    BY <1>5 DEF ServerHello
  <2>3. [k |-> "s", plain |-> plain] \in Answers
    BY DEF Answers
  <2>4. [i \in 1..2 |-> [k |-> "s", plain |-> plain]] \in Seq(Answers)
    BY <2>3
  <2>5. toClient' \in Seq(Answers)
    BY <2>2, <2>4 DEF Typed
  <2> QED
    BY <1>1, <1>5, <2>1, <2>5 DEF ServerHello, Typed, Servers, Stages
<1>6. CASE ServerShaken
  BY <1>1, <1>3, <1>6 DEF ServerShaken, Typed, Servers, Stages
<1>7. CASE ServerAccepts
  <2>1. [k |-> "result1", n |-> 0] \in Answers
    BY DEF Answers, Kinds
  <2> QED
    BY <1>1, <1>2, <1>7, <2>1 DEF ServerAccepts, Typed, Servers, Stages
<1>8. CASE ServerRejects
  <2>1. [k |-> "error1", n |-> 0] \in Answers /\ [k |-> "error4", n |-> 0] \in Answers
    BY DEF Answers, Kinds
  <2> QED
    BY <1>1, <1>2, <1>8, <2>1 DEF ServerRejects, Typed, Servers, Stages
<1>9. CASE ServerCreates
  <2>1. [k |-> "result4", n |-> srv.streams + 1] \in Answers
    BY <1>4 DEF Answers, Kinds
  <2>2. PICK n \in Nat : srv.streams = n
    BY <1>4
  <2>3. srv' = [srv EXCEPT !.streams = n + 1] /\ n + 1 \in Nat
    BY <1>9, <2>2 DEF ServerCreates
  <2>4. srv' \in Servers
    BY <2>3 DEF Typed, Servers
  <2> QED
    BY <1>1, <1>2, <1>9, <2>1, <2>4 DEF ServerCreates
<1>10. CASE ServerTakes
  <2>1. [k |-> "command", n |-> 0] \in Answers
    BY DEF Answers, Kinds
  <2> QED
    BY <1>1, <1>2, <1>3, <1>10, <2>1 DEF ServerTakes, Typed
<1>11. CASE ServerGivesUp
  BY <1>1, <1>3, <1>11 DEF ServerGivesUp, Typed, Servers, Stages
<1>12. ASSUME NEW k, NEW n, ServerChats(k, n), [k |-> k, n |-> n] \in Answers
       PROVE  /\ UNCHANGED <<ctx, pc, client, calls, history, srv, toServer>>
              /\ chatter' \in 0 .. MaxChatter /\ toClient' \in Seq(Answers) /\ ~Fresh
  <2>1. chatter' = chatter + 1 /\ chatter < MaxChatter
    BY <1>12 DEF ServerChats
  <2>2. chatter' \in 0 .. MaxChatter
    BY <2>1, SessionAssumption DEF Typed, TypeOK
  <2>3. ~Fresh
    BY <1>12 DEF ServerChats, Fresh, NewServer
  <2> QED
    BY <1>2, <1>12, <2>2, <2>3 DEF ServerChats
<1>13. CASE \/ ServerChats("bandwidth", 0) \/ ServerChats("user_control", 0)
            \/ ServerChats("command", 0) \/ ServerChats("malformed", 0)
  <2>1. \A k \in Kinds : [k |-> k, n |-> 0] \in Answers
    BY DEF Answers
  <2> QED
    BY <1>12, <1>13, <2>1 DEF Kinds, Typed
<1>14. CASE \E w \in Windows : ServerChats("ack_size", w)
  <2>1. \A w \in Windows : [k |-> "ack_size", n |-> w] \in Answers
    BY DEF Answers
  <2> QED
    BY <1>12, <1>14, <2>1 DEF Typed
<1> QED
  BY <1>5, <1>6, <1>7, <1>8, <1>9, <1>10, <1>11, <1>13, <1>14 DEF Server

LEMMA TypedNext ==
  ASSUME Typed, [Next]_vars
  PROVE  Typed'
<1>1. CASE Server
  BY <1>1, ServerStep DEF client, history, Typed, TypeOK
<1>2. CASE UNCHANGED vars
  BY <1>2 DEF vars, client, history, Typed, TypeOK, Fresh
<1> QED
  BY <1>1, <1>2, TypedApplication, TypedHandshake, TypedCommand, TypedExpect DEF Next, Inside

(* Each message under way is one that client or server may send, and the   *)
(* client is at the place that what it holds belongs to.                   *)
THEOREM TypedAlways == Spec => []Typed
  BY TypedInit, TypedNext, PTL DEF Spec

-----------------------------------------------------------------------------
(* Timeouts: what a limit in the context says of the socket's.             *)
Timely ==
  /\ timeout.stimeout \notin {0, NoTimeout} => timeout.snd > 0
  /\ timeout.stimeout # 0 /\ timeout.rtimeout \notin {0, NoTimeout} =>
       timeout.rcv > 0

LEMMA TimelyNext ==
  ASSUME Typed, Timely, [Next]_vars
  PROVE  Timely'
<1>1. CASE \/ Create \/ Calls \/ Resolve \/ WriteC0C1 \/ ReadS0S1S2 \/ WriteC2
           \/ SendCommand \/ SendFails \/ RecvFails \/ Expect \/ Server \/ UNCHANGED vars
  <2>1. timeout' = timeout
    BY <1>1
    DEF Create, Calls, Call, Resolve, WriteC0C1, ReadS0S1S2, WriteC2, SendCommand, SendFails,
        RecvFails, Expect, Receive, ReceiveLeftover, SendAck, MatchApp, MatchStream, Drop, TakeWindow,
        TakeUserControl, Reject, UntypedDropped, UntypedTaken, Server, ServerHello,
        ServerShaken, ServerAccepts, ServerRejects, ServerCreates, ServerTakes,
        ServerGivesUp, ServerChats, ServerDoes, vars, client
  <2> QED
    BY <2>1 DEF Timely
<1>2. CASE Destroy
  BY <1>2 DEF Destroy, NewTimeout, Timely
<1>3. CASE \E t \in Settings : SetTimeout(t[1], t[2])
  <2>1. PICK t \in Settings : SetTimeout(t[1], t[2])
    BY <1>3
  <2>2. /\ timeout'.rtimeout = t[1] /\ timeout'.rcv \in Option(t[1])
        /\ timeout'.stimeout = t[2] /\ timeout'.snd \in Option(t[2])
    BY <2>1 DEF SetTimeout
  <2>3. \A x \in Timeouts \ {0} : x > 0
    BY SessionAssumption
  <2>4. t[1] \in Timeouts \cup {NoTimeout} /\ t[2] \in Timeouts \cup {NoTimeout}
    BY SessionAssumption
  <2> QED
    BY <2>2, <2>3, <2>4 DEF Option, Timely
<1>4. CASE Connect
  <2>1. timeout' = Timed(timeout)
    BY <1>4 DEF Connect
  <2>2. NoTimeout # Default /\ Default > 0 /\ \A x \in Timeouts \ {0} : x > 0
    BY SessionAssumption
  <2>3. timeout \in TimeoutTypes
    BY DEF Typed, TypeOK
  <2>4. /\ timeout'.stimeout = IF timeout.stimeout = NoTimeout THEN Default ELSE timeout.stimeout
        /\ timeout'.rtimeout = IF timeout.rtimeout = NoTimeout THEN Default ELSE timeout.rtimeout
        /\ timeout'.rcv = IF timeout.rtimeout = NoTimeout THEN timeout'.stimeout ELSE timeout.rcv
        /\ timeout'.snd = IF timeout.stimeout = NoTimeout THEN Default ELSE timeout.snd
    BY <2>1 DEF Timed
  <2>5. timeout'.stimeout \in Timeouts /\ timeout'.rtimeout \in Timeouts
    BY <2>3, <2>4, SessionAssumption DEF TimeoutTypes
  <2>6. timeout'.stimeout # 0 => timeout'.snd > 0
    BY <2>2, <2>4 DEF Timely
  <2>7. timeout'.stimeout # 0 /\ timeout'.rtimeout # 0 => timeout'.rcv > 0
    <3>1. CASE timeout.rtimeout = NoTimeout
      BY <2>2, <2>4, <2>5, <3>1
    <3>2. CASE timeout.rtimeout # NoTimeout
      <4>1. 0 # NoTimeout
        BY SessionAssumption
      <4>2. timeout.stimeout = 0 => timeout'.stimeout = 0
        BY <2>4, <4>1
      <4> QED
        BY <2>4, <3>2, <4>2 DEF Timely
    <3> QED
      BY <3>1, <3>2
  <2> QED
    BY <2>6, <2>7 DEF Timely
<1> QED
  BY <1>1, <1>2, <1>3, <1>4 DEF Next, Application, Handshake, Inside

(* An application that set both timeouts to a limit, or left them to the   *)
(* defaults, has a limit in the socket for both directions, in whatever    *)
(* order it made its calls: no timeout of 0 and no uninitialized one gets  *)
(* there.                                                                  *)
THEOREM RecvHasTimeout == Spec => []WaitsAreTimed
<1>1. Init => Timely
  BY DEF Init, NewTimeout, Timely
<1>2. Timely => WaitsAreTimed
  BY DEF Timely, Limited, WaitsAreTimed
<1> QED
  BY <1>1, <1>2, TimelyNext, TypedAlways, PTL DEF Spec

-----------------------------------------------------------------------------
(* The handshake: where it is, what is on its way and where the server is. *)
Shaking ==
  /\ pc = "c2" => hs.parts = 2
  /\ pc = "s0s1s2" /\ ~cut =>
       /\ ~srv.refused
       /\ \/ srv.stage = "none" /\ toServer = <<[k |-> "c0c1"]>> /\ toClient = << >> /\ hs.parts = 0
          \/ srv.stage = "hello" /\ toServer = << >>
  /\ pc = "c2" /\ ~cut => ~srv.refused /\ srv.stage = "hello" /\ toServer = << >>
  /\ "handshake" \in told /\ ~cut =>
       /\ hs.parts = 2 /\ hs.plain /\ ~srv.refused /\ srv.stage # "none"
       /\ srv.stage = "hello" =>
            toServer # << >> /\ Head(toServer) = [k |-> "c2", whole |-> TRUE]

(* What is outside the handshake leaves it alone.                          *)
LEMMA ShakingApart ==
  ASSUME Typed, Shaking,
         hs' = hs, srv' = srv, cut' = cut, "handshake" \in told' => "handshake" \in told,
         toServer # << >> => toServer' # << >> /\ Head(toServer') = Head(toServer),
         pc' \notin {"s0s1s2", "c2"}
  PROVE  Shaking'
  BY DEF Shaking

LEMMA ShakingApplication ==
  ASSUME Typed, Shaking, Application
  PROVE  Shaking'
<1>1. CASE Create
  BY <1>1 DEF Create, client, history, Shaking
<1>2. CASE Destroy
  BY <1>2 DEF Destroy, Shaking
<1>3. CASE Calls
  BY <1>3, ShakingApart DEF Calls, Call, client, history
<1>4. CASE \E t \in Settings : SetTimeout(t[1], t[2])
  BY <1>4 DEF SetTimeout, history, Shaking
<1> QED
  BY <1>1, <1>2, <1>3, <1>4 DEF Application

LEMMA ShakingHandshake ==
  ASSUME Typed, Shaking, Handshake
  PROVE  Shaking'
<1>1. CASE Resolve
  BY <1>1, ShakingApart DEF Resolve, client, history
<1>2. CASE Connect
  BY <1>2, ShakingApart DEF Connect, history
<1>3. CASE WriteC0C1
  <2>1. Fresh /\ hs = NewHs
    BY <1>3 DEF WriteC0C1, Typed, Fresh
  <2>2. pc' = "s0s1s2" /\ told' = {} /\ srv' = NewServer /\ toClient' = << >>
    BY <1>3, <2>1 DEF WriteC0C1, NewHs, Fresh
  <2>3. hs'.parts = 0
    BY <1>3, <2>1 DEF WriteC0C1, NewHs
  <2>4. ~cut' => toServer' = <<[k |-> "c0c1"]>>
    BY <1>3, <2>1 DEF WriteC0C1, Write, Fresh
  <2> QED
    BY <2>2, <2>3, <2>4 DEF Shaking, NewServer
<1>4. CASE ReadS0S1S2
  <2>1. "handshake" \notin told' /\ cut' = cut /\ srv' = srv /\ toServer' = toServer
    BY <1>4 DEF ReadS0S1S2, history, Typed
  <2>2. ~cut => srv.stage = "hello" /\ toServer = << >> /\ ~srv.refused
    BY <1>4 DEF ReadS0S1S2, Shaking
  <2>3. pc' \in {"s0s1s2", "c2"} /\ (pc' = "c2" => hs'.parts = 2)
    BY <1>4 DEF ReadS0S1S2
  <2> QED
    BY <2>1, <2>2, <2>3 DEF Shaking
<1>5. CASE WriteC2
  <2>1. CASE hs.plain
    <3>1. hs' = hs /\ srv' = srv /\ hs.parts = 2 /\ pc' = "idle"
      BY <1>5, <2>1 DEF WriteC2, Shaking, client
    <3>2. ~cut' => /\ ~cut
                   /\ toServer' = Append(toServer, [k |-> "c2", whole |-> TRUE])
      BY <1>5, <2>1, <3>1 DEF WriteC2, Write, Typed, TypeOK
    <3>3. ~cut' => /\ ~srv.refused /\ srv.stage = "hello"
                   /\ toServer' = <<[k |-> "c2", whole |-> TRUE]>>
      BY <1>5, <3>2 DEF WriteC2, Shaking
    <3> QED
      BY <2>1, <3>1, <3>3 DEF Shaking
  <2>2. CASE ~hs.plain
    BY <1>5, <2>2, ShakingApart DEF WriteC2, client
  <2> QED
    BY <2>1, <2>2
<1> QED
  BY <1>1, <1>2, <1>3, <1>4, <1>5 DEF Handshake

LEMMA ShakingCommand ==
  ASSUME Typed, Shaking, SendCommand \/ SendFails \/ RecvFails
  PROVE  Shaking'
<1>1. CASE SendCommand
  <2>1. pc \in Commands
    BY <1>1, ThenPlaces DEF SendCommand
  <2>3. toServer # << >> => toServer' # << >> /\ Head(toServer') = Head(toServer)
    BY <1>1, SentCommand, SentItem
  <2>4. pc' \notin {"s0s1s2", "c2"}
    BY <1>1, <2>1, ThenPlaces DEF SendCommand, Returns
  <2>5. hs' = hs /\ srv' = srv /\ cut' = cut /\ ("handshake" \in told' => "handshake" \in told)
    BY <1>1 DEF SendCommand, Returns, client, history
  <2> QED
    BY <2>3, <2>4, <2>5, ShakingApart
<1>2. CASE SendFails
  <2>1. toServer # << >> => toServer' # << >> /\ Head(toServer') = Head(toServer)
    BY <1>2, Asked DEF SendFails, Requests
  <2>2. CASE pc = "c0c1"
    BY <1>2, <2>2 DEF SendFails, history, Typed, Shaking
  <2>3. CASE pc # "c0c1"
    BY <1>2, <2>1, <2>3, ShakingApart DEF SendFails, history
  <2> QED
    BY <2>2, <2>3
<1>3. CASE RecvFails
  <2>1. pc' \in {"idle", "dead"}
    BY <1>3 DEF RecvFails
  <2> QED
    BY <1>3, <2>1, ShakingApart DEF RecvFails, client, history
<1> QED
  BY <1>1, <1>2, <1>3

LEMMA ShakingExpect ==
  ASSUME Typed, Shaking, Expect
  PROVE  Shaking'
<1>1. pc' \notin {"s0s1s2", "c2"}
  <2>1. CASE SendAck
    BY <2>1 DEF SendAck, Typed, Shaking
  <2>2. CASE ~SendAck
    BY <2>2
    DEF Expect, Receive, ReceiveLeftover, Waiting, MatchApp, Returns, MatchStream, Drop, TakeWindow,
        TakeUserControl, Reject, UntypedDropped, UntypedTaken, Handling
  <2> QED
    BY <2>1, <2>2
<1>2. hs' = hs /\ srv' = srv /\ cut' = cut /\ ("handshake" \in told' => "handshake" \in told)
  BY DEF Expect, Receive, ReceiveLeftover, SendAck, MatchApp, Returns, MatchStream, Drop, TakeWindow,
     TakeUserControl, Reject, UntypedDropped, UntypedTaken, client, history
<1>3. toServer # << >> => toServer' # << >> /\ Head(toServer') = Head(toServer)
  <2>1. CASE SendAck
    BY <2>1, SentAck, SentItem
  <2>2. CASE ~SendAck
    BY <2>2
    DEF Expect, Receive, ReceiveLeftover, MatchApp, MatchStream, Drop, TakeWindow,
        TakeUserControl, Reject, UntypedDropped, UntypedTaken
  <2> QED
    BY <2>1, <2>2
<1> QED
  BY <1>1, <1>2, <1>3, ShakingApart

LEMMA ShakingServer ==
  ASSUME Typed, Shaking, Server
  PROVE  Shaking'
<1>1. /\ pc' = pc /\ hs' = hs /\ cut' = cut /\ told' = told
  BY ServerStep DEF client, history
<1>2. srv \in Servers /\ toServer \in Seq(Requests)
  BY DEF Typed
<1> USE DEF Got, ServerDoes, Message
<1>3. CASE ServerHello
  <2>1. /\ srv.stage = "none" /\ Head(toServer).k = "c0c1" /\ toServer # << >>
        /\ toServer' = Tail(toServer) /\ srv' = [srv EXCEPT !.stage = "hello"]
    BY <1>3 DEF ServerHello
  <2>2. srv'.stage = "hello" /\ srv'.refused = srv.refused
    BY <1>2, <2>1 DEF Servers
  <2>3. pc = "s0s1s2" /\ ~cut => toServer' = << >> /\ ~srv.refused
    <3>1. Tail(<<[k |-> "c0c1"]>>) = << >>
      OBVIOUS
    <3> QED
      BY <2>1, <3>1 DEF Shaking
  <2>4. pc = "c2" => cut
    BY <2>1 DEF Shaking
  <2>5. "handshake" \in told => cut
    BY <2>1 DEF Shaking
  <2> QED
    BY <1>1, <2>2, <2>3, <2>4, <2>5 DEF Shaking
<1>4. CASE ServerShaken
  <2>1. srv.stage = "hello" /\ toServer # << >> /\ srv' = [srv EXCEPT !.stage = "shaken"]
    BY <1>4 DEF ServerShaken
  <2>2. srv'.stage = "shaken" /\ srv'.refused = srv.refused
    BY <1>2, <2>1 DEF Servers
  <2>3. pc \in {"s0s1s2", "c2"} => cut
    BY <2>1 DEF Shaking
  <2> QED
    BY <1>1, <2>2, <2>3 DEF Shaking
<1>5. CASE \/ ServerAccepts \/ ServerRejects \/ ServerCreates \/ ServerTakes
           \/ ServerChats("bandwidth", 0) \/ ServerChats("user_control", 0)
           \/ ServerChats("command", 0) \/ ServerChats("malformed", 0)
           \/ \E w \in Windows : ServerChats("ack_size", w)
  <2>1. srv.stage \in {"shaken", "app"}
    BY <1>5
    DEF ServerAccepts, ServerRejects, ServerCreates, ServerTakes, ServerChats
  <2>2. srv'.stage \in {"shaken", "app"} /\ srv'.refused = srv.refused
    BY <1>2, <1>5, <2>1
    DEF ServerAccepts, ServerRejects, ServerCreates, ServerTakes, ServerChats, Servers
  <2>3. pc \in {"s0s1s2", "c2"} => cut
    BY <2>1 DEF Shaking
  <2> QED
    BY <1>1, <2>2, <2>3 DEF Shaking
<1>6. CASE ServerGivesUp
  <2>1. /\ toServer # << >> /\ ~Understood
        /\ srv' = [srv EXCEPT !.stage = "broken",
                              !.refused = @ \/ srv.stage \in {"none", "hello"}]
    BY <1>6 DEF ServerGivesUp
  <2>2. /\ srv'.stage = "broken"
        /\ srv'.refused = (srv.refused \/ srv.stage \in {"none", "hello"})
    BY <1>2, <2>1 DEF Servers
  <2>3. pc = "s0s1s2" => cut
    BY <2>1 DEF Shaking, Understood
  <2>4. pc = "c2" => cut
    BY <2>1 DEF Shaking
  <2>5. "handshake" \in told /\ ~cut => srv.stage \notin {"none", "hello"}
    BY <2>1 DEF Shaking, Understood
  <2> QED
    BY <1>1, <2>2, <2>3, <2>4, <2>5 DEF Shaking
<1> QED
  BY <1>3, <1>4, <1>5, <1>6 DEF Server

LEMMA ShakingNext ==
  ASSUME Typed, Shaking, [Next]_vars
  PROVE  Shaking'
<1>1. CASE UNCHANGED vars
  BY <1>1 DEF vars, client, history, Shaking
<1> QED
  BY <1>1, ShakingApplication, ShakingHandshake, ShakingCommand, ShakingExpect, ShakingServer
  DEF Next, Inside

(* A handshake that returned success read S0S1S2 to its end, and was not   *)
(* refused by the server, unless a send was short: whatever calls failed   *)
(* before it, and wherever they did.                                       *)
THEOREM HandshakesAreWhole == Spec => []ShakenMeansWhole
<1>1. Init => Shaking
  BY DEF Init, Shaking
<1>2. Shaking => ShakenMeansWhole
  BY DEF Shaking, ShakenMeansWhole
<1> QED
  BY <1>1, <1>2, ShakingNext, TypedAlways, PTL DEF Spec

-----------------------------------------------------------------------------
(* The answers: what is known of the server when one is on its way.        *)
Shaken == "handshake" \in told
AppAnswers == {"result1", "error1"}

Answering ==
  /\ \A x \in Items(toServer) : x.k = "c2" => Shaken
  /\ srv.stage \in {"shaken", "app"} => Shaken
  /\ srv.answered => Shaken
  /\ \A x \in Items(toClient) : x.k \in AppAnswers => srv.answered
  /\ msg # NoMsg /\ msg.k \in AppAnswers => srv.answered
  /\ "connect_app" \in told \ guessed => srv.answered

(* A stream that the server created, and that the client took or will.     *)
Created(n) == srv.accepted /\ n \in 1 .. srv.streams

Publishing ==
  /\ srv.stage = "app" => srv.accepted
  /\ \A x \in Items(toClient) : x.k = "result4" => Created(x.n)
  /\ msg # NoMsg /\ msg.k = "result4" => Created(msg.n)
  /\ "publish" \notin guessed /\ pc = "publish" => Created(stream_id)
  /\ PublishMeansStream

LEMMA Answered ==
  ASSUME Typed, NEW x \in Answers, toClient' = toClient \o <<x>>
  PROVE  Items(toClient') = Items(toClient) \cup {x}
<1>1. toClient \in Seq(Answers)
  BY DEF Typed
<1>2. toClient \o <<x>> = Append(toClient, x)
  BY <1>1
<1>3. PICK q \in Seq(Answers) : q = Append(toClient, x) /\ Items(q) = Items(toClient) \cup {x}
  BY <1>1, ItemsAppend
<1>4. toClient' = q
  BY <1>2, <1>3
<1> QED
  BY <1>3, <1>4

LEMMA AnsweredNothing ==
  ASSUME Typed, toClient' = toClient \o << >>
  PROVE  toClient' = toClient
  BY DEF Typed

LEMMA Handled ==
  ASSUME Typed, toServer # << >>, toServer' = Tail(toServer)
  PROVE  Items(toServer') \subseteq Items(toServer) /\ Head(toServer) \in Items(toServer)
  BY ItemsTail DEF Typed

LEMMA AnsweringInit == Init => Answering /\ Publishing
  BY ItemsNone
  DEF Init, Answering, Publishing, NewServer, PublishMeansStream

LEMMA AnsweringApplication ==
  ASSUME Typed, Answering, Publishing, Application
  PROVE  Answering' /\ Publishing'
<1>1. CASE Create
  BY <1>1
  DEF Create, client, history, Answering, Shaken, Publishing, Created, PublishMeansStream
<1>2. CASE Destroy
  BY <1>2, ItemsNone
  DEF Destroy, NewServer, Answering, Publishing, PublishMeansStream
<1>3. CASE Calls
  BY <1>3
  DEF Calls, Call, client, history, Answering, Shaken, Publishing, Created, PublishMeansStream
<1>4. CASE \E t \in Settings : SetTimeout(t[1], t[2])
  BY <1>4
  DEF SetTimeout, history, Answering, Shaken, Publishing, Created, PublishMeansStream
<1> QED
  BY <1>1, <1>2, <1>3, <1>4 DEF Application

LEMMA AnsweringHandshake ==
  ASSUME Typed, Answering, Publishing, Handshake
  PROVE  Answering' /\ Publishing'
<1>1. /\ srv' = srv /\ msg' = msg /\ stream_id' = stream_id /\ guessed' = guessed
      /\ told \subseteq told' /\ told' \subseteq told \cup {"handshake"}
      /\ pc' # "publish"
  BY DEF Handshake, Resolve, Connect, WriteC0C1, ReadS0S1S2, WriteC2, client, history
<1>2. Items(toClient') \subseteq Items(toClient)
  BY Taken DEF Handshake, Resolve, Connect, WriteC0C1, ReadS0S1S2, WriteC2
<1>3. \A x \in Items(toServer') : x.k = "c2" => Shaken'
  <2>1. CASE Resolve \/ Connect \/ ReadS0S1S2
    BY <1>1, <2>1 DEF Resolve, Connect, ReadS0S1S2, Answering, Shaken
  <2>2. CASE WriteC0C1
    <3>1. PICK x \in Requests : toServer' = Append(toServer, x) /\ x.k # "c2"
      BY <2>2 DEF WriteC0C1, Write, Requests
    <3> QED
      BY <1>1, <3>1, Asked DEF Answering, Shaken
  <2>3. CASE WriteC2
    <3>1. CASE hs.plain
      BY <2>3, <3>1 DEF WriteC2, Shaken
    <3>2. CASE ~hs.plain
      BY <2>3, <3>2 DEF WriteC2, Answering, Shaken
    <3> QED
      BY <3>1, <3>2
  <2> QED
    BY <2>1, <2>2, <2>3 DEF Handshake
<1>4. Answering'
  BY <1>1, <1>2, <1>3 DEF Answering, Shaken
<1>5. Publishing'
  BY <1>1, <1>2 DEF Publishing, Created, PublishMeansStream
<1> QED
  BY <1>4, <1>5

LEMMA AnsweringCommand ==
  ASSUME Typed, Answering, Publishing, SendCommand \/ SendFails \/ RecvFails
  PROVE  Answering' /\ Publishing'
<1>1. /\ srv' = srv /\ stream_id' = stream_id /\ guessed' = guessed /\ toClient' = toClient
      /\ told \subseteq told' /\ told' \subseteq told \cup {"publish"}
      /\ msg' \in {msg, NoMsg}
  BY DEF SendCommand, SendFails, RecvFails, Returns, client, history
<1>2. \A x \in Items(toServer') : x.k = "c2" => x \in Items(toServer)
  <2>1. CASE toServer' = toServer
    BY <2>1
  <2>2. CASE toServer' # toServer
    <3>1. CASE SendCommand
      BY <3>1, SentCommand, SentItem
    <3>2. CASE SendFails
      <4>1. PICK x \in Requests : toServer' = Append(toServer, x) /\ x.k # "c2"
        BY <2>2, <3>2 DEF SendFails, Requests
      <4> QED
        BY <4>1, Asked
    <3> QED
      BY <2>2, <3>1, <3>2 DEF RecvFails
  <2> QED
    BY <2>1, <2>2
<1>3. Answering'
  BY <1>1, <1>2 DEF Answering, Shaken
<1>4. /\ pc' # "publish"
      /\ told' # told => pc = "publish"
  BY DEF SendCommand, SendFails, RecvFails, Returns, history, Then
<1>5. Publishing'
  BY <1>1, <1>4 DEF Publishing, Created, PublishMeansStream
<1> QED
  BY <1>3, <1>5

LEMMA AnsweringExpect ==
  ASSUME Typed, Answering, Publishing, Expect
  PROVE  Answering' /\ Publishing'
<1>1. CASE Receive
  <2>1. /\ Items(toClient') \subseteq Items(toClient) /\ Head(toClient) \in Items(toClient)
        /\ msg' # NoMsg /\ msg'.k = Head(toClient).k /\ msg'.n = Head(toClient).n
    BY <1>1, Taken DEF Receive, NoMsg
  <2> QED
    BY <1>1, <2>1
    DEF Receive, Waiting, history, Answering, Shaken, Publishing, Created, PublishMeansStream
<1>2. CASE SendAck
  <2>1. \A x \in Items(toServer') : x.k = "c2" => x \in Items(toServer)
    BY <1>2, SentAck, SentItem
  <2>2. msg \in Received
    BY <1>2 DEF SendAck, Typed
  <2>3. msg'.k = msg.k /\ msg'.n = msg.n
    BY <1>2, <2>2 DEF SendAck, Received
  <2> QED
    BY <1>2, <2>1, <2>3
    DEF SendAck, history, Answering, Shaken, Publishing, Created, PublishMeansStream
<1>3. CASE MatchApp
  <2>1. msg # NoMsg /\ msg.k \in AppAnswers
    BY <1>3 DEF MatchApp, Handling, Matches, AppAnswers
  <2> QED
    BY <1>3, <2>1
    DEF MatchApp, Returns, Answering, Shaken, Publishing, Created, PublishMeansStream
<1>4. CASE MatchStream
  <2>1. msg # NoMsg /\ msg.k = "result4"
    BY <1>4 DEF MatchStream, Handling, Matches
  <2> QED
    BY <1>4, <2>1
    DEF MatchStream, history, Answering, Shaken, Publishing, Created, PublishMeansStream
<1>5. CASE Drop \/ TakeWindow \/ TakeUserControl \/ Reject \/ UntypedDropped
  <2>1. pc' # "publish" /\ msg' \in {msg, NoMsg}
    BY <1>5
    DEF Drop, TakeWindow, TakeUserControl, Reject, UntypedDropped, Handling, client
  <2>2. UNCHANGED <<toServer, toClient, srv, told, guessed, stream_id>>
    BY <1>5
    DEF Drop, TakeWindow, TakeUserControl, Reject, UntypedDropped, client, history
  <2> QED
    BY <2>1, <2>2 DEF Answering, Shaken, Publishing, Created, PublishMeansStream
<1>6. CASE UntypedTaken
  <2>1. /\ UNCHANGED <<toServer, toClient, srv>> /\ msg' = NoMsg
        /\ told \subseteq told' /\ told' \subseteq told \cup {"connect_app"}
        /\ guessed \subseteq guessed'
        /\ stream_id' = stream_id \/ "publish" \in guessed'
        /\ "connect_app" \in told' => "connect_app" \in told \cup guessed'
        /\ pc' = "publish" => "publish" \in guessed'
    BY <1>6 DEF UntypedTaken
  <2> QED
    BY <2>1 DEF Answering, Shaken, Publishing, Created, PublishMeansStream
<1>7. CASE ReceiveLeftover
  <2>1. Items(toClient') \subseteq Items(toClient)
    BY <1>7, Taken DEF ReceiveLeftover
  <2> QED
    BY <1>7, <2>1
    DEF ReceiveLeftover, Waiting, history, Answering, Shaken, Publishing, Created,
        PublishMeansStream
<1> QED
  BY <1>1, <1>2, <1>3, <1>4, <1>5, <1>6, <1>7 DEF Expect

(* A step of the server that adds some answers, and takes back nothing it  *)
(* has granted.                                                            *)
Grants(S) ==
  /\ Items(toClient') \subseteq Items(toClient) \cup S
  /\ \A x \in S : x.k \in AppAnswers => srv'.answered
  /\ \A x \in S : x.k = "result4" => Created(x.n)'
  /\ Items(toServer') \subseteq Items(toServer)
  /\ srv'.stage \in {"shaken", "app"} => Shaken
  /\ srv'.answered => Shaken
  /\ srv'.stage = "app" => srv'.accepted
  /\ srv.answered => srv'.answered
  /\ srv.accepted => srv'.accepted
  /\ srv'.streams \in {srv.streams, srv.streams + 1}

LEMMA AnsweringGrants ==
  ASSUME Typed, Answering, Publishing, Server, NEW S, Grants(S)
  PROVE  Answering' /\ Publishing'
<1>1. /\ pc' = pc /\ msg' = msg /\ stream_id' = stream_id /\ told' = told /\ guessed' = guessed
  BY ServerStep DEF client, history
<1>2. srv.streams \in Nat
  BY DEF Typed, Servers
<1>3. \A n : Created(n) => Created(n)'
  BY <1>2 DEF Grants, Created
<1>4. Answering'
  BY <1>1 DEF Grants, Answering, Shaken
<1>5. Publishing'
  BY <1>1, <1>3 DEF Grants, Publishing, PublishMeansStream, Created
<1> QED
  BY <1>4, <1>5

LEMMA AnsweringServer ==
  ASSUME Typed, Answering, Publishing, Server
  PROVE  Answering' /\ Publishing'
<1>1. SUFFICES \E S : Grants(S)
  BY AnsweringGrants
<1>2. srv \in Servers /\ srv.streams \in Nat
  BY DEF Typed, Servers
<1> USE DEF Got, ServerDoes, Message
<1>4. toServer # << >> /\ toServer' = Tail(toServer) =>
        Items(toServer') \subseteq Items(toServer) /\ Head(toServer) \in Items(toServer)
  BY Handled
<1>5. CASE ServerHello
  <2>1. PICK x \in Answers : x.k = "s" /\ toClient' = toClient \o [i \in 1..2 |-> x]
    BY <1>5 DEF ServerHello, Answers
  <2>2. Items(toClient') \subseteq Items(toClient) \cup {x}
    <3>1. toClient \in Seq(Answers)
      BY DEF Typed
    <3>a. x \in Answers /\ [i \in 1..2 |-> x] \in Seq(Answers)
      BY <2>1
    <3>2. PICK two \in Seq(Answers) : two = [i \in 1..2 |-> x]
      BY <3>a
    <3>3. Items(two) = {x}
      BY <3>2 DEF Items
    <3>4. toClient' = toClient \o two
      BY <2>1, <3>2
    <3> QED
      BY <3>1, <3>3, <3>4, ItemsConcat
  <2>3. srv' = [srv EXCEPT !.stage = "hello"]
    BY <1>5 DEF ServerHello
  <2>4. srv'.stage = "hello" /\ srv'.answered = srv.answered /\ srv'.accepted = srv.accepted
        /\ srv'.streams = srv.streams
    BY <1>2, <2>3 DEF Servers
  <2>5. Items(toServer') \subseteq Items(toServer)
    BY <1>4, <1>5 DEF ServerHello
  <2>6. \A y \in {x} : y.k \notin AppAnswers /\ y.k # "result4"
    BY <2>1 DEF AppAnswers
  <2> QED
    <3>1. Grants({x})
      BY <2>2, <2>4, <2>5, <2>6 DEF Answering, Publishing, Grants
    <3> QED
      BY <3>1
<1>6. CASE ServerShaken \/ ServerGivesUp
  <2>1. toClient' = toClient
    BY <1>6, AnsweredNothing DEF ServerShaken, ServerGivesUp
  <2>2. srv'.answered = srv.answered /\ srv'.accepted = srv.accepted /\ srv'.streams = srv.streams
        /\ srv'.stage \in {"shaken", "broken"}
    BY <1>2, <1>6 DEF ServerShaken, ServerGivesUp, Servers
  <2>3. Items(toServer') \subseteq Items(toServer)
    BY <1>4, <1>6 DEF ServerShaken, ServerGivesUp
  <2>4. srv'.stage = "shaken" => Shaken
    <3>1. CASE ServerShaken
      BY <1>4, <3>1 DEF ServerShaken, Answering
    <3>2. CASE ServerGivesUp
      BY <1>2, <3>2 DEF ServerGivesUp, Servers
    <3> QED
      BY <1>6, <3>1, <3>2
  <2>5. Grants({})
    BY <2>1, <2>2, <2>3, <2>4 DEF Answering, Publishing, Grants
  <2> QED
    BY <2>5
<1>7. CASE ServerAccepts
  <2>1. PICK x \in Answers : x.k = "result1" /\ toClient' = toClient \o <<x>>
    BY <1>7 DEF ServerAccepts, Answers, Kinds
  <2>2. Items(toClient') = Items(toClient) \cup {x}
    BY <2>1, Answered
  <2>3. srv'.answered /\ srv'.accepted /\ srv'.streams = srv.streams
    BY <1>2, <1>7 DEF ServerAccepts, Servers
  <2>4. Shaken
    BY <1>7 DEF ServerAccepts, Answering
  <2>5. Items(toServer') \subseteq Items(toServer)
    BY <1>4, <1>7 DEF ServerAccepts
  <2> QED
    <3>1. Grants({x})
      BY <2>1, <2>2, <2>3, <2>4, <2>5 DEF Grants
    <3> QED
      BY <3>1
<1>8. CASE ServerRejects
  <2>1. PICK x \in Answers :
          x.k \in {"error1", "error4"} /\ (x.k = "error1" => srv'.answered)
            /\ toClient' = toClient \o <<x>>
    BY <1>2, <1>8 DEF ServerRejects, Answers, Kinds, Servers
  <2>2. Items(toClient') = Items(toClient) \cup {x}
    BY <2>1, Answered
  <2>3. /\ srv'.stage = srv.stage /\ srv'.accepted = srv.accepted /\ srv'.streams = srv.streams
        /\ srv.answered => srv'.answered
    BY <1>2, <1>8 DEF ServerRejects, Servers
  <2>4. Shaken
    BY <1>8 DEF ServerRejects, Answering
  <2>5. Items(toServer') \subseteq Items(toServer)
    BY <1>4, <1>8 DEF ServerRejects
  <2>6. \A y \in {x} : (y.k \in AppAnswers => srv'.answered) /\ y.k # "result4"
    BY <2>1 DEF AppAnswers
  <2> QED
    <3>1. Grants({x})
      BY <2>2, <2>3, <2>4, <2>5, <2>6 DEF Publishing, Grants
    <3> QED
      BY <3>1
<1>9. CASE ServerCreates
  <2>1. PICK n \in Nat : srv.streams = n
    BY <1>2
  <2>2. PICK x \in Answers :
          x.k = "result4" /\ x.n = n + 1 /\ toClient' = toClient \o <<x>>
    <3>1. [k |-> "result4", n |-> n + 1] \in Answers
      BY DEF Answers, Kinds
    <3> QED
      BY <1>9, <2>1, <3>1 DEF ServerCreates
  <2>3. Items(toClient') = Items(toClient) \cup {x}
    BY <2>2, Answered
  <2>4. srv' = [srv EXCEPT !.streams = n + 1]
    BY <1>9, <2>1 DEF ServerCreates
  <2>5. /\ srv'.stage = srv.stage /\ srv'.answered = srv.answered
        /\ srv'.accepted = srv.accepted /\ srv'.streams = n + 1
    BY <1>2, <2>4 DEF Servers
  <2>6. Shaken /\ srv.accepted
    BY <1>9 DEF ServerCreates, Answering, Publishing
  <2>7. Items(toServer') \subseteq Items(toServer)
    BY <1>4, <1>9 DEF ServerCreates
  <2>8. \A y \in {x} : y.k \notin AppAnswers /\ Created(y.n)'
    BY <2>2, <2>5, <2>6 DEF AppAnswers, Created
  <2> QED
    <3>1. Grants({x})
      BY <2>1, <2>3, <2>5, <2>6, <2>7, <2>8 DEF Grants
    <3> QED
      BY <3>1
<1>10. CASE ServerTakes
  <2>1. /\ srv' = srv /\ Items(toServer') \subseteq Items(toServer)
        /\ \/ toClient' = toClient \o << >>
           \/ toClient' = toClient \o <<[k |-> "command", n |-> 0]>>
    BY <1>4, <1>10 DEF ServerTakes
  <2>2. Items(toClient') \subseteq Items(toClient) \cup {[k |-> "command", n |-> 0]}
    <3>1. [k |-> "command", n |-> 0] \in Answers
      BY DEF Answers, Kinds
    <3> QED
      BY <2>1, <3>1, Answered, AnsweredNothing
  <2>3. \A y \in {[k |-> "command", n |-> 0]} : y.k \notin AppAnswers /\ y.k # "result4"
    BY DEF AppAnswers
  <2> QED
    <3>1. Grants({[k |-> "command", n |-> 0]})
      BY <2>1, <2>2, <2>3 DEF Answering, Publishing, Grants
    <3> QED
      BY <3>1
<1>11. ASSUME NEW k, NEW n, ServerChats(k, n), [k |-> k, n |-> n] \in Answers,
              k \notin AppAnswers, k # "result4"
       PROVE  \E S : Grants(S)
  <2>1. Items(toClient') = Items(toClient) \cup {[k |-> k, n |-> n]}
    BY <1>11, Answered DEF ServerChats
  <2>2. srv' = srv /\ toServer' = toServer
    BY <1>11 DEF ServerChats
  <2>3. \A y \in {[k |-> k, n |-> n]} : y.k \notin AppAnswers /\ y.k # "result4"
    BY <1>11
  <2> QED
    <3>1. Grants({[k |-> k, n |-> n]})
      BY <2>1, <2>2, <2>3 DEF Answering, Publishing, Grants
    <3> QED
      BY <3>1
<1>12. CASE \/ ServerChats("bandwidth", 0) \/ ServerChats("user_control", 0)
            \/ ServerChats("command", 0) \/ ServerChats("malformed", 0)
           \/ \E w \in Windows : ServerChats("ack_size", w)
  <2>1. \A k \in Kinds : [k |-> k, n |-> 0] \in Answers
    BY DEF Answers
  <2>2. \A w \in Windows : [k |-> "ack_size", n |-> w] \in Answers
    BY DEF Answers
  <2> QED
    BY <1>11, <1>12, <2>1, <2>2 DEF Kinds, AppAnswers
<1> QED
  BY <1>5, <1>6, <1>7, <1>8, <1>9, <1>10, <1>12 DEF Server

LEMMA AnsweringNext ==
  ASSUME Typed, Answering, Publishing, [Next]_vars
  PROVE  Answering' /\ Publishing'
<1>1. CASE UNCHANGED vars
  BY <1>1
  DEF vars, client, history, Answering, Shaken, Publishing, Created, PublishMeansStream
<1> QED
  BY <1>1, AnsweringApplication, AnsweringHandshake, AnsweringCommand, AnsweringExpect,
     AnsweringServer
  DEF Next, Inside

(* An answer that is under way or was taken is one to what was asked: of   *)
(* connect after the handshake, and with a stream that the server created. *)
THEOREM AnsweringAlways == Spec => [](Answering /\ Publishing)
  BY AnsweringInit, AnsweringNext, TypedAlways, PTL DEF Spec

(* connect_app only succeeds after the handshake and the server's answer,  *)
(* unless an uninitialized packet type happened to match.                  *)
THEOREM AppsAreAnswered == Spec => []AppMeansAnswered
<1>1. Answering => AppMeansAnswered
  BY DEF Answering, Shaken, AppMeansAnswered
<1> QED
  BY <1>1, AnsweringAlways, PTL

(* publish_stream only succeeds with a stream the server created on this   *)
(* connection, after it accepted the app, with the same exception.         *)
THEOREM StreamsAreCreated == Spec => []PublishMeansStream
<1>1. Publishing => PublishMeansStream
  BY DEF Publishing
<1> QED
  BY <1>1, AnsweringAlways, PTL

-----------------------------------------------------------------------------
(* Streams are taken in the order in which the server created them.        *)

Rising(q) ==
  \A i, j \in DOMAIN q :
    i < j /\ q[i].k = "result4" /\ q[j].k = "result4" => q[i].n < q[j].n

(* A stream that the client has not taken yet, as far as that is known.     *)
NotTaken(n) == n > stream_id \/ "publish" \in guessed

Taking ==
  /\ \A x \in Items(toClient) : x.k # "s" => Shaken
  /\ msg # NoMsg => Shaken
  /\ Rising(toClient)
  /\ \A x \in Items(toClient) :
       x.k = "result4" => NotTaken(x.n) /\ (msg.k = "result4" => x.n > msg.n)
  /\ msg.k = "result4" => NotTaken(msg.n)
  /\ NotTaken(srv.streams + 1)

LEMMA RisingTail ==
  ASSUME NEW S, NEW q \in Seq(S), q # << >>, Rising(q)
  PROVE  /\ Rising(Tail(q))
         /\ \A x \in Items(Tail(q)) :
              x.k = "result4" /\ Head(q).k = "result4" => Head(q).n < x.n
<1>1. /\ Len(q) \in Nat \ {0} /\ DOMAIN q = 1 .. Len(q) /\ DOMAIN Tail(q) = 1 .. Len(q) - 1
      /\ \A i \in 1 .. Len(q) - 1 : Tail(q)[i] = q[i + 1]
      /\ Head(q) = q[1]
  OBVIOUS
<1>2. PICK r : r = Tail(q)
  OBVIOUS
<1>3. /\ \A i \in DOMAIN r : i \in Int /\ i + 1 \in DOMAIN q /\ 1 < i + 1 /\ r[i] = q[i + 1]
      /\ 1 \in DOMAIN q
  BY <1>1, <1>2
<1>4. Rising(r)
  BY <1>3 DEF Rising
<1>5. \A x \in Items(r) : x.k = "result4" /\ q[1].k = "result4" => q[1].n < x.n
  BY <1>3 DEF Rising, Items
<1> QED
  BY <1>1, <1>2, <1>4, <1>5

LEMMA RisingConcat ==
  ASSUME NEW S, NEW q \in Seq(S), NEW t \in Seq(S), Rising(q), Rising(t),
         \A x \in Items(q), y \in Items(t) :
           x.k = "result4" /\ y.k = "result4" => x.n < y.n
  PROVE  Rising(q \o t)
<1>1. /\ DOMAIN (q \o t) = 1 .. Len(q) + Len(t)
      /\ DOMAIN q = 1 .. Len(q) /\ Len(q) \in Nat
      /\ DOMAIN t = 1 .. Len(t) /\ Len(t) \in Nat
      /\ \A i \in DOMAIN (q \o t) : (q \o t)[i] = IF i <= Len(q) THEN q[i] ELSE t[i - Len(q)]
  OBVIOUS
<1>2. PICK r : r = q \o t
  OBVIOUS
<1>3. \A i \in DOMAIN r :
        /\ i \in Int
        /\ i <= Len(q) => i \in DOMAIN q /\ r[i] = q[i]
        /\ i > Len(q) => i - Len(q) \in DOMAIN t /\ r[i] = t[i - Len(q)]
  BY <1>1, <1>2
<1>4. ASSUME NEW i \in DOMAIN r, NEW j \in DOMAIN r, i < j,
             r[i].k = "result4", r[j].k = "result4"
      PROVE  r[i].n < r[j].n
  <2>1. CASE j <= Len(q)
    BY <1>1, <1>3, <1>4, <2>1 DEF Rising
  <2>2. CASE i <= Len(q) /\ j > Len(q)
    BY <1>3, <1>4, <2>2 DEF Items
  <2>3. CASE i > Len(q)
    <3>1. i - Len(q) < j - Len(q) /\ j > Len(q)
      BY <1>1, <1>3, <1>4, <2>3
    <3> QED
      BY <1>3, <1>4, <2>3, <3>1 DEF Rising
  <2> QED
    BY <1>1, <1>3, <2>1, <2>2, <2>3
<1> QED
  BY <1>2, <1>4 DEF Rising

LEMMA TakingInit == Init => Taking
<1> SUFFICES ASSUME Init PROVE Taking
  OBVIOUS
<1>1. /\ toClient = << >> /\ msg = NoMsg /\ NoMsg.k # "result4"
      /\ stream_id = 0 /\ srv.streams = 0
  BY DEF Init, NoMsg, NewServer
<1>2. NotTaken(srv.streams + 1)
  BY <1>1 DEF NotTaken
<1> QED
  BY <1>1, <1>2, ItemsNone DEF Taking, Rising

(* Steps that leave the answers and the stream alone.                      *)
LEMMA TakingApart ==
  ASSUME Typed, Taking, toClient' = toClient, msg' \in {msg, NoMsg},
         stream_id' = stream_id \/ "publish" \in guessed', guessed \subseteq guessed',
         srv'.streams = srv.streams, told \subseteq told'
  PROVE  Taking'
<1>1. NoMsg.k # "result4"
  BY DEF NoMsg
<1>2. \A n : NotTaken(n) => NotTaken(n)'
  BY DEF NotTaken
<1>3. NotTaken(srv.streams + 1)'
  BY <1>2 DEF Taking, NotTaken
<1> QED
  BY <1>1, <1>2, <1>3 DEF Taking, Shaken

LEMMA TakingReceive ==
  ASSUME Typed, Taking, Receive
  PROVE  Taking'
<1>1. /\ toClient \in Seq(Answers) /\ toClient # << >> /\ toClient' = Tail(toClient)
      /\ Head(toClient).k # "s" /\ msg = NoMsg
      /\ msg' = [k |-> Head(toClient).k, n |-> Head(toClient).n, due |-> AckDue(ack.rbytes + 1)]
      /\ UNCHANGED <<stream_id, srv, told, guessed>>
  BY DEF Receive, Waiting, history, Typed
<1>2. Head(toClient) \in Items(toClient) /\ Items(toClient') \subseteq Items(toClient)
  BY Taken, <1>1
<1>3. /\ Rising(toClient')
      /\ \A x \in Items(toClient') :
           x.k = "result4" /\ Head(toClient).k = "result4" => Head(toClient).n < x.n
  BY <1>1, RisingTail DEF Taking
<1>4. \A x \in Items(toClient) : x \in Answers
  BY <1>1 DEF Items
<1>5. \A x \in Answers : x.k = "result4" => x.n \in Nat
  BY DEF Answers
<1>6. msg'.k = Head(toClient).k /\ msg'.n = Head(toClient).n
  BY <1>1
<1>7. \A x \in Items(toClient') : x.k = "result4" =>
        NotTaken(x.n) /\ (msg'.k = "result4" => x.n > msg'.n)
  <2>1. \A x \in Items(toClient') : x \in Answers /\ (x.k = "result4" => x.n \in Nat /\ NotTaken(x.n))
    BY <1>2, <1>4, <1>5 DEF Taking
  <2>2. Head(toClient) \in Answers /\ (Head(toClient).k = "result4" => Head(toClient).n \in Nat)
    BY <1>2, <1>4, <1>5
  <2>3. \A x \in Items(toClient') : x.k = "result4" /\ msg'.k = "result4" => x.n > msg'.n
    BY <1>3, <1>6, <2>1, <2>2
  <2> QED
    BY <2>1, <2>3
<1>8. Shaken /\ (msg'.k = "result4" => NotTaken(msg'.n))
  BY <1>1, <1>2, <1>6 DEF Taking
<1>9. \A n : NotTaken(n) => NotTaken(n)'
  BY <1>1 DEF NotTaken
<1>10. NotTaken(srv.streams + 1)' /\ Shaken'
  BY <1>1, <1>8, <1>9 DEF Taking, NotTaken, Shaken
<1>11. \A x \in Items(toClient') : x.k # "s" => Shaken'
  BY <1>10
<1>12. \A x \in Items(toClient') : x.k = "result4" =>
         NotTaken(x.n)' /\ (msg'.k = "result4" => x.n > msg'.n)
  BY <1>7, <1>9
<1>13. msg'.k = "result4" => NotTaken(msg.n)'
  BY <1>1, <1>8, <1>9 DEF NotTaken
<1> QED
  BY <1>3, <1>10, <1>11, <1>12, <1>13 DEF Taking

LEMMA TakingLeftover ==
  ASSUME Typed, Taking, toClient # << >>, toClient' = Tail(toClient),
         UNCHANGED <<msg, stream_id, srv, told, guessed>>
  PROVE  Taking'
<1>1. toClient \in Seq(Answers)
  BY DEF Typed
<1>2. Items(toClient') \subseteq Items(toClient)
  BY Taken
<1>3. Rising(toClient')
  BY <1>1, RisingTail DEF Taking
<1>4. \A n : NotTaken(n) => NotTaken(n)'
  BY DEF NotTaken
<1>5. NotTaken(srv.streams + 1)' /\ (msg'.k = "result4" => NotTaken(msg.n)')
  BY <1>4 DEF Taking, NotTaken
<1> QED
  BY <1>2, <1>3, <1>4, <1>5 DEF Taking, Shaken

LEMMA TakingExpect ==
  ASSUME Typed, Publishing, Taking, Expect
  PROVE  Taking'
<1>1. CASE SendAck
  <2>1. msg \in Received /\ msg' = [msg EXCEPT !.due = FALSE]
    BY <1>1 DEF SendAck, Typed
  <2>2. msg'.k = msg.k /\ msg'.n = msg.n
    BY <2>1 DEF Received
  <2>3. \A n : NotTaken(n) => NotTaken(n)'
    BY <1>1 DEF SendAck, history, NotTaken
  <2>4. /\ NotTaken(srv.streams + 1)' /\ (msg'.k = "result4" => NotTaken(msg.n)')
    BY <1>1, <2>2, <2>3 DEF SendAck, history, Taking, NotTaken
  <2> QED
    BY <1>1, <2>2, <2>3, <2>4 DEF SendAck, history, Taking, Shaken
<1>2. CASE MatchStream
  <2>1. msg.k = "result4" /\ msg # NoMsg /\ stream_id' = msg.n /\ msg' = NoMsg
        /\ UNCHANGED <<toClient, srv, told, guessed>>
    BY <1>2 DEF MatchStream, Handling, Matches, history
  <2>2. NoMsg.k # "result4"
    BY DEF NoMsg
  <2>3. msg.n \in Int /\ srv.streams \in Nat /\ msg.n < srv.streams + 1
    BY <2>1 DEF Publishing, Created, Typed, Servers
  <2>4. NotTaken(srv.streams + 1)'
    BY <2>1, <2>3 DEF NotTaken
  <2>5. \A x \in Items(toClient) : x.k = "result4" => x.n > stream_id'
    BY <2>1 DEF Taking
  <2>6. \A x \in Items(toClient) : x.k = "result4" => NotTaken(x.n)'
    BY <2>5 DEF NotTaken
  <2> QED
    BY <2>1, <2>2, <2>4, <2>6 DEF Taking, Shaken
<1>3. CASE \/ MatchApp \/ Drop \/ TakeWindow \/ TakeUserControl \/ Reject
           \/ UntypedDropped \/ UntypedTaken
  BY <1>3, TakingApart
  DEF MatchApp, Returns, Drop, TakeWindow, TakeUserControl, Reject, UntypedDropped,
      UntypedTaken, client, history
<1>4. CASE ReceiveLeftover
  BY <1>4, TakingLeftover DEF ReceiveLeftover, history
<1> QED
  BY <1>1, <1>2, <1>3, <1>4, TakingReceive DEF Expect

LEMMA TakingClient ==
  ASSUME Typed, Taking, Application \/ Handshake \/ SendCommand \/ SendFails \/ RecvFails
  PROVE  Taking'
<1>1. CASE Destroy
  <2>1. /\ toClient' = << >> /\ msg' = NoMsg /\ NoMsg.k # "result4"
        /\ stream_id' = 0 /\ srv'.streams = 0
    BY <1>1 DEF Destroy, NoMsg, NewServer
  <2>2. NotTaken(srv.streams + 1)'
    BY <2>1 DEF NotTaken
  <2> QED
    BY <2>1, <2>2, ItemsNone DEF Taking, Rising
<1>2. CASE ReadS0S1S2
  BY <1>2, TakingLeftover DEF ReadS0S1S2, history
<1>3. CASE \/ Create \/ Calls \/ \E t \in Settings : SetTimeout(t[1], t[2])
           \/ Resolve \/ Connect \/ WriteC0C1 \/ WriteC2
           \/ SendCommand \/ SendFails \/ RecvFails
  <2>1. /\ toClient' = toClient /\ msg' \in {msg, NoMsg} /\ stream_id' = stream_id
        /\ srv' = srv /\ told \subseteq told' /\ guessed' = guessed
    BY <1>3
    DEF Create, Calls, Call, SetTimeout, Resolve, Connect, WriteC0C1, WriteC2, SendCommand,
        Returns, SendFails, RecvFails, client, history
  <2> QED
    BY <2>1, TakingApart
<1> QED
  BY <1>1, <1>2, <1>3 DEF Application, Handshake

LEMMA TakingAnswers ==
  ASSUME Typed, Publishing, Taking, Server, NEW t \in Seq(Answers), toClient' = toClient \o t,
         Rising(t), \A y \in Items(t) : y.k # "s" => Shaken,
         \A y \in Items(t) : y.k = "result4" => y.n > srv.streams,
         srv'.streams >= srv.streams
  PROVE  Taking'
<1>1. UNCHANGED <<msg, stream_id, told, guessed>> /\ srv'.streams \in Nat
  BY ServerStep DEF client, history, Servers
<1>2. toClient \in Seq(Answers) /\ srv.streams \in Nat /\ stream_id \in Int
  BY DEF Typed, TypeOK, Servers
<1>3. Items(toClient') = Items(toClient) \cup Items(t)
  BY <1>2, ItemsConcat
<1>4. /\ \A x \in Items(toClient) \cup Items(t) : x \in Answers
      /\ \A x \in Answers : x.k = "result4" => x.n \in Nat
  BY <1>2 DEF Items, Answers
<1>5. \A x \in Items(toClient) : x.k = "result4" => x.n <= srv.streams
  BY <1>2 DEF Publishing, Created
<1>6. Rising(toClient')
  <2>1. \A x \in Items(toClient), y \in Items(t) :
          x.k = "result4" /\ y.k = "result4" => x.n < y.n
    BY <1>2, <1>4, <1>5
  <2> QED
    BY <1>2, <2>1, RisingConcat DEF Taking
<1>7. msg.k = "result4" => msg.n \in Nat /\ msg.n <= srv.streams
  <2>1. msg.k = "result4" => msg # NoMsg
    BY DEF NoMsg
  <2> QED
    BY <2>1, <1>2 DEF Publishing, Created
<1>8. \A y \in Items(t) :
        y.k = "result4" => NotTaken(y.n) /\ (msg.k = "result4" => y.n > msg.n)
  <2>1. NotTaken(srv.streams + 1)
    BY DEF Taking
  <2>2. \A y \in Items(t) : y.k = "result4" => y.n \in Nat /\ y.n > srv.streams
    BY <1>4
  <2>3. \A y \in Items(t) : y.k = "result4" => NotTaken(y.n)
    BY <1>2, <2>1, <2>2 DEF NotTaken
  <2> QED
    BY <1>2, <1>7, <2>2, <2>3
<1>9. \A n : NotTaken(n) => NotTaken(n)'
  BY <1>1 DEF NotTaken
<1>10. NotTaken(srv.streams + 1)' /\ (msg'.k = "result4" => NotTaken(msg.n)')
  BY <1>1, <1>2, <1>9 DEF Taking, NotTaken
<1>11. \A x \in Items(toClient') : x.k = "result4" =>
         NotTaken(x.n)' /\ (msg'.k = "result4" => x.n > msg'.n)
  <2>1. \A x \in Items(toClient) : x.k = "result4" =>
          NotTaken(x.n) /\ (msg.k = "result4" => x.n > msg.n)
    BY DEF Taking
  <2> QED
    BY <1>1, <1>3, <1>8, <1>9, <2>1
<1>12. \A x \in Items(toClient') : x.k # "s" => Shaken'
  BY <1>1, <1>3 DEF Taking, Shaken
<1>13. msg' # NoMsg => Shaken'
  BY <1>1 DEF Taking, Shaken
<1> QED
  BY <1>1, <1>6, <1>10, <1>11, <1>12, <1>13 DEF Taking

LEMMA TakingServer ==
  ASSUME Typed, Answering, Publishing, Taking, Server
  PROVE  Taking'
<1>1. srv \in Servers /\ srv.streams \in Nat
  BY DEF Typed, Servers
<1>2. ASSUME NEW x \in Answers, toClient' = toClient \o <<x>>,
             srv.stage \in {"shaken", "app"},
             x.k = "result4" => x.n > srv.streams, srv'.streams >= srv.streams
      PROVE  Taking'
  <2>0. <<x>> \in Seq(Answers)
    BY <1>2
  <2>1. PICK t \in Seq(Answers) : t = <<x>>
    BY <2>0
  <2>2. Items(t) = {x} /\ Rising(t)
    BY <2>1 DEF Items, Rising
  <2>3. Shaken
    BY <1>2 DEF Answering
  <2> QED
    BY <1>2, <2>1, <2>2, <2>3, TakingAnswers
<1>3. ASSUME toClient' = toClient \o << >>, srv'.streams = srv.streams
      PROVE  Taking'
  <2>1. toClient' = toClient
    BY <1>3, AnsweredNothing
  <2> QED
    BY <1>3, <2>1, ServerStep, TakingApart DEF client, history
<1> USE DEF Got, ServerDoes, Message
<1>4. CASE ServerHello
  <2>1. PICK x \in Answers : x.k = "s" /\ toClient' = toClient \o [i \in 1..2 |-> x]
    BY <1>4 DEF ServerHello, Answers
  <2>2. [i \in 1..2 |-> x] \in Seq(Answers)
    BY <2>1
  <2>3. PICK t \in Seq(Answers) : t = [i \in 1..2 |-> x]
    BY <2>2
  <2>4. Items(t) = {x} /\ Rising(t)
    BY <2>1, <2>3 DEF Items, Rising
  <2>5. srv'.streams = srv.streams
    BY <1>1, <1>4 DEF ServerHello, Servers
  <2>6. \A y \in Items(t) : y.k = "s"
    BY <2>1, <2>4
  <2>7. toClient' = toClient \o t /\ srv'.streams >= srv.streams
    BY <1>1, <2>1, <2>3, <2>5
  <2> QED
    BY <2>4, <2>6, <2>7, TakingAnswers
<1>5. CASE ServerShaken \/ ServerGivesUp
  <2>1. srv'.streams = srv.streams /\ toClient' = toClient \o << >>
    BY <1>1, <1>5 DEF ServerShaken, ServerGivesUp, Servers
  <2> QED
    BY <2>1, <1>3
<1>6. CASE ServerAccepts \/ ServerRejects
  <2>1. PICK x \in Answers : x.k # "result4" /\ toClient' = toClient \o <<x>>
    BY <1>6 DEF ServerAccepts, ServerRejects, Answers, Kinds
  <2>2. srv'.streams = srv.streams /\ srv.stage \in {"shaken", "app"}
    BY <1>1, <1>6 DEF ServerAccepts, ServerRejects, Servers
  <2> QED
    BY <1>1, <1>2, <2>1, <2>2
<1>7. CASE ServerCreates
  <2>1. PICK n \in Nat : srv.streams = n
    BY <1>1
  <2>2. PICK x \in Answers : x.n = n + 1 /\ toClient' = toClient \o <<x>>
    <3>1. [k |-> "result4", n |-> n + 1] \in Answers
      BY DEF Answers, Kinds
    <3> QED
      BY <1>7, <2>1, <3>1 DEF ServerCreates
  <2>3. srv' = [srv EXCEPT !.streams = n + 1] /\ srv.stage = "app"
    BY <1>7, <2>1 DEF ServerCreates
  <2>4. srv'.streams = n + 1
    BY <1>1, <2>3 DEF Servers
  <2> QED
    BY <1>2, <2>1, <2>2, <2>3, <2>4
<1>8. CASE ServerTakes
  <2>1. /\ srv' = srv /\ srv.stage \in {"shaken", "app"}
        /\ \/ toClient' = toClient \o << >>
           \/ toClient' = toClient \o <<[k |-> "command", n |-> 0]>>
    BY <1>8 DEF ServerTakes
  <2>2. [k |-> "command", n |-> 0] \in Answers
    BY DEF Answers, Kinds
  <2> QED
    BY <1>1, <1>2, <1>3, <2>1, <2>2
<1>9. ASSUME NEW k, NEW n, ServerChats(k, n), [k |-> k, n |-> n] \in Answers, k # "result4"
      PROVE  Taking'
  BY <1>1, <1>2, <1>9 DEF ServerChats
<1>10. CASE \/ ServerChats("bandwidth", 0) \/ ServerChats("user_control", 0)
            \/ ServerChats("command", 0) \/ ServerChats("malformed", 0)
           \/ \E w \in Windows : ServerChats("ack_size", w)
  <2>1. \A k \in Kinds : [k |-> k, n |-> 0] \in Answers
    BY DEF Answers
  <2>2. \A w \in Windows : [k |-> "ack_size", n |-> w] \in Answers
    BY DEF Answers
  <2> QED
    BY <1>9, <1>10, <2>1, <2>2 DEF Kinds
<1> QED
  BY <1>4, <1>5, <1>6, <1>7, <1>8, <1>10 DEF Server

LEMMA TakingNext ==
  ASSUME Typed, Answering, Publishing, Taking, [Next]_vars
  PROVE  Taking'
<1>1. CASE UNCHANGED vars
  BY <1>1, TakingApart DEF vars, client, history
<1> QED
  BY <1>1, TakingClient, TakingExpect, TakingServer DEF Next, Inside

-----------------------------------------------------------------------------
(* Each step of the session is one of Negotiation, or none.                *)
Negotiating == [Granted!Next]_(Granted!vars)

Refused == srv.refused /\ ~cut

LEMMA NothingNegotiated ==
  ASSUME UNCHANGED <<told, guessed, stream_id, srv.answered, srv.accepted, srv.streams>>,
         Refused' = Refused
  PROVE  Negotiating
  BY DEF Negotiating, Granted!vars, Refused

LEMMA NegotiatingApplication ==
  ASSUME Typed, Application
  PROVE  Negotiating
<1>1. CASE Destroy
  <2>1. Granted!Reconnect
    BY <1>1 DEF Destroy, NewServer, Granted!Reconnect, Granted!Init
  <2> QED
    BY <2>1 DEF Negotiating, Granted!Next
<1>2. CASE ~Destroy
  <2>1. UNCHANGED <<told, guessed, stream_id, srv, cut>>
    BY <1>2 DEF Application, Create, Calls, Call, SetTimeout, client, history
  <2> QED
    BY <2>1, NothingNegotiated DEF Refused
<1> QED
  BY <1>1, <1>2

LEMMA NegotiatingHandshake ==
  ASSUME Typed, Shaking, Handshake
  PROVE  Negotiating
<1>1. UNCHANGED <<guessed, stream_id, srv>>
  BY DEF Handshake, Resolve, Connect, WriteC0C1, ReadS0S1S2, WriteC2, client, history
<1>2. CASE Resolve \/ Connect \/ ReadS0S1S2
  BY <1>1, <1>2, NothingNegotiated DEF Resolve, Connect, ReadS0S1S2, history, Refused
<1>3. CASE WriteC0C1
  <2>1. ~srv.refused /\ told' = told
    BY <1>3 DEF WriteC0C1, Typed, Fresh, NewServer
  <2> QED
    BY <1>1, <2>1, NothingNegotiated DEF Refused
<1>4. CASE WriteC2
  <2>1. ~Refused /\ ~Refused'
    BY <1>1, <1>4 DEF WriteC2, Write, Shaking, Refused
  <2>2. CASE hs.plain
    <3>1. told' = told \cup {"handshake"}
      BY <1>4, <2>2 DEF WriteC2
    <3>2. Granted!Shake
      BY <1>1, <2>1, <3>1 DEF Granted!Shake, Granted!Succeed, Refused
    <3> QED
      BY <3>2 DEF Negotiating, Granted!Next
  <2>3. CASE ~hs.plain
    <3>1. told' = told
      BY <1>4, <2>3 DEF WriteC2
    <3> QED
      BY <1>1, <2>1, <3>1, NothingNegotiated DEF Refused
  <2> QED
    BY <2>2, <2>3
<1> QED
  BY <1>2, <1>3, <1>4 DEF Handshake

LEMMA NegotiatingCommand ==
  ASSUME Typed, Publishing, SendCommand \/ SendFails \/ RecvFails
  PROVE  Negotiating
<1>1. UNCHANGED <<guessed, stream_id, srv, cut>>
  BY DEF SendCommand, Returns, SendFails, RecvFails, client, history
<1>2. CASE told' = told
  BY <1>1, <1>2, NothingNegotiated DEF Refused
<1>3. CASE told' # told
  <2>1. pc = "publish" /\ told' = told \cup {"publish"}
    BY <1>3 DEF SendCommand, Returns, SendFails, RecvFails, history
  <2>2. stream_id > 0 \/ "publish" \in guessed
    BY <2>1 DEF Publishing, Created, Typed, TypeOK
  <2>3. Granted!Publish
    BY <1>1, <2>1, <2>2 DEF Granted!Publish, Granted!Succeed
  <2> QED
    BY <2>3 DEF Negotiating, Granted!Next
<1> QED
  BY <1>2, <1>3

LEMMA NegotiatingExpect ==
  ASSUME Typed, Answering, Publishing, Taking, Expect
  PROVE  Negotiating
<1>1. srv' = srv /\ cut' = cut
  BY DEF Expect, Receive, ReceiveLeftover, SendAck, MatchApp, Returns, MatchStream, Drop, TakeWindow,
     TakeUserControl, Reject, UntypedDropped, UntypedTaken, client, history
<1>2. CASE MatchApp
  <2>1. /\ msg # NoMsg /\ msg.k \in AppAnswers
        /\ told' = told \cup {"connect_app"} /\ UNCHANGED <<guessed, stream_id>>
    BY <1>2 DEF MatchApp, Returns, Handling, Matches, AppAnswers
  <2>2. Granted!ConnectApp
    BY <1>1, <2>1 DEF Answering, Granted!ConnectApp, Granted!Succeed
  <2> QED
    BY <2>2 DEF Negotiating, Granted!Next
<1>3. CASE MatchStream
  <2>1. msg # NoMsg /\ msg.k = "result4" /\ stream_id' = msg.n /\ UNCHANGED <<told, guessed>>
    BY <1>3 DEF MatchStream, Handling, Matches, history
  <2>2. msg.n \in 1 .. srv.streams /\ NotTaken(msg.n)
    BY <2>1 DEF Publishing, Created, Taking
  <2>3. stream_id' \in 1 .. srv.streams /\ (stream_id' > stream_id \/ "publish" \in guessed)
    BY <2>1, <2>2 DEF NotTaken
  <2>4. Granted!TakeStream
    BY <1>1, <2>1, <2>3 DEF Granted!TakeStream
  <2> QED
    BY <2>4 DEF Negotiating, Granted!Next
<1>4. CASE UntypedTaken
  <2>1. Shaken
    BY <1>4 DEF UntypedTaken, Handling, Taking
  <2>2. \/ /\ stream_id' = stream_id /\ guessed' = guessed \cup {"connect_app"}
           /\ told' = told \cup {"connect_app"}
        \/ /\ guessed' = guessed \cup {"publish"} /\ told' = told
    BY <1>4 DEF UntypedTaken
  <2>3. \E call \in {"connect_app", "publish"} : Granted!Guess(call)
    BY <1>1, <2>1, <2>2 DEF Shaken, Granted!Guess
  <2> QED
    BY <2>3 DEF Negotiating, Granted!Next
<1>5. CASE \/ Receive \/ ReceiveLeftover \/ SendAck \/ Drop \/ TakeWindow \/ TakeUserControl \/ Reject
           \/ UntypedDropped
  <2>1. UNCHANGED <<told, guessed, stream_id>>
    BY <1>5
    DEF Receive, ReceiveLeftover, SendAck, Drop, TakeWindow, TakeUserControl, Reject, UntypedDropped,
        client, history
  <2> QED
    BY <1>1, <2>1, NothingNegotiated DEF Refused
<1> QED
  BY <1>2, <1>3, <1>4, <1>5 DEF Expect

LEMMA NegotiatingServer ==
  ASSUME Typed, Shaking', Answering', Publishing, Server
  PROVE  Negotiating
<1>1. UNCHANGED <<told, guessed, stream_id, cut>>
  BY ServerStep DEF client, history
<1>2. srv \in Servers /\ srv.streams \in Nat
  BY DEF Typed, Servers
<1> USE DEF ServerDoes, Got
<1>3. CASE ServerHello \/ ServerShaken
  <2>1. /\ srv'.refused = srv.refused /\ srv'.answered = srv.answered
        /\ srv'.accepted = srv.accepted /\ srv'.streams = srv.streams
    BY <1>2, <1>3 DEF ServerHello, ServerShaken, Servers
  <2> QED
    BY <1>1, <2>1, NothingNegotiated DEF Refused
<1>4. CASE ServerTakes \/ srv' = srv
  <2>1. srv' = srv
    BY <1>4 DEF ServerTakes
  <2> QED
    BY <1>1, <2>1, NothingNegotiated DEF Refused
<1>5. CASE ServerAccepts \/ ServerRejects
  <2>1. /\ srv'.refused = srv.refused /\ srv'.streams = srv.streams
        /\ \/ srv'.answered = TRUE /\ srv'.accepted \in {srv.accepted, TRUE}
           \/ srv' = srv
    BY <1>2, <1>5 DEF ServerAccepts, ServerRejects, Servers
  <2>2. CASE srv' # srv
    <3>1. Granted!Answer
      BY <1>1, <2>1, <2>2 DEF Answering, Shaken, Refused, Granted!Answer
    <3> QED
      BY <3>1 DEF Negotiating, Granted!Next
  <2> QED
    BY <1>4, <2>2
<1>6. CASE ServerCreates
  <2>1. PICK n \in Nat : srv.streams = n
    BY <1>2
  <2>2. srv' = [srv EXCEPT !.streams = n + 1] /\ srv.accepted
    BY <1>6, <2>1 DEF ServerCreates, Publishing
  <2>3. /\ srv'.streams = srv.streams + 1 /\ srv'.refused = srv.refused
        /\ srv'.answered = srv.answered /\ srv'.accepted = srv.accepted
    BY <1>2, <2>1, <2>2 DEF Servers
  <2>4. Granted!CreateStream
    BY <1>1, <2>2, <2>3 DEF Granted!CreateStream
  <2> QED
    BY <2>4 DEF Negotiating, Granted!Next
<1>7. CASE ServerGivesUp
  <2>1. /\ srv'.answered = srv.answered /\ srv'.accepted = srv.accepted
        /\ srv'.streams = srv.streams /\ srv'.refused \in {srv.refused, TRUE}
    BY <1>2, <1>7 DEF ServerGivesUp, Servers
  <2>2. CASE Refused' = Refused
    BY <1>1, <2>1, <2>2, NothingNegotiated
  <2>3. CASE Refused' # Refused
    <3>1. srv'.refused = TRUE /\ ~cut /\ cut' = cut
      BY <1>1, <1>2, <2>1, <2>3 DEF Refused
    <3>2. "handshake" \notin told
      BY <1>1, <3>1 DEF Shaking
    <3>3. Granted!Refuse
      BY <1>1, <2>1, <3>1, <3>2 DEF Granted!Refuse
    <3> QED
      BY <3>3 DEF Negotiating, Granted!Next
  <2> QED
    BY <2>2, <2>3
<1>8. CASE \/ ServerChats("bandwidth", 0) \/ ServerChats("user_control", 0)
           \/ ServerChats("command", 0) \/ ServerChats("malformed", 0)
           \/ \E w \in Windows : ServerChats("ack_size", w)
  BY <1>4, <1>8 DEF ServerChats
<1> QED
  BY <1>3, <1>4, <1>5, <1>6, <1>7, <1>8 DEF Server

(* What success means, call by call and in order: the session implements   *)
(* Negotiation, for any calls, answers and messages nobody asked for.      *)
THEOREM SuccessIsGranted == Spec => ImplementsNegotiation
<1> DEFINE Inv == Typed /\ Shaking /\ Answering /\ Publishing /\ Taking
<1>1. Init => Inv /\ Granted!Init
  <2>1. Init => Shaking
    BY DEF Init, Shaking
  <2>2. Init => Granted!Init
    BY DEF Init, NewServer, Granted!Init
  <2> QED
    BY <2>1, <2>2, TypedInit, AnsweringInit, TakingInit
<1>2. Inv /\ [Next]_vars => Inv' /\ [Granted!Next]_(Granted!vars)
  <2> SUFFICES ASSUME Inv, [Next]_vars PROVE Inv' /\ Negotiating
    BY DEF Negotiating
  <2>1. Inv'
    BY TypedNext, ShakingNext, AnsweringNext, TakingNext
  <2>2. CASE UNCHANGED vars
    <3>1. UNCHANGED <<told, guessed, stream_id, srv, cut>>
      BY <2>2 DEF vars, client, history
    <3>2. Refused' = Refused
      BY <3>1 DEF Refused
    <3>3. Negotiating
      BY <3>1, <3>2, NothingNegotiated
    <3> QED
      BY <2>1, <3>3
  <2>3. CASE Next
    BY <2>1, <2>3, NegotiatingApplication, NegotiatingHandshake, NegotiatingCommand,
       NegotiatingExpect, NegotiatingServer
    DEF Next, Inside
  <2> QED
    BY <2>1, <2>2, <2>3
<1> HIDE DEF Inv
<1> QED
  BY <1>1, <1>2, PTL DEF Spec, ImplementsNegotiation, Granted!Spec

(* The types of a session's state.                                         *)
THEOREM TypeCorrect == Spec => []TypeOK
<1>1. Typed => TypeOK
  BY DEF Typed
<1> QED
  BY <1>1, TypedAlways, PTL
=============================================================================
