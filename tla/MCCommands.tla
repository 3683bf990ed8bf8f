------------------------------ MODULE MCCommands -----------------------------
(* Commands with URLs of every shape srs_parse_rtmp_url tells apart, at and  *)
(* over the ends of the arrays they are copied into, with every cut of the   *)
(* responses a server may give, and with a store of one or two places that   *)
(* grows by one or two, used by a driver.                                    *)
EXTENDS Commands

(* The texts and the slashes between them.                                   *)
MCLength(text) ==
  LET upTo[i \in 0 .. Len(text)] == IF i = 0 THEN Len(text) - 1 ELSE upTo[i - 1] + Len(text[i])
  IN upTo[Len(text)]

MCUrl(host, port, path, slist) ==
  [scheme |-> TRUE, host |-> host, port |-> port, path |-> path, slist |-> slist]

x16 == "xxxxxxxxxxxxxxxx"
x64 == x16 \o x16 \o x16 \o x16
x255 == x64 \o x64 \o x64 \o x16 \o x16 \o x16 \o "xxxxxxxxxxxxxxx"
LongHost == x255 \o "x"

(* "rtmp://cdn:1935/" is 16 characters: an app of 111 is the longest that    *)
(* fits, one of 112 overruns the tcUrl, and one of 256 the parser's array.   *)
x111 == x64 \o x16 \o x16 \o "xxxxxxxxxxxxxxx"

LongUrls ==
  {MCUrl("cdn", 1935, <<app, "cam">>, "") : app \in {x111, x111 \o "x", x255 \o "x"}}
    \cup {MCUrl("cdn", 1935, <<"live", stream>>, "") : stream \in {x255, x255 \o "x"}}
    \cup {MCUrl(x255, 1935, <<"live", "cam">>, "")}

MCUrls ==
  {MCUrl("cdn", port, <<"live", "cam">>, "") : port \in {Absent, 1935, 70000}}
    \cup {MCUrl("cdn", 1935, path, "") :
            path \in { << >>, <<"">>, <<"live">>, <<"live", "">>, <<"live", "in", "cam">>,
                       <<"live", "in", "x", "cam">>, <<"live", "in", "x", "y", "cam">>,
                       <<"ondemand", "in", "cam">>, <<"live", "", "cam">> }}
    \cup {MCUrl("cdn", 1935, <<"live", "in">>, "?slist=cam"),
          MCUrl(LongHost, 1935, <<"live", "cam">>, ""),
          MCUrl("", Absent, << >>, ""),
          [MCUrl("cdn", Absent, <<"live", "cam">>, "") EXCEPT !.scheme = FALSE]}
    \cup LongUrls

MCResponses ==
  {<<[string |-> name], [number |-> id], third, [number |-> 7]>> :
     name \in {"_result", "_error", ""}, id \in {1, 2, 4}, third \in {[null |-> 0], [object |-> 0]}}
    \cup {<<[string |-> "_result"], [number |-> 4], [null |-> 0], [number |-> 7], [string |-> ""]>>,
          <<[string |-> "_result"], [number |-> 4], [null |-> 0], [null |-> 0]>>,
          <<[number |-> 1]>>, <<[string |-> "_result"], [string |-> "_result"]>>,
          <<[string |-> "onStatus"], [number |-> 0]>>}

MCCuts == UNION {{SubSeq(r, 1, n) : n \in 0..Len(r)} : r \in MCResponses}

MCReplies ==
  {[amf3 |-> FALSE, fields |-> r] : r \in MCCuts}
    \cup {[amf3 |-> TRUE, fields |-> <<[byte |-> 0]>> \o r] : r \in MCCuts}

MCKeys == {ObjectPairs[i].key : i \in DOMAIN ObjectPairs}
MCValues == {Field[k] : k \in MCKeys}
MCGarbage == {9}

(* Besides the client, who puts eleven keys into twenty places, a driver     *)
(* makes every call of kvs.h, while there is no context.                     *)
CONSTANT MaxPlaces  \* bound: places of the driver's store that are used

DriverKeys == {"app", "fpad"}
DriverValues == {"app_value", "fpad_value"}

Driver ==
  /\ pc = "idle" /\ url = Null /\ ~wild
  /\ \/ \E c \in {1, 2}, e \in {0, 1} : Create(c, e)
     \/ CreateFails \/ ClearDestroy \/ ClearOutside
     \/ \E k \in DriverKeys :
          \/ Get(k) \/ RemoveKey(k)
          \/ \E v \in DriverValues : size < MaxPlaces /\ Put(k, v)
  /\ UNCHANGED <<session, pc, making, reply, sent>>

MCNext == Next \/ Driver
MCSpec == Init /\ [][MCNext]_vars
=============================================================================
