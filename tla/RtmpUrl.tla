------------------------------- MODULE RtmpUrl -------------------------------
(***************************************************************************)
(* srs_parse_rtmp_url (snx_rtmp.c): what of a URL becomes the host, port,  *)
(* app and stream of a context.                                            *)
(*                                                                         *)
(* A URL is given in parts:                                                *)
(*   scheme  whether there is a "://"                                      *)
(*   host    the text up to the first ':' or '/'                           *)
(*   port    the number behind ':', or Absent                              *)
(*   path    the texts between the slashes behind the host, << >> when     *)
(*           there is no slash                                             *)
(*   slist   a query behind the path with "slist=" in it, or ""            *)
(* Any other query is part of the last text of the path.                   *)
(*                                                                         *)
(* What is cut out of it is a text too, given by what is between its       *)
(* slashes, or Null.                                                       *)
(***************************************************************************)
EXTENDS Integers, Sequences

CONSTANTS
  Null,      \* no string
  Absent,    \* no port
  Length(_)  \* how many characters a text has

MaxHost == 255
MaxPort == 65535
PathBuffer == 256

Blank == [host |-> Null, port |-> 0, app |-> Null, stream |-> Null]

Host(url) == IF Len(url.host) <= MaxHost THEN url.host ELSE Null

(* Seeded fault: a port that is too large is cut off to 16 bits.           *)
PortCut(url) == IF url.port = Absent THEN 0 ELSE url.port % (MaxPort + 1)

(* There is no default port.                                               *)
Port(url) == IF url.port = Absent \/ url.port > MaxPort THEN 0 ELSE url.port

(* Seeded fault: the stream is taken for an instance of the app.           *)
AppDepthAll(path) == Len(path)

(* How many texts of the path are the app, which ends at the fourth slash, *)
(* or else the third, or else the second, or else with the URL.            *)
AppDepth(path) ==
  IF path[1] = "ondemand" \/ Len(path) <= 2 THEN 1
  ELSE IF Len(path) = 3 THEN 2 ELSE 3

(* With slist the app has the query, and the stream's name is the query.   *)
App(url) ==
  IF url.slist # "" THEN [url.path EXCEPT ![Len(url.path)] = @ \o url.slist]
  ELSE SubSeq(url.path, 1, AppDepth(url.path))

(* What is left behind the app; a name of no characters is not set.        *)
Stream(url) ==
  LET rest == IF url.slist # "" THEN <<url.slist>>
              ELSE SubSeq(url.path, AppDepth(url.path) + 1, Len(url.path))
  IN IF rest \in {<< >>, <<"">>} THEN Null ELSE rest

NoHost(url) == ~url.scheme \/ (url.host = "" /\ url.port = Absent /\ url.path = << >>)

(* App and stream are copied into arrays of PathBuffer bytes, with no test *)
(* of their lengths.                                                       *)
Overruns(url) ==
  /\ ~NoHost(url) /\ url.path # << >>
  /\ \/ Length(App(url)) >= PathBuffer
     \/ Stream(url) # Null /\ Length(Stream(url)) >= PathBuffer

Parsed(url) ==
  IF NoHost(url) THEN Blank
  ELSE IF url.path = << >> THEN [Blank EXCEPT !.host = Host(url), !.port = Port(url)]
  ELSE [host |-> Host(url), port |-> Port(url), app |-> App(url), stream |-> Stream(url)]
=============================================================================
