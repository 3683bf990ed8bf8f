----------------------------- MODULE MCSendPath -----------------------------
(***************************************************************************)
(* SendPath with an audio task, a video task and one that reads the        *)
(* server's messages and answers them, as the mutex around recv provides   *)
(* for.  Messages of one and of two chunks; the video task also sends its  *)
(* sequence header the way audio goes.                                     *)
(***************************************************************************)
EXTENDS SendPath

CONSTANTS audio, video, reader

MCTasks == {audio, video, reader}
MCMayCall ==
  [t \in MCTasks |-> CASE t = audio -> {"messages"}
                       [] t = video -> {"messages", "video"}
                       [] t = reader -> {"packet", "recv"}]
MCCids == {6, 7}
MCCid == [t \in MCTasks |-> IF t = audio THEN 7 ELSE 6]

MCLengths == [messages |-> {3}, video |-> {0, 3}, packet |-> {1}]
EmptyLengths == [messages |-> {0, 1}, video |-> {1}, packet |-> {1}]
=============================================================================
