----------------------------- MODULE MCSession ------------------------------
(* Session with a limit of 1 or none, windows of which one is none, and a  *)
(* stream that no server creates.                                          *)
EXTENDS Session

MCTimeouts == {0, 1}
MCNoTimeout == -1
MCSettings == {<<-1, 0>>, <<1, -1>>}
MCWindows == {0, 2}
MCGarbage == {9}
=============================================================================
