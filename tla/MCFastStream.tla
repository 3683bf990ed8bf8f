---- MODULE MCFastStream ----
(* FastStream with a block of 3 to 4 bytes and requests up to 5, so that    *)
(* resets, moves, overflows, reallocs and the assertion all happen.         *)
EXTENDS FastStream
====
