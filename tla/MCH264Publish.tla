---------------------------- MODULE MCH264Publish ----------------------------
(* H264Publish with two connections, which covers a reconnect (the second   *)
(* used after the first) and two publishing tasks.                          *)
EXTENDS H264Publish, TLC

ContextsAlike == Permutations(Contexts)
=============================================================================
