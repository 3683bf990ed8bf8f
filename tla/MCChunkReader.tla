---------------------------- MODULE MCChunkReader ----------------------------
(* ChunkReader with a control stream and two media streams, messages of no  *)
(* byte, of one and of two chunks, timestamps that are and are not extended *)
(* and wrap around, payload that spells one of them, and a chunk size that  *)
(* grows, shrinks and is too small.                                         *)
(* MaxAhead lets the server go on while a SetChunkSize is still unread.     *)
EXTENDS ChunkReader
=============================================================================
