---------------------------- MODULE MCAacPublish ----------------------------
(* AacPublish with buffers of up to two frames: whole ones, with and without *)
(* a checksum, with a length above 11 bits; cut off at each place the demux  *)
(* tests; with a length that is too small, that ends within the next header  *)
(* or that takes the next frame in; and with what no header can be made of.  *)
EXTENDS AacPublish, TLC

H(crc, flen) == [crc |-> crc, profile |-> 1, sfi |-> 3, channels |-> 2, flen |-> flen]

Buffer(nb, at) == [nb |-> nb, at |-> at]
One(h) == Buffer(h.flen, 0 :> h)
Two(g, h) == Buffer(g.flen + h.flen, 0 :> g @@ g.flen :> h)

Plain == H(FALSE, 9)
Checked == H(TRUE, 11)
Reserved == [Plain EXCEPT !.profile = 3]
Mono == [H(FALSE, 7) EXCEPT !.profile = 0, !.sfi = 15, !.channels = 7]

MCBuffers ==
  {Buffer(0, << >>), Buffer(5, << >>), One(Reserved), One(Mono), One(H(FALSE, 2050)),
   Two(Plain, Checked), Two(Checked, Mono), Two(Plain, Reserved)}
    \cup {[Two(Checked, Plain) EXCEPT !.nb = n] : n \in {13, 19}}
    \cup {Buffer(8, 0 :> Checked)}
    \cup {[Two(Plain, Plain) EXCEPT !.at[0].flen = n] : n \in {6, 8, 18}}

MCSounds ==
  {[format |-> 10, rate |-> 0, size |-> 1, type |-> 1],
   [format |-> 10, rate |-> 3, size |-> 1, type |-> 0],
   [format |-> 2, rate |-> 2, size |-> 0, type |-> 0]}
=============================================================================
