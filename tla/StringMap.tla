------------------------------ MODULE StringMap ------------------------------
(***************************************************************************)
(* What a user of kvs.h expects: a map from keys to values, where put and  *)
(* remove return what was there.  When the heap has once run out, the map  *)
(* may be lost.                                                            *)
(***************************************************************************)
CONSTANTS
  Keys,
  Values,
  Nothing  \* NULL: no value

VARIABLES
  there,  \* the map has been created
  map,
  ret,    \* what the last operation returned
  short,  \* an allocation has failed
  lost    \* the map was written or read outside of its memory

vars == <<there, map, ret, short, lost>>

Empty == [k \in Keys |-> Nothing]

Init == there = FALSE /\ map = Empty /\ ret = Nothing /\ short = FALSE /\ lost = FALSE

Create ==
  /\ ~there
  /\ there' \in BOOLEAN
  /\ short' = IF there' THEN short ELSE TRUE
  /\ map' = Empty /\ ret' = Nothing
  /\ UNCHANGED lost

Put(k, v) ==
  /\ there
  /\ ret' = map[k]
  /\ map' = [map EXCEPT ![k] = v]
  /\ short' \in {short, TRUE}
  /\ UNCHANGED <<there, lost>>

Get(k) == there /\ ret' = map[k] /\ UNCHANGED <<there, map, short, lost>>

Remove(k) ==
  /\ there
  /\ ret' = map[k]
  /\ map' = [map EXCEPT ![k] = Nothing]
  /\ UNCHANGED <<there, short, lost>>

(* Any operation on a map that is not there.                               *)
Miss == ~there /\ ret' = Nothing /\ UNCHANGED <<there, map, short, lost>>

Destroy == there /\ there' = FALSE /\ map' = Empty /\ ret' = Nothing /\ UNCHANGED <<short, lost>>

Lose == short /\ there /\ lost' = TRUE /\ UNCHANGED <<there, map, ret, short>>

Next ==
  \/ Create \/ Destroy \/ Miss \/ Lose
  \/ \E k \in Keys : Get(k) \/ Remove(k) \/ \E v \in Values : Put(k, v)

Spec == Init /\ [][Next]_vars
=============================================================================
