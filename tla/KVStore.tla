------------------------------- MODULE KVStore -------------------------------
(***************************************************************************)
(* The key-value store of kvs.c: an array of pointers to entries that is   *)
(* searched from the front, with an entry at each place below size except  *)
(* where one was removed.  A removed entry's place is not used again.      *)
(*                                                                         *)
(* pairs has the places that were allocated, which a failed realloc makes  *)
(* fewer than capacity says.  One user at a time: the store has no lock.   *)
(***************************************************************************)
EXTENDS Integers

CONSTANTS
  Keys,
  Values,       \* values are pointers, which the store does not look into
  Nothing,      \* NULL, as a value and as an entry
  DefaultExpandRate

Entries == [key : Keys, value : Values]

ASSUME StoreAssumption ==
  Nothing \notin Values \cup Entries /\ DefaultExpandRate \in Nat \ {0}

VARIABLES
  there,        \* there is a store
  pairs, size, capacity, expand_rate,
  ret,          \* what the last call returned
  short,        \* an allocation has failed
  wild          \* the array was used outside of its memory

store == <<there, pairs, size, capacity, expand_rate>>
kvsVars == <<store, ret, short, wild>>

NoPlaces == [i \in {} |-> Nothing]
NoStore == there = FALSE /\ pairs = NoPlaces /\ size = 0 /\ capacity = 0 /\ expand_rate = 1

KVInit == NoStore /\ ret = Nothing /\ short = FALSE /\ wild = FALSE

-----------------------------------------------------------------------------
Create(initial_capacity, rate) ==
  /\ ~there /\ initial_capacity > 0
  /\ there' = TRUE
  /\ pairs' = [i \in 0 .. initial_capacity - 1 |-> Nothing]
  /\ size' = 0 /\ capacity' = initial_capacity
  /\ expand_rate' = IF rate = 0 THEN DefaultExpandRate ELSE rate
  /\ ret' = Nothing
  /\ UNCHANGED <<short, wild>>

CreateFails == ~there /\ ret' = Nothing /\ short' = TRUE /\ UNCHANGED <<store, wild>>

(* Calls on a store that could not be created.                             *)
OnNull == ~there /\ ret' = Nothing /\ UNCHANGED <<store, short, wild>>

(* Seeded fault: the last entry is not looked at.                          *)
PlacesButLast(k) ==
  {i \in 0 .. size - 2 : pairs[i] # Nothing /\ pairs[i].key = k}

(* The places kvs_indexOf may stop at.                                     *)
PlacesOf(k) == {i \in 0 .. size - 1 : pairs[i] # Nothing /\ pairs[i].key = k}

(* The first of them.                                                      *)
IndexOf(k) == CHOOSE i \in PlacesOf(k) : \A j \in PlacesOf(k) : i <= j

Has(k) == there /\ PlacesOf(k) # {}

PutOver(k, v) ==
  /\ Has(k)
  /\ ret' = pairs[IndexOf(k)].value
  /\ pairs' = [pairs EXCEPT ![IndexOf(k)] = [key |-> k, value |-> v]]
  /\ UNCHANGED <<there, size, capacity, expand_rate, short, wild>>

(* Seeded fault: the array grows when it is overfull.                      *)
FullLate(n) == n > capacity

Full(n) == n >= capacity

(* An entry at the end, and a larger array when that was the last place.   *)
PutNew(k, v) ==
  /\ there /\ ~Has(k) /\ size \in DOMAIN pairs
  /\ ~Full(size + 1)
  /\ pairs' = [pairs EXCEPT ![size] = [key |-> k, value |-> v]]
  /\ size' = size + 1
  /\ ret' = Nothing
  /\ UNCHANGED <<there, capacity, expand_rate, short, wild>>

(* Seeded fault: the store does not take note of its new capacity.         *)
ExpandForgetting(k, v) ==
  /\ there /\ ~Has(k) /\ size \in DOMAIN pairs
  /\ Full(size + 1)
  /\ pairs' = [i \in 0 .. capacity + expand_rate - 1 |->
                 IF i = size THEN [key |-> k, value |-> v]
                 ELSE IF i < capacity THEN pairs[i] ELSE Nothing]
  /\ size' = size + 1
  /\ ret' = Nothing
  /\ UNCHANGED <<there, capacity, expand_rate, short, wild>>

PutNewExpand(k, v) ==
  /\ there /\ ~Has(k) /\ size \in DOMAIN pairs
  /\ Full(size + 1)
  /\ pairs' = [i \in 0 .. capacity + expand_rate - 1 |->
                 IF i = size THEN [key |-> k, value |-> v]
                 ELSE IF i < capacity THEN pairs[i] ELSE Nothing]
  /\ size' = size + 1 /\ capacity' = capacity + expand_rate
  /\ ret' = Nothing
  /\ UNCHANGED <<there, expand_rate, short, wild>>

(* realloc fails after capacity was set, and kvs_put does not look.        *)
PutNewExpandFails(k, v) ==
  /\ there /\ ~Has(k) /\ size \in DOMAIN pairs
  /\ Full(size + 1)
  /\ pairs' = [pairs EXCEPT ![size] = [key |-> k, value |-> v]]
  /\ size' = size + 1 /\ capacity' = capacity + expand_rate
  /\ ret' = Nothing /\ short' = TRUE
  /\ UNCHANGED <<there, expand_rate, wild>>

PutOutside(k) ==
  /\ there /\ ~Has(k) /\ size \notin DOMAIN pairs
  /\ wild' = TRUE
  /\ UNCHANGED <<store, ret, short>>

Put(k, v) ==
  \/ PutOver(k, v)
  \/ PutNew(k, v) \/ PutNewExpand(k, v) \/ PutNewExpandFails(k, v) \/ PutOutside(k)

Found(k) == IF Has(k) THEN pairs[IndexOf(k)].value ELSE Nothing

Get(k) == there /\ ret' = Found(k) /\ UNCHANGED <<store, short, wild>>

(* Seeded fault: the place of a removed entry is given back at the end.    *)
RemoveShrinking(k) ==
  /\ there
  /\ ret' = Found(k)
  /\ pairs' = IF Has(k) THEN [pairs EXCEPT ![IndexOf(k)] = Nothing] ELSE pairs
  /\ size' = IF Has(k) THEN size - 1 ELSE size
  /\ UNCHANGED <<there, capacity, expand_rate, short, wild>>

RemoveKey(k) ==
  /\ there
  /\ ret' = Found(k)
  /\ pairs' = IF Has(k) THEN [pairs EXCEPT ![IndexOf(k)] = Nothing] ELSE pairs
  /\ UNCHANGED <<there, size, capacity, expand_rate, short, wild>>

(* kvs_clear goes over all places that capacity says there are.            *)
ClearDestroy ==
  /\ there /\ 0 .. capacity - 1 = DOMAIN pairs
  /\ there' = FALSE /\ pairs' = NoPlaces /\ size' = 0 /\ capacity' = 0 /\ expand_rate' = 1
  /\ ret' = Nothing
  /\ UNCHANGED <<short, wild>>

ClearOutside ==
  /\ there /\ 0 .. capacity - 1 # DOMAIN pairs
  /\ wild' = TRUE
  /\ UNCHANGED <<store, ret, short>>

KVNext ==
  \/ \E c, e \in Nat : Create(c, e)
  \/ CreateFails \/ OnNull \/ ClearDestroy \/ ClearOutside
  \/ \E k \in Keys : Get(k) \/ RemoveKey(k) \/ \E v \in Values : Put(k, v)

KVSpec == KVInit /\ [][KVNext]_kvsVars

-----------------------------------------------------------------------------
StoreOK ==
  /\ there \in BOOLEAN /\ short \in BOOLEAN /\ wild \in BOOLEAN
  /\ \E n \in 0 .. capacity : DOMAIN pairs = 0 .. n - 1
  /\ \A i \in DOMAIN pairs : pairs[i] \in Entries \cup {Nothing}
  /\ size \in Nat /\ capacity \in Nat /\ expand_rate \in Nat \ {0}
  /\ ret \in Values \cup {Nothing}

(* The array is used outside of its memory only after an allocation failed *)
(* whose failure kvs_put did not report.                                   *)
OutsideOnlyWhenShort == wild => short

(* Whatever is put, removed and put again, and however the array grows,    *)
(* the store is a map (StringMap).                                         *)
Contents == [k \in Keys |-> Found(k)]
Map == INSTANCE StringMap WITH map <- Contents, lost <- wild
ImplementsMap == Map!Spec
=============================================================================
