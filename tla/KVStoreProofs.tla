--------------------------- MODULE KVStoreProofs ---------------------------
(***************************************************************************)
(* Proofs about KVStore, for any keys and values, any capacity and any     *)
(* rate of growth: the array is only left after an allocation failed       *)
(* unnoticed, and the store implements StringMap.                          *)
(***************************************************************************)
EXTENDS KVStore, TLAPS

-----------------------------------------------------------------------------
(* The search, for an array q of which n places are looked at.             *)
PlacesIn(q, n, k) == {i \in 0 .. n - 1 : q[i] # Nothing /\ q[i].key = k}
First(q, n, k) == CHOOSE i \in PlacesIn(q, n, k) : \A j \in PlacesIn(q, n, k) : i <= j
Value(q, n, k) == IF PlacesIn(q, n, k) # {} THEN q[First(q, n, k)].value ELSE Nothing

Unique(q, n) ==
  \A i, j \in 0 .. n - 1 :
    q[i] # Nothing /\ q[j] # Nothing /\ q[i].key = q[j].key => i = j

LEMMA FirstIsOnly ==
  ASSUME NEW q, NEW n \in Nat, NEW k, Unique(q, n), NEW i \in PlacesIn(q, n, k)
  PROVE  /\ PlacesIn(q, n, k) = {i} /\ First(q, n, k) = i
         /\ Value(q, n, k) = q[i].value
<1>1. \A j \in PlacesIn(q, n, k) : j = i
  BY DEF Unique, PlacesIn
<1>2. PlacesIn(q, n, k) = {i}
  BY <1>1
<1>3. i \in Int /\ i <= i
  BY DEF PlacesIn
<1>4. First(q, n, k) = i
  BY <1>2, <1>3 DEF First
<1> QED
  BY <1>2, <1>4 DEF Value

(* What becomes of the other keys when one place changes.                  *)
LEMMA OthersStay ==
  ASSUME NEW q, NEW n \in Nat, NEW r, NEW m \in Nat, NEW k,
         Unique(q, n), PlacesIn(r, m, k) = PlacesIn(q, n, k),
         \A i \in PlacesIn(q, n, k) : r[i] = q[i]
  PROVE  Value(r, m, k) = Value(q, n, k)
<1>1. CASE PlacesIn(q, n, k) = {}
  BY <1>1 DEF Value
<1>2. CASE PlacesIn(q, n, k) # {}
  <2>1. PICK i : i \in PlacesIn(q, n, k)
    BY <1>2
  <2>2. First(q, n, k) = i
    BY <2>1, FirstIsOnly
  <2>3. First(r, m, k) = First(q, n, k)
    BY DEF First
  <2> QED
    BY <1>2, <2>1, <2>2, <2>3 DEF Value
<1> QED
  BY <1>1, <1>2

-----------------------------------------------------------------------------
(* The array has capacity places, with one to spare, or it is full and     *)
(* could not be made larger.                                               *)
Room ==
  \E n \in Nat :
    /\ DOMAIN pairs = 0 .. n - 1
    /\ size <= n /\ n <= capacity
    /\ size < n => n = capacity
    /\ there /\ size = n => short

KVInv ==
  /\ there \in BOOLEAN /\ short \in BOOLEAN /\ wild \in BOOLEAN
  /\ size \in Nat /\ capacity \in Nat /\ expand_rate \in Nat \ {0}
  /\ ~there => pairs = NoPlaces /\ size = 0
  /\ Room
  /\ \A i \in DOMAIN pairs : i < size => pairs[i] \in Entries \cup {Nothing}
  /\ \A i \in DOMAIN pairs : i >= size => pairs[i] = Nothing
  /\ Unique(pairs, size)
  /\ wild => short

LEMMA Searches ==
  /\ \A k : PlacesOf(k) = PlacesIn(pairs, size, k) /\ IndexOf(k) = First(pairs, size, k)
  /\ \A k : Has(k) <=> there /\ PlacesIn(pairs, size, k) # {}
  /\ \A k : Found(k) = IF there THEN Value(pairs, size, k) ELSE Nothing
<1>1. \A k : PlacesOf(k) = PlacesIn(pairs, size, k)
  BY DEF PlacesOf, PlacesIn
<1>2. \A k : IndexOf(k) = First(pairs, size, k)
  BY <1>1 DEF IndexOf, First
<1>3. \A k : Has(k) <=> there /\ PlacesIn(pairs, size, k) # {}
  BY <1>1 DEF Has
<1>4. \A k : Found(k) = IF there THEN Value(pairs, size, k) ELSE Nothing
  BY <1>2, <1>3 DEF Found, Value
<1> QED
  BY <1>1, <1>2, <1>3, <1>4

LEMMA SearchesNext ==
  \A k : Found(k)' = IF there' THEN Value(pairs', size', k) ELSE Nothing
<1>1. \A k : PlacesOf(k)' = PlacesIn(pairs', size', k)
  BY DEF PlacesOf, PlacesIn
<1>2. \A k : IndexOf(k)' = First(pairs', size', k)
  BY <1>1 DEF IndexOf, First
<1>3. \A k : Has(k)' <=> there' /\ PlacesIn(pairs', size', k) # {}
  BY <1>1 DEF Has
<1> QED
  BY <1>2, <1>3 DEF Found, Value

LEMMA EntryIs ==
  ASSUME NEW k \in Keys, NEW v \in Values, NEW e, e = [key |-> k, value |-> v]
  PROVE  e \in Entries /\ e # Nothing /\ e.key = k /\ e.value = v
  BY StoreAssumption DEF Entries

-----------------------------------------------------------------------------
(* A new value for a key whose place is known, a value that is put at the  *)
(* end, and one that is taken away: the array and the map it stands for.   *)

PutAt(q, n, r, m, k, v) ==
  /\ m >= n
  /\ \E i \in 0 .. m - 1 :
       /\ r[i] # Nothing /\ r[i].key = k /\ r[i].value = v
       /\ i \in PlacesIn(q, n, k) \/ (PlacesIn(q, n, k) = {} /\ i = n /\ m = n + 1)
       /\ m = n \/ (i = n /\ m = n + 1)
       /\ \A j \in 0 .. m - 1 : j # i => r[j] = q[j]

LEMMA PutIsMapped ==
  ASSUME NEW q, NEW n \in Nat, NEW r, NEW m \in Nat, NEW k \in Keys, NEW v,
         Unique(q, n), PutAt(q, n, r, m, k, v)
  PROVE  /\ Unique(r, m) /\ Value(r, m, k) = v
         /\ \A l : l # k => Value(r, m, l) = Value(q, n, l)
<1>1. PICK i \in 0 .. m - 1 :
       /\ r[i] # Nothing /\ r[i].key = k /\ r[i].value = v
       /\ i \in PlacesIn(q, n, k) \/ (PlacesIn(q, n, k) = {} /\ i = n /\ m = n + 1)
       /\ m = n \/ (i = n /\ m = n + 1)
       /\ \A j \in 0 .. m - 1 : j # i => r[j] = q[j]
  BY DEF PutAt
<1>2. \A j \in 0 .. m - 1 : j # i => j \in 0 .. n - 1
  BY <1>1
<1>3. \A j \in 0 .. m - 1 : j # i /\ q[j] # Nothing => q[j].key # k
  BY <1>1, <1>2 DEF PlacesIn, Unique
<1>4. Unique(r, m)
  BY <1>1, <1>2, <1>3 DEF Unique
<1>5. i \in PlacesIn(r, m, k)
  BY <1>1 DEF PlacesIn
<1>6. Value(r, m, k) = v
  BY <1>1, <1>4, <1>5, FirstIsOnly
<1>7. ASSUME NEW l, l # k PROVE Value(r, m, l) = Value(q, n, l)
  <2>1. 0 .. n - 1 \subseteq 0 .. m - 1
    BY <1>1
  <2>2. i \in 0 .. n - 1 => q[i] # Nothing /\ q[i].key = k
    BY <1>1 DEF PlacesIn
  <2>3. \A j \in PlacesIn(r, m, l) : j # i
    BY <1>1, <1>7 DEF PlacesIn
  <2>4. \A j \in PlacesIn(q, n, l) : j # i
    BY <1>7, <2>2 DEF PlacesIn
  <2>5. PlacesIn(r, m, l) \subseteq PlacesIn(q, n, l)
    BY <1>1, <1>2, <2>3 DEF PlacesIn
  <2>6. PlacesIn(q, n, l) \subseteq PlacesIn(r, m, l)
    BY <1>1, <2>1, <2>4 DEF PlacesIn
  <2>7. \A j \in PlacesIn(q, n, l) : r[j] = q[j]
    BY <1>1, <2>1, <2>4 DEF PlacesIn
  <2> QED
    BY <2>5, <2>6, <2>7, OthersStay
<1> QED
  BY <1>4, <1>6, <1>7

LEMMA RemoveIsMapped ==
  ASSUME NEW q, NEW n \in Nat, NEW r, NEW k, Unique(q, n),
         NEW i \in PlacesIn(q, n, k), r[i] = Nothing,
         \A j \in 0 .. n - 1 : j # i => r[j] = q[j]
  PROVE  /\ Unique(r, n) /\ Value(r, n, k) = Nothing
         /\ \A l : l # k => Value(r, n, l) = Value(q, n, l)
<1>1. i \in 0 .. n - 1 /\ q[i] # Nothing /\ q[i].key = k
  BY DEF PlacesIn
<1>2. Unique(r, n)
  BY <1>1 DEF Unique
<1>3. PlacesIn(r, n, k) = {}
  BY <1>1 DEF PlacesIn, Unique
<1>4. Value(r, n, k) = Nothing
  BY <1>3 DEF Value
<1>5. ASSUME NEW l, l # k PROVE Value(r, n, l) = Value(q, n, l)
  <2>1. PlacesIn(r, n, l) = PlacesIn(q, n, l) /\ i \notin PlacesIn(q, n, l)
    BY <1>1, <1>5 DEF PlacesIn
  <2>2. \A j \in PlacesIn(q, n, l) : r[j] = q[j]
    BY <2>1 DEF PlacesIn
  <2> QED
    BY <2>1, <2>2, OthersStay
<1> QED
  BY <1>2, <1>4, <1>5

-----------------------------------------------------------------------------
(* Each operation keeps the invariant and is one of the map's.             *)
Step == KVInv' /\ [Map!Next]_(Map!vars)

LEMMA KVBegins == KVInit => KVInv /\ Map!Init
<1> SUFFICES ASSUME KVInit PROVE KVInv /\ Map!Init
  OBVIOUS
<1>1. /\ there = FALSE /\ pairs = NoPlaces /\ size = 0 /\ capacity = 0 /\ expand_rate = 1
      /\ ret = Nothing /\ short = FALSE /\ wild = FALSE
  BY DEF KVInit, NoStore
<1>2. DOMAIN NoPlaces = {} /\ 0 .. -1 = {}
  BY DEF NoPlaces
<1>3. Room
  BY <1>1, <1>2 DEF Room
<1>4. KVInv
  <2>1. Unique(pairs, size)
    BY <1>1 DEF Unique
  <2>2. DOMAIN pairs = {}
    BY <1>1, <1>2
  <2>3. size \in Nat /\ capacity \in Nat /\ expand_rate \in Nat \ {0}
    BY <1>1
  <2> QED
    BY <1>1, <1>3, <2>1, <2>2, <2>3 DEF KVInv
<1>5. Contents = Map!Empty
  BY <1>1, Searches DEF Contents, Map!Empty
<1> QED
  BY <1>1, <1>4, <1>5 DEF Map!Init

LEMMA CreateStep ==
  ASSUME KVInv, NEW c \in Nat, NEW e \in Nat, Create(c, e)
  PROVE  Step
<1>1. /\ ~there /\ c > 0 /\ there' = TRUE
      /\ pairs' = [i \in 0 .. c - 1 |-> Nothing]
      /\ size' = 0 /\ capacity' = c
      /\ expand_rate' = IF e = 0 THEN DefaultExpandRate ELSE e
      /\ ret' = Nothing /\ short' = short /\ wild' = wild
  BY DEF Create
<1>2. Room'
  BY <1>1 DEF Room
<1>3. expand_rate' \in Nat \ {0}
  BY <1>1, StoreAssumption
<1>4. KVInv'
  BY <1>1, <1>2, <1>3 DEF KVInv, Unique
<1>5. \A k : PlacesIn(pairs', size', k) = {}
  BY <1>1 DEF PlacesIn
<1>6. Contents' = Map!Empty
  BY <1>1, <1>5, SearchesNext DEF Contents, Map!Empty, Value
<1>7. Map!Create
  BY <1>1, <1>6 DEF Map!Create
<1> QED
  BY <1>4, <1>7 DEF Step, Map!Next

LEMMA NoStoreStep ==
  ASSUME KVInv, CreateFails \/ OnNull
  PROVE  Step
<1>1. /\ ~there /\ ret' = Nothing /\ UNCHANGED <<there, pairs, size, capacity, expand_rate, wild>>
      /\ short' \in {short, TRUE}
  BY DEF CreateFails, OnNull, store
<1>2. KVInv'
  <2>1. Room'
    BY <1>1 DEF KVInv, Room
  <2>2. short' \in BOOLEAN /\ (wild' => short')
    <3>1. short \in BOOLEAN /\ (wild => short)
      BY DEF KVInv
    <3> QED
      BY <1>1, <3>1
  <2> QED
    BY <1>1, <2>1, <2>2 DEF KVInv
<1>3. Contents = Map!Empty /\ Contents' = Map!Empty
  BY <1>1, Searches, SearchesNext DEF Contents, Map!Empty
<1>4. CASE CreateFails
  <2>1. there' = FALSE /\ short' = TRUE
    BY <1>1, <1>4 DEF CreateFails, KVInv
  <2>2. Map!Create
    BY <1>1, <1>3, <2>1 DEF Map!Create
  <2> QED
    BY <1>2, <2>2 DEF Step, Map!Next
<1>5. CASE OnNull
  <2>1. Map!Miss
    BY <1>1, <1>3, <1>5 DEF OnNull, Map!Miss
  <2> QED
    BY <1>2, <2>1 DEF Step, Map!Next
<1> QED
  BY <1>4, <1>5

LEMMA ContentsAfterPut ==
  ASSUME KVInv, there, there', NEW k \in Keys, NEW v \in Values,
         size' \in Nat, PutAt(pairs, size, pairs', size', k, v)
  PROVE  Unique(pairs', size') /\ Contents' = [Contents EXCEPT ![k] = v]
<1>1. /\ Unique(pairs', size') /\ Value(pairs', size', k) = v
      /\ \A l : l # k => Value(pairs', size', l) = Value(pairs, size, l)
  BY PutIsMapped DEF KVInv
<1>2. \A l : Found(l)' = IF l = k THEN v ELSE Found(l)
  BY <1>1, Searches, SearchesNext
<1> QED
  BY <1>1, <1>2 DEF Contents

LEMMA PutOverStep ==
  ASSUME KVInv, NEW k \in Keys, NEW v \in Values, PutOver(k, v)
  PROVE  Step
<1>1. there /\ PlacesIn(pairs, size, k) # {}
  BY Searches DEF PutOver
<1>2. PICK i : i \in PlacesIn(pairs, size, k)
  BY <1>1
<1>3. /\ First(pairs, size, k) = i /\ Value(pairs, size, k) = pairs[i].value
      /\ PlacesIn(pairs, size, k) = {i}
  BY <1>2, FirstIsOnly DEF KVInv
<1>4. PICK e : e = [key |-> k, value |-> v]
  OBVIOUS
<1>5. e \in Entries /\ e # Nothing /\ e.key = k /\ e.value = v
  BY <1>4, EntryIs
<1>6. /\ ret' = pairs[i].value /\ pairs' = [pairs EXCEPT ![i] = e]
      /\ UNCHANGED <<there, size, capacity, expand_rate, short, wild>>
  BY <1>3, <1>4, Searches DEF PutOver
<1>7. i \in 0 .. size - 1 /\ i \in DOMAIN pairs
  BY <1>2 DEF PlacesIn, KVInv, Room
<1>8. PutAt(pairs, size, pairs', size', k, v)
  <2>1. size' = size /\ size \in Nat
    BY <1>6 DEF KVInv
  <2>2. pairs'[i] = e /\ \A j \in 0 .. size' - 1 : j # i => pairs'[j] = pairs[j]
    BY <1>6, <1>7, <2>1 DEF KVInv, Room
  <2>3. size' >= size /\ i \in 0 .. size' - 1
    BY <1>7, <2>1
  <2>4. pairs'[i] # Nothing /\ pairs'[i].key = k /\ pairs'[i].value = v
    BY <1>5, <2>2
  <2>5. PICK r, m : r = pairs' /\ m = size'
    OBVIOUS
  <2>6. PutAt(pairs, size, r, m, k, v)
    BY <1>2, <2>1, <2>2, <2>3, <2>4, <2>5 DEF PutAt
  <2> QED
    BY <2>5, <2>6
<1>9. Unique(pairs', size') /\ Contents' = [Contents EXCEPT ![k] = v]
  BY <1>1, <1>6, <1>8, ContentsAfterPut DEF KVInv
<1>10. Room' /\ DOMAIN pairs' = DOMAIN pairs
  BY <1>6 DEF KVInv, Room
<1>11. \A j \in DOMAIN pairs : pairs'[j] = IF j = i THEN e ELSE pairs[j]
  BY <1>6
<1>12. KVInv'
  BY <1>5, <1>6, <1>7, <1>9, <1>10, <1>11 DEF KVInv
<1>13. ret' = Contents[k]
  BY <1>1, <1>3, <1>6, Searches DEF Contents
<1>14. Map!Put(k, v)
  BY <1>1, <1>6, <1>9, <1>13 DEF Map!Put
<1> QED
  BY <1>12, <1>14 DEF Step, Map!Next

(* An entry at the end, and an array that has its places or more.          *)
Adds(k, v, cap) ==
  /\ there /\ there' = there /\ ~Has(k) /\ size \in DOMAIN pairs
  /\ \/ DOMAIN pairs' = DOMAIN pairs
     \/ DOMAIN pairs' = 0 .. cap - 1 /\ cap > size + 1
  /\ \A j \in DOMAIN pairs' :
       pairs'[j] = IF j = size THEN [key |-> k, value |-> v]
                   ELSE IF j \in DOMAIN pairs THEN pairs[j] ELSE Nothing
  /\ size' = size + 1 /\ capacity' = cap /\ cap >= capacity /\ expand_rate' = expand_rate
  /\ ret' = Nothing /\ short' \in {short, TRUE} /\ wild' = wild
  /\ DOMAIN pairs' = DOMAIN pairs =>
       \/ cap = capacity /\ size + 1 < capacity
       \/ size + 1 >= capacity /\ short'

LEMMA PutNewStep ==
  ASSUME KVInv, NEW k \in Keys, NEW v \in Values, NEW cap \in Nat, Adds(k, v, cap)
  PROVE  Step
<1> USE DEF Adds
<1>1. PICK n \in Nat :
        /\ DOMAIN pairs = 0 .. n - 1 /\ size < n /\ n = capacity
  BY DEF KVInv, Room
<1>2. PICK e : e = [key |-> k, value |-> v]
  OBVIOUS
<1>3. e \in Entries /\ e # Nothing /\ e.key = k /\ e.value = v
  BY <1>2, EntryIs
<1>4. size \in Nat /\ size' \in Nat /\ PlacesIn(pairs, size, k) = {}
  BY Searches DEF KVInv
<1>5. 0 .. size \subseteq DOMAIN pairs' /\ 0 .. size \subseteq DOMAIN pairs
  BY <1>1, <1>4
<1>6. pairs'[size] = e /\ \A j \in 0 .. size - 1 : pairs'[j] = pairs[j]
  BY <1>2, <1>4, <1>5
<1>7. \A j \in 0 .. size' - 1 : j # size => j \in 0 .. size - 1
  BY <1>4
<1>8. PutAt(pairs, size, pairs', size', k, v)
  BY <1>3, <1>4, <1>6, <1>7 DEF PutAt
<1>9. Unique(pairs', size') /\ Contents' = [Contents EXCEPT ![k] = v]
  BY <1>4, <1>8, ContentsAfterPut
<1>10. Room'
  <2>1. CASE DOMAIN pairs' = DOMAIN pairs
    <3>1. size' = n => short'
      BY <1>1, <1>4, <2>1
    <3>2. size' < n => n = capacity'
      BY <1>1, <1>4, <2>1
    <3>3. size' <= n /\ n <= capacity'
      BY <1>1, <1>4
    <3> QED
      BY <1>1, <2>1, <3>1, <3>2, <3>3 DEF Room
  <2>2. CASE DOMAIN pairs' = 0 .. cap - 1 /\ cap > size + 1
    BY <2>2 DEF Room
  <2> QED
    BY <2>1, <2>2
<1>11. \A j \in DOMAIN pairs' : j < size' => pairs'[j] \in Entries \cup {Nothing}
  <2> SUFFICES ASSUME NEW j \in DOMAIN pairs', j < size'
               PROVE  pairs'[j] \in Entries \cup {Nothing}
    OBVIOUS
  <2>1. CASE j = size
    BY <1>3, <1>6, <2>1
  <2>2. CASE j # size
    <3>1. j \in 0 .. size - 1
      <4>1. j \in Nat
        BY <1>1
      <4> QED
        BY <1>4, <2>2, <4>1
    <3>2. pairs'[j] = pairs[j] /\ j \in DOMAIN pairs /\ j < size
      BY <1>1, <1>4, <1>6, <3>1
    <3> QED
      BY <3>2 DEF KVInv
  <2> QED
    BY <2>1, <2>2
<1>12. \A j \in DOMAIN pairs' : j >= size' => pairs'[j] = Nothing
  <2> SUFFICES ASSUME NEW j \in DOMAIN pairs', j >= size'
               PROVE  pairs'[j] = Nothing
    OBVIOUS
  <2>1. j \in Nat
    BY <1>1
  <2>2. j # size /\ j >= size
    <3>1. size' = size + 1
      OBVIOUS
    <3> QED
      BY <1>4, <2>1, <3>1
  <2>3. pairs'[j] = IF j \in DOMAIN pairs THEN pairs[j] ELSE Nothing
    BY <2>2
  <2>4. j \in DOMAIN pairs => pairs[j] = Nothing
    BY <2>2 DEF KVInv
  <2> QED
    BY <2>3, <2>4
<1>13. KVInv'
  <2>1. short' \in BOOLEAN /\ wild' \in BOOLEAN /\ (wild' => short')
    <3>1. short \in BOOLEAN /\ wild \in BOOLEAN /\ (wild => short)
      BY DEF KVInv
    <3>2. wild' = wild
      OBVIOUS
    <3>3. short' = short \/ short' = TRUE
      OBVIOUS
    <3>4. CASE short' = short
      BY ONLY <3>1, <3>2, <3>4, Zenon
    <3>5. CASE short' = TRUE
      BY ONLY <3>1, <3>2, <3>5, Zenon
    <3> QED
      BY ONLY <3>3, <3>4, <3>5, Zenon
  <2>2. there' = TRUE /\ capacity' \in Nat /\ expand_rate' \in Nat \ {0}
    BY DEF KVInv
  <2> QED
    BY <1>4, <1>9, <1>10, <1>11, <1>12, <2>1, <2>2 DEF KVInv
<1>14. ret' = Contents[k]
  BY <1>4, Searches DEF Contents, Value
<1>15. Map!Put(k, v)
  BY <1>9, <1>14 DEF Map!Put
<1> QED
  BY <1>13, <1>15 DEF Step, Map!Next

LEMMA PutStep ==
  ASSUME KVInv, NEW k \in Keys, NEW v \in Values, Put(k, v)
  PROVE  Step
<1>1. capacity \in Nat /\ size \in Nat /\ expand_rate \in Nat \ {0} /\ short \in BOOLEAN
  BY DEF KVInv
<1>2. size \in DOMAIN pairs => DOMAIN pairs = 0 .. capacity - 1 /\ size < capacity
  BY DEF KVInv, Room
<1>3. CASE PutOver(k, v)
  BY <1>3, PutOverStep
<1>4. CASE PutNew(k, v)
  <2>1. size + 1 < capacity
    BY <1>1, <1>4 DEF PutNew, Full
  <2>2. DOMAIN pairs' = DOMAIN pairs
    BY <1>4 DEF PutNew
  <2>3. \A j \in DOMAIN pairs' :
           pairs'[j] = IF j = size THEN [key |-> k, value |-> v]
                       ELSE IF j \in DOMAIN pairs THEN pairs[j] ELSE Nothing
    BY <1>4, <2>2 DEF PutNew
  <2> QED
    <3>1. Adds(k, v, capacity)
      <4>1. /\ there /\ there' = there /\ ~Has(k) /\ size \in DOMAIN pairs
            /\ size' = size + 1 /\ capacity' = capacity /\ expand_rate' = expand_rate
            /\ ret' = Nothing /\ short' = short /\ wild' = wild
        BY <1>4 DEF PutNew
      <4> QED
        BY <1>1, <2>1, <2>2, <2>3, <4>1 DEF Adds
    <3> QED
      BY <1>1, <3>1, PutNewStep
<1>5. CASE PutNewExpand(k, v)
  <2>1. PICK cap \in Nat : cap = capacity + expand_rate /\ cap > capacity
    BY <1>1
  <2>2. DOMAIN pairs' = 0 .. cap - 1 /\ cap > size + 1
    BY <1>1, <1>2, <1>5, <2>1 DEF PutNewExpand
  <2>3. \A j \in DOMAIN pairs' : j < capacity <=> j \in DOMAIN pairs
    BY <1>1, <1>2, <1>5, <2>2 DEF PutNewExpand
  <2>4. \A j \in DOMAIN pairs' :
           pairs'[j] = IF j = size THEN [key |-> k, value |-> v]
                       ELSE IF j \in DOMAIN pairs THEN pairs[j] ELSE Nothing
    BY <1>5, <2>3 DEF PutNewExpand
  <2>5. DOMAIN pairs' # DOMAIN pairs
    BY <1>1, <1>2, <1>5, <2>1, <2>2 DEF PutNewExpand
  <2> QED
    <3>1. Adds(k, v, cap)
      BY <1>1, <1>5, <2>1, <2>2, <2>4, <2>5 DEF PutNewExpand, Adds
    <3> QED
      BY <3>1, PutNewStep
<1>6. CASE PutNewExpandFails(k, v)
  <2>1. PICK cap \in Nat : cap = capacity + expand_rate /\ cap >= capacity
    BY <1>1
  <2>2. size + 1 >= capacity /\ short' = TRUE
    BY <1>1, <1>6 DEF PutNewExpandFails, Full
  <2>3. DOMAIN pairs' = DOMAIN pairs
    BY <1>6 DEF PutNewExpandFails
  <2>4. \A j \in DOMAIN pairs' :
           pairs'[j] = IF j = size THEN [key |-> k, value |-> v]
                       ELSE IF j \in DOMAIN pairs THEN pairs[j] ELSE Nothing
    BY <1>6, <2>3 DEF PutNewExpandFails
  <2> QED
    <3>1. Adds(k, v, cap)
      BY <1>1, <1>6, <2>1, <2>2, <2>3, <2>4 DEF PutNewExpandFails, Adds
    <3> QED
      BY <3>1, PutNewStep
<1>7. CASE PutOutside(k)
  <2>1. there /\ short
    BY <1>1, <1>7 DEF PutOutside, KVInv, Room
  <2>2. wild' = TRUE /\ UNCHANGED <<there, pairs, size, capacity, expand_rate, ret, short>>
    BY <1>7 DEF PutOutside, store
  <2>3. KVInv'
    BY <2>1, <2>2 DEF KVInv, Room
  <2>4. Contents' = Contents
    BY <2>2, Searches, SearchesNext DEF Contents
  <2>5. Map!Lose
    BY <2>1, <2>2, <2>4 DEF Map!Lose
  <2> QED
    BY <2>3, <2>5 DEF Step, Map!Next
<1> QED
  BY <1>3, <1>4, <1>5, <1>6, <1>7 DEF Put

LEMMA GetStep ==
  ASSUME KVInv, NEW k \in Keys, Get(k)
  PROVE  Step
<1>1. there /\ ret' = Found(k)
      /\ UNCHANGED <<there, pairs, size, capacity, expand_rate, short, wild>>
  BY DEF Get, store
<1>2. KVInv'
  BY <1>1 DEF KVInv, Room
<1>3. Contents' = Contents
  BY <1>1, Searches, SearchesNext DEF Contents
<1>4. Map!Get(k)
  BY <1>1, <1>3 DEF Map!Get, Contents
<1> QED
  BY <1>2, <1>4 DEF Step, Map!Next

LEMMA RemoveStep ==
  ASSUME KVInv, NEW k \in Keys, RemoveKey(k)
  PROVE  Step
<1>1. there /\ ret' = Found(k)
      /\ UNCHANGED <<there, size, capacity, expand_rate, short, wild>>
  BY DEF RemoveKey
<1>2. ret' = Contents[k]
  BY <1>1 DEF Contents
<1>3. CASE PlacesIn(pairs, size, k) = {}
  <2>1. pairs' = pairs
    BY <1>3, Searches DEF RemoveKey
  <2>2. KVInv'
    BY <1>1, <2>1 DEF KVInv, Room
  <2>3. Contents' = Contents /\ Contents[k] = Nothing
    BY <1>1, <1>3, <2>1, Searches, SearchesNext DEF Contents, Value
  <2>4. Contents' = [Contents EXCEPT ![k] = Nothing]
    BY <2>3 DEF Contents
  <2>5. Map!Remove(k)
    BY <1>1, <1>2, <2>4 DEF Map!Remove
  <2> QED
    BY <2>2, <2>5 DEF Step, Map!Next
<1>4. CASE PlacesIn(pairs, size, k) # {}
  <2>1. PICK i : i \in PlacesIn(pairs, size, k)
    BY <1>4
  <2>2. First(pairs, size, k) = i
    BY <2>1, FirstIsOnly DEF KVInv
  <2>3. pairs' = [pairs EXCEPT ![i] = Nothing]
    BY <1>1, <1>4, <2>2, Searches DEF RemoveKey
  <2>4. i \in DOMAIN pairs /\ i \in 0 .. size - 1
    BY <2>1 DEF PlacesIn, KVInv, Room
  <2>5. /\ DOMAIN pairs' = DOMAIN pairs /\ pairs'[i] = Nothing
        /\ \A j \in DOMAIN pairs : j # i => pairs'[j] = pairs[j]
    BY <2>3, <2>4
  <2>6. \A j \in 0 .. size - 1 : j # i => pairs'[j] = pairs[j]
    BY <2>5 DEF KVInv, Room
  <2>7. /\ Unique(pairs', size) /\ Value(pairs', size, k) = Nothing
        /\ \A l : l # k => Value(pairs', size, l) = Value(pairs, size, l)
    <3>1. Unique(pairs, size) /\ size \in Nat
      BY DEF KVInv
    <3> QED
      BY <2>1, <2>5, <2>6, <3>1, RemoveIsMapped
  <2>8. Room'
    BY <1>1, <2>5 DEF KVInv, Room
  <2>9. /\ \A j \in DOMAIN pairs' : j < size => pairs'[j] \in Entries \cup {Nothing}
        /\ \A j \in DOMAIN pairs' : j >= size => pairs'[j] = Nothing
    BY <2>5 DEF KVInv
  <2>10. KVInv'
    BY <1>1, <2>7, <2>8, <2>9 DEF KVInv
  <2>11. \A l : Found(l)' = IF l = k THEN Nothing ELSE Found(l)
    BY <1>1, <2>7, Searches, SearchesNext
  <2>12. Contents' = [Contents EXCEPT ![k] = Nothing]
    BY <2>11 DEF Contents
  <2>13. Map!Remove(k)
    BY <1>1, <1>2, <2>12 DEF Map!Remove
  <2> QED
    BY <2>10, <2>13 DEF Step, Map!Next
<1> QED
  BY <1>3, <1>4

LEMMA ClearStep ==
  ASSUME KVInv, ClearDestroy \/ ClearOutside
  PROVE  Step
<1>1. CASE ClearDestroy
  <2>1. /\ there /\ there' = FALSE /\ pairs' = NoPlaces /\ size' = 0 /\ capacity' = 0
        /\ expand_rate' = 1 /\ ret' = Nothing /\ short' = short /\ wild' = wild
    BY <1>1 DEF ClearDestroy
  <2>2. DOMAIN pairs' = {} /\ 0 .. -1 = {}
    BY <2>1 DEF NoPlaces
  <2>3. Room' /\ Unique(pairs', size')
    BY <2>1, <2>2 DEF Room, Unique
  <2>4. size' \in Nat /\ capacity' \in Nat /\ expand_rate' \in Nat \ {0}
    BY <2>1
  <2>5. KVInv'
    BY <2>1, <2>2, <2>3, <2>4 DEF KVInv
  <2>6. Contents' = Map!Empty
    BY <2>1, SearchesNext DEF Contents, Map!Empty
  <2>7. Map!Destroy
    BY <2>1, <2>6 DEF Map!Destroy
  <2> QED
    BY <2>5, <2>7 DEF Step, Map!Next
<1>2. CASE ClearOutside
  <2>1. there /\ 0 .. capacity - 1 # DOMAIN pairs /\ wild' = TRUE
        /\ UNCHANGED <<there, pairs, size, capacity, expand_rate, ret, short>>
    BY <1>2 DEF ClearOutside, store
  <2>2. short
    BY <2>1 DEF KVInv, Room
  <2>3. KVInv'
    BY <2>1, <2>2 DEF KVInv, Room
  <2>4. Contents' = Contents
    BY <2>1, Searches, SearchesNext DEF Contents
  <2>5. Map!Lose
    BY <2>1, <2>2, <2>4 DEF Map!Lose
  <2> QED
    BY <2>3, <2>5 DEF Step, Map!Next
<1> QED
  BY <1>1, <1>2

LEMMA StoreSteps ==
  ASSUME KVInv, [KVNext]_kvsVars
  PROVE  Step
<1>1. CASE UNCHANGED kvsVars
  <2>1. UNCHANGED <<there, pairs, size, capacity, expand_rate, ret, short, wild>>
    BY <1>1 DEF kvsVars, store
  <2>2. KVInv'
    BY <2>1 DEF KVInv, Room
  <2>3. Contents' = Contents
    BY <2>1, Searches, SearchesNext DEF Contents
  <2> QED
    BY <2>1, <2>2, <2>3 DEF Step, Map!vars
<1> QED
  BY <1>1, CreateStep, NoStoreStep, PutStep, GetStep, RemoveStep, ClearStep DEF KVNext

-----------------------------------------------------------------------------
(* What a call returns is a value that was put, or nothing.                *)
Returns == ret \in Values \cup {Nothing}

LEMMA FoundIsValue ==
  ASSUME KVInv, NEW k
  PROVE  Found(k) \in Values \cup {Nothing}
<1>1. CASE PlacesIn(pairs, size, k) = {}
  BY <1>1, Searches DEF Value
<1>2. CASE PlacesIn(pairs, size, k) # {}
  <2>1. PICK i : i \in PlacesIn(pairs, size, k)
    BY <1>2
  <2>2. Value(pairs, size, k) = pairs[i].value
    BY <2>1, FirstIsOnly DEF KVInv
  <2>3. i \in DOMAIN pairs /\ i < size /\ pairs[i] # Nothing
    BY <2>1 DEF PlacesIn, KVInv, Room
  <2>4. pairs[i] \in Entries
    BY <2>3 DEF KVInv
  <2>5. pairs[i].value \in Values
    BY <2>4 DEF Entries
  <2> QED
    BY <2>2, <2>5, Searches
<1> QED
  BY <1>1, <1>2

LEMMA ReturnsStep ==
  ASSUME KVInv, Returns, [KVNext]_kvsVars
  PROVE  Returns'
<1>1. \A k : Found(k) \in Values \cup {Nothing}
  BY FoundIsValue
<1>2. CASE ret' = Nothing \/ ret' = ret
  BY <1>2 DEF Returns
<1>3. CASE \E k : ret' = Found(k)
  BY <1>1, <1>3 DEF Returns
<1>4. ASSUME NEW c, NEW e, Create(c, e) PROVE ret' = Nothing
  BY <1>4 DEF Create
<1>5. CreateFails \/ OnNull \/ ClearDestroy => ret' = Nothing
  BY DEF CreateFails, OnNull, ClearDestroy
<1>6. ClearOutside \/ UNCHANGED kvsVars => ret' = ret
  BY DEF ClearOutside, kvsVars
<1>7. ASSUME NEW k, NEW v, Put(k, v)
      PROVE  ret' = Nothing \/ ret' = ret \/ ret' = Found(k)
  BY <1>7 DEF Put, PutOver, PutNew, PutNewExpand, PutNewExpandFails, PutOutside, Found
<1>8. ASSUME NEW k, Get(k) \/ RemoveKey(k) PROVE ret' = Found(k)
  BY <1>8 DEF Get, RemoveKey
<1> QED
  BY <1>2, <1>3, <1>4, <1>5, <1>6, <1>7, <1>8 DEF KVNext

(* The invariant gives the types of the store.                             *)
LEMMA StoreTyped == KVInv /\ Returns => StoreOK
<1> SUFFICES ASSUME KVInv, Returns PROVE StoreOK
  OBVIOUS
<1>1. \E n \in 0 .. capacity : DOMAIN pairs = 0 .. n - 1
  BY DEF KVInv, Room
<1>2. \A i \in DOMAIN pairs : pairs[i] \in Entries \cup {Nothing}
  <2> SUFFICES ASSUME NEW i \in DOMAIN pairs PROVE pairs[i] \in Entries \cup {Nothing}
    OBVIOUS
  <2>1. i \in Int /\ size \in Int
    BY DEF KVInv, Room
  <2>2. i < size \/ i >= size
    BY <2>1
  <2> QED
    BY <2>2 DEF KVInv
<1> QED
  BY <1>1, <1>2 DEF KVInv, Returns, StoreOK

(* The array has the places that capacity says and one of them is free, or *)
(* an allocation failed; keys are unique; and what an operation returned   *)
(* is a value that was put, or nothing.                                    *)
THEOREM KVInvariance == KVSpec => [](KVInv /\ Returns)
<1>1. KVInit => Returns
  BY DEF KVInit, Returns
<1>2. KVInv /\ Returns /\ [KVNext]_kvsVars => KVInv' /\ Returns'
  BY StoreSteps, ReturnsStep DEF Step
<1> QED
  BY <1>1, <1>2, KVBegins, PTL DEF KVSpec

(* The store keeps its types: an array of as many places as capacity says, *)
(* or fewer, with entries below size and nothing behind.                   *)
THEOREM StoreIsTyped == KVSpec => []StoreOK
  BY KVInvariance, StoreTyped, PTL

(* The array of the store is only used outside of its memory after an      *)
(* allocation failed, whatever the capacity, the growth and the use.       *)
THEOREM InsideUnlessShort == KVSpec => []OutsideOnlyWhenShort
<1>1. KVInv => OutsideOnlyWhenShort
  BY DEF KVInv, OutsideOnlyWhenShort
<1> QED
  BY <1>1, KVInvariance, PTL

(* Whatever is put, replaced, removed and put again, the store is a map.   *)
THEOREM StoreIsMap == KVSpec => ImplementsMap
<1>1. KVInv /\ [KVNext]_kvsVars => [Map!Next]_(Map!vars)
  BY StoreSteps DEF Step
<1> QED
  BY <1>1, KVBegins, KVInvariance, PTL DEF KVSpec, ImplementsMap, Map!Spec
=============================================================================
