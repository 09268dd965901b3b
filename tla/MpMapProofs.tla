----------------------------- MODULE MpMapProofs -----------------------------
(***************************************************************************)
(* Proofs about MpMap, for every set of keys, hash function, table of      *)
(* sizes and number of operations: every key that is stored is found,      *)
(* len() is right, and the hash table implements Dict.                     *)
(***************************************************************************)
EXTENDS MpMap, FiniteSetTheorems, WellFoundedInduction, TLAPS

-----------------------------------------------------------------------------
(* Remainders *)

(* The remainder of a number is what is left of a multiple. *)
LEMMA ModIs ==
    ASSUME NEW n \in Nat \ {0}, NEW q \in Int, NEW r \in 0..(n - 1)
    PROVE  (n * q + r) % n = r
OBVIOUS

(* Every number is a multiple and its remainder. *)
LEMMA ModSplit ==
    ASSUME NEW n \in Nat \ {0}, NEW h \in Nat
    PROVE  h % n \in 0..(n - 1) /\ h = n * (h \div n) + (h % n) /\ h \div n \in Int
OBVIOUS

(* i slots after the slot of h, in a table of n slots *)
LEMMA ModAdd ==
    ASSUME NEW n \in Nat \ {0}, NEW h \in Nat, NEW i \in 0..n
    PROVE  (h + i) % n = IF (h % n) + i < n THEN (h % n) + i ELSE (h % n) + i - n
<1> DEFINE q == h \div n
           r == h % n
<1>1. r \in 0..(n - 1) /\ h = n * q + r /\ q \in Int
  BY ModSplit
<1> HIDE DEF q, r
<1>2. n * (q + 1) = n * q + n /\ n * q \in Int
  BY <1>1
<1>3. CASE r + i < n
  <2>1. (n * q + (r + i)) % n = r + i
    BY <1>1, <1>3, ModIs
  <2>2. h + i = n * q + (r + i)
    BY <1>1, <1>2
  <2> QED BY <1>3, <2>1, <2>2 DEF r
<1>4. CASE ~(r + i < n)
  <2>0. (r + i) - n \in 0..(n - 1) /\ q + 1 \in Int
    BY <1>1, <1>4
  <2>1. (n * (q + 1) + ((r + i) - n)) % n = (r + i) - n
    BY <2>0, ModIs
  <2>2. h + i = n * (q + 1) + ((r + i) - n)
    BY <1>1, <1>2
  <2> QED BY <1>4, <2>1, <2>2 DEF r
<1> QED BY <1>3, <1>4

(* The slot after slot p *)
LEMMA ModNext ==
    ASSUME NEW n \in Nat \ {0}, NEW p \in 0..(n - 1)
    PROVE  (p + 1) % n = IF p + 1 < n THEN p + 1 ELSE p + 1 - n
OBVIOUS

(* Every set of natural numbers has a least element. *)
LEMMA LeastNat ==
    ASSUME NEW T, T \subseteq Nat, T # {}
    PROVE  \E x \in T : \A y \in T : x <= y
<1>1. PICK x \in T : \A y \in T : ~(<<y, x>> \in OpToRel(<, Nat))
  BY NatLessThanWellFounded, WFMin
<1>2. \A y \in T : ~(y < x)
  BY <1>1 DEF OpToRel
<1> QED BY <1>2

(* Min of FiniteSetsExt picks it. *)
LEMMA MinOf ==
    ASSUME NEW T, T \subseteq Nat, T # {}
    PROVE  Min(T) \in T /\ \A y \in T : Min(T) <= y
BY LeastNat DEF Min

-----------------------------------------------------------------------------
(* A table between two operations *)

SlotSet == [key: Objects \cup {NULL, SENTINEL}, value: Values \cup {"in", NULL}]

Typed(m) ==
    /\ m \in [table: [0..m.alloc - 1 -> SlotSet], alloc: Nat, used: Int, qstrs: BOOLEAN]

KeyAt(m, p) == m.table[p].key
FilledSlots(m) == {p \in 0..m.alloc - 1 : Filled(m, p)}

(* No two slots hold equal keys *)
Unique(m) ==
    \A p, q \in FilledSlots(m) : Class[KeyAt(m, p)] = Class[KeyAt(m, q)] => p = q

(* A map that compares pointers has qstrs only *)
QstrsOnly(m) == m.qstrs => \A p \in FilledSlots(m) : Type[KeyAt(m, p)] = "qstr"

(* Slot p holds an object that equals k *)
Holds(m, p, k) == p \in FilledSlots(m) /\ Class[KeyAt(m, p)] = Class[k]

(* The search for a key passes no slot that was never used before it       *)
(* reaches the key.                                                        *)
Reachable(m) ==
    \A k \in Objects : \A i \in 0..m.alloc - 1 :
        Holds(m, Pos(m, k, i), k) => \A j \in 0..i - 1 : KeyAt(m, Pos(m, k, j)) # NULL

Counted(m) == m.used = Cardinality(FilledSlots(m))

GoodTable(m) == Typed(m) /\ Unique(m) /\ QstrsOnly(m) /\ Reachable(m) /\ Counted(m)

(* A slot of the table holds an object, NULL or the sentinel. *)
LEMMA SlotType ==
    ASSUME NEW m, Typed(m), NEW p \in 0..m.alloc - 1
    PROVE  /\ m.table[p] \in SlotSet
           /\ KeyAt(m, p) \in Objects \cup {NULL, SENTINEL}
           /\ Filled(m, p) <=> KeyAt(m, p) \in Objects
           /\ Filled(m, p) <=> KeyAt(m, p) # NULL /\ KeyAt(m, p) # SENTINEL
           /\ m.table[p].value \in Values \cup {"in", NULL}
<1>1. m.table[p] \in SlotSet
  BY DEF Typed
<1>2. NULL \notin Objects /\ SENTINEL \notin Objects
  BY MpMapAssumption
<1> QED BY <1>1, <1>2 DEF SlotSet, KeyAt, Filled

(* The probe sequence of a key goes through all slots, one after the other. *)
LEMMA Probes ==
    ASSUME NEW m, Typed(m), NEW k \in Objects
    PROVE  /\ \A i \in 0..m.alloc - 1 : Pos(m, k, i) \in 0..m.alloc - 1
           /\ \A i, j \in 0..m.alloc - 1 : Pos(m, k, i) = Pos(m, k, j) => i = j
           /\ \A p \in 0..m.alloc - 1 : \E i \in 0..m.alloc - 1 : Pos(m, k, i) = p
           /\ \A i \in 0..m.alloc - 1 :
                i + 1 < m.alloc => Pos(m, k, i + 1) = (Pos(m, k, i) + 1) % m.alloc
<1> DEFINE n == m.alloc
           h == Hash[Class[k]]
           r == h % n
<1>1. n \in Nat /\ h \in Nat
  BY MpMapAssumption DEF Typed
<1>2. SUFFICES ASSUME n # 0
               PROVE  /\ \A i \in 0..n - 1 : Pos(m, k, i) \in 0..n - 1
                      /\ \A i, j \in 0..n - 1 : Pos(m, k, i) = Pos(m, k, j) => i = j
                      /\ \A p \in 0..n - 1 : \E i \in 0..n - 1 : Pos(m, k, i) = p
                      /\ \A i \in 0..n - 1 :
                           i + 1 < n => Pos(m, k, i + 1) = (Pos(m, k, i) + 1) % n
  BY <1>1
<1>3. r \in 0..n - 1
  BY <1>1, <1>2, ModSplit
<1>4. ASSUME NEW i \in 0..n
      PROVE  Pos(m, k, i) = IF r + i < n THEN r + i ELSE r + i - n
  BY <1>1, <1>2, ModAdd DEF Pos
<1> HIDE DEF n, h, r
<1>5. \A i \in 0..n - 1 : i \in 0..n /\ i \in Int
  BY <1>1
<1>6. ASSUME NEW i \in 0..n - 1 PROVE Pos(m, k, i) \in 0..n - 1
  BY <1>1, <1>3, <1>4, <1>5
<1>7. ASSUME NEW i \in 0..n - 1, NEW j \in 0..n - 1, Pos(m, k, i) = Pos(m, k, j) PROVE i = j
  BY <1>1, <1>3, <1>4, <1>5, <1>7
<1>8. ASSUME NEW p \in 0..n - 1 PROVE \E i \in 0..n - 1 : Pos(m, k, i) = p
  <2>1. CASE p >= r
    <3>1. p - r \in 0..n - 1
      BY <1>1, <1>3, <2>1
    <3>2. Pos(m, k, p - r) = p
      BY <1>1, <1>3, <1>4, <1>5, <3>1
    <3> QED BY <3>1, <3>2
  <2>2. CASE p < r
    <3>1. p - r + n \in 0..n - 1
      BY <1>1, <1>3, <2>2
    <3>2. Pos(m, k, p - r + n) = p
      BY <1>1, <1>3, <1>4, <1>5, <3>1
    <3> QED BY <3>1, <3>2
  <2> QED BY <1>1, <1>3, <2>1, <2>2
<1>9. ASSUME NEW i \in 0..n - 1, i + 1 < n
      PROVE  Pos(m, k, i + 1) = (Pos(m, k, i) + 1) % n
  <2> DEFINE p == Pos(m, k, i)
  <2>1. p \in 0..n - 1 /\ p \in Nat /\ i + 1 \in 0..n
    BY <1>1, <1>6, <1>9
  <2>3. (p + 1) % n = IF p + 1 < n THEN p + 1 ELSE p + 1 - n
    <3> HIDE DEF p
    <3>1. n \in Nat \ {0}
      BY <1>1, <1>2 DEF n
    <3> QED BY <2>1, <3>1, ModNext
  <2>4. p = IF r + i < n THEN r + i ELSE r + i - n
    BY <1>4, <1>5
  <2>5. Pos(m, k, i + 1) = IF r + (i + 1) < n THEN r + (i + 1) ELSE r + (i + 1) - n
    BY <1>4, <2>1
  <2> HIDE DEF p
  <2>6. Pos(m, k, i + 1) = (p + 1) % n
    BY <1>1, <1>3, <1>9, <2>1, <2>3, <2>4, <2>5
  <2> QED BY <2>6 DEF p
<1> QED BY <1>6, <1>7, <1>8, <1>9 DEF n

-----------------------------------------------------------------------------
(* The search *)

(* The test of the search finds the key, compared by value, also where it  *)
(* compares pointers only.                                                 *)
LEMMA EqualHolds ==
    ASSUME NEW m, Typed(m), QstrsOnly(m), NEW k \in Objects, NEW p \in 0..m.alloc - 1
    PROVE  Equal(m, KeyAt(m, p), k) <=> Holds(m, p, k)
<1> DEFINE key == KeyAt(m, p)
<1>1. /\ p \in FilledSlots(m) <=> key \in Objects
  BY SlotType DEF FilledSlots
<1>2. ASSUME Equal(m, key, k) PROVE Holds(m, p, k)
  BY <1>1, <1>2 DEF Equal, Holds
<1>3. ASSUME Holds(m, p, k) PROVE Equal(m, key, k)
  <2>1. key \in Objects /\ Class[key] = Class[k] /\ p \in FilledSlots(m)
    BY <1>1, <1>3 DEF Holds
  <2>2. CASE ~ComparePtrs(m, k)
    BY <2>1, <2>2 DEF Equal
  <2>3. CASE ComparePtrs(m, k)
    <3>1. m.qstrs /\ Type[k] # "str"
      BY <2>3 DEF ComparePtrs
    <3>2. Type[key] = "qstr"
      BY <2>1, <3>1 DEF QstrsOnly
    <3>3. Type[k] \in {"qstr", "str", "other"}
      BY MpMapAssumption
    <3>4. key # k => /\ (Type[key] = "other") = (Type[k] = "other")
                     /\ ~(Type[key] = "qstr" /\ Type[k] = "qstr")
      BY <2>1, MpMapAssumption
    <3>5. key = k
      BY <3>1, <3>2, <3>3, <3>4
    <3> QED BY <3>5 DEF Equal
  <2> QED BY <2>2, <2>3
<1> QED BY <1>2, <1>3

(* Where the search ends *)
LEMMA EndsAt ==
    ASSUME NEW m, Typed(m), QstrsOnly(m), NEW k \in Objects
    PROVE  /\ Ends(m, k) \subseteq 0..m.alloc - 1
           /\ Ends(m, k) \subseteq Nat
           /\ \A i \in 0..m.alloc - 1 :
                i \in Ends(m, k) <=>
                    KeyAt(m, Pos(m, k, i)) = NULL \/ Holds(m, Pos(m, k, i), k)
<1>1. m.alloc \in Nat
  BY DEF Typed
<1>2. Ends(m, k) = {i \in 0..m.alloc - 1 :
                       KeyAt(m, Pos(m, k, i)) = NULL \/ Equal(m, KeyAt(m, Pos(m, k, i)), k)}
  BY DEF Ends, KeyAt
<1>3. Ends(m, k) \subseteq 0..m.alloc - 1 /\ Ends(m, k) \subseteq Nat
  BY <1>1, <1>2
<1>4. ASSUME NEW i \in 0..m.alloc - 1
      PROVE  Equal(m, KeyAt(m, Pos(m, k, i)), k) <=> Holds(m, Pos(m, k, i), k)
  BY Probes, EqualHolds
<1> QED BY <1>2, <1>3, <1>4

(* A key that is stored is found where it is. *)
LEMMA HeldIsFound ==
    ASSUME NEW m, GoodTable(m), NEW k \in Objects, NEW p, Holds(m, p, k)
    PROVE  Found(m, k) /\ At(m, k) = p /\ ~Shortcut(m, k)
<1>1. Typed(m) /\ QstrsOnly(m) /\ Unique(m) /\ Reachable(m) /\ m.alloc \in Nat
  BY DEF GoodTable, Typed
<1>2. p \in 0..m.alloc - 1 /\ p \in FilledSlots(m) /\ Class[KeyAt(m, p)] = Class[k]
  BY DEF Holds, FilledSlots
<1>3. PICK i \in 0..m.alloc - 1 : Pos(m, k, i) = p
  BY <1>1, <1>2, Probes
<1>4. i \in Ends(m, k)
  BY <1>1, <1>3, EndsAt
<1>5. ASSUME NEW j \in Ends(m, k) PROVE i <= j
  <2>1. j \in 0..m.alloc - 1 /\ (KeyAt(m, Pos(m, k, j)) = NULL \/ Holds(m, Pos(m, k, j), k))
    BY <1>1, EndsAt
  <2>2. CASE Holds(m, Pos(m, k, j), k)
    <3>1. Pos(m, k, j) = p
      BY <1>1, <1>2, <2>2 DEF Unique, Holds
    <3>2. j = i
      BY <1>1, <1>3, <2>1, <3>1, Probes
    <3> QED BY <1>1, <3>2
  <2>3. CASE KeyAt(m, Pos(m, k, j)) = NULL
    <3>1. \A l \in 0..i - 1 : KeyAt(m, Pos(m, k, l)) # NULL
      BY <1>1, <1>3 DEF Reachable
    <3>2. j \notin 0..i - 1
      BY <2>3, <3>1
    <3> QED BY <1>1, <2>1, <3>2
  <2> QED BY <2>1, <2>2, <2>3
<1>6. Min(Ends(m, k)) \in Ends(m, k) /\ \A j \in Ends(m, k) : Min(Ends(m, k)) <= j
  BY <1>1, <1>4, EndsAt, MinOf
<1>7. Min(Ends(m, k)) = i
  <2>1. Min(Ends(m, k)) \in Nat /\ i \in Nat
    BY <1>1, <1>4, <1>6, EndsAt
  <2> QED BY <1>4, <1>5, <1>6, <2>1
<1>8. KeyAt(m, p) \in Objects /\ KeyAt(m, p) # NULL
  BY <1>1, <1>2, SlotType DEF FilledSlots
<1>9. Found(m, k) /\ At(m, k) = p
  BY <1>3, <1>4, <1>7, <1>8 DEF Found, At, KeyAt
<1>10. ~Shortcut(m, k)
  <2> SUFFICES ASSUME m.qstrs, Type[k] = "other" PROVE FALSE
    BY DEF Shortcut
  <2>1. Type[KeyAt(m, p)] = "qstr"
    BY <1>1, <1>2 DEF QstrsOnly
  <2>2. KeyAt(m, p) # k
    BY <2>1
  <2> QED BY <1>2, <1>8, <2>1, <2>2, MpMapAssumption
<1> QED BY <1>9, <1>10

(* What is found is the key. *)
LEMMA FoundIsHeld ==
    ASSUME NEW m, GoodTable(m), NEW k \in Objects, Found(m, k)
    PROVE  Holds(m, At(m, k), k) /\ At(m, k) \in 0..m.alloc - 1
<1>1. Typed(m) /\ QstrsOnly(m)
  BY DEF GoodTable
<1>2. Ends(m, k) # {}
  BY DEF Found
<1>3. Min(Ends(m, k)) \in Ends(m, k)
  BY <1>1, <1>2, EndsAt, MinOf
<1>4. Min(Ends(m, k)) \in 0..m.alloc - 1
  BY <1>1, <1>3, EndsAt
<1>5. KeyAt(m, At(m, k)) # NULL
  BY DEF Found, At, KeyAt
<1>6. Holds(m, At(m, k), k)
  BY <1>1, <1>3, <1>4, <1>5, EndsAt DEF At
<1> QED BY <1>6 DEF Holds, FilledSlots

(* Where a missing key is put: in a free slot, with none that was never    *)
(* used before it.                                                         *)
LEMMA WherePut ==
    ASSUME NEW m, GoodTable(m), NEW k \in Objects, ~Found(m, k), Avail(m, k) # {}
    PROVE  LET a == Min(Avail(m, k))
           IN  /\ a \in 0..m.alloc - 1
               /\ KeyAt(m, Pos(m, k, a)) \in {NULL, SENTINEL}
               /\ \A j \in 0..a - 1 : KeyAt(m, Pos(m, k, j)) # NULL
<1> DEFINE a == Min(Avail(m, k))
           E == Ends(m, k)
           passed == {i \in 0..m.alloc - 1 : /\ KeyAt(m, Pos(m, k, i)) = SENTINEL
                                             /\ \A j \in E : i < j}
<1>1. Typed(m) /\ QstrsOnly(m) /\ m.alloc \in Nat
  BY DEF GoodTable, Typed
<1>2. Avail(m, k) = passed \cup (IF E = {} THEN {} ELSE {Min(E)})
  BY DEF Avail, KeyAt
<1>3. /\ E \subseteq 0..m.alloc - 1 /\ E \subseteq Nat
      /\ \A i \in 0..m.alloc - 1 :
            i \in E <=> KeyAt(m, Pos(m, k, i)) = NULL \/ Holds(m, Pos(m, k, i), k)
  BY <1>1, EndsAt
<1>4. E # {} => Min(E) \in E /\ \A j \in E : Min(E) <= j
  BY <1>3, MinOf
<1>5. E # {} => KeyAt(m, Pos(m, k, Min(E))) = NULL
  BY DEF Found, KeyAt
<1> HIDE DEF E
<1>6. Avail(m, k) \subseteq 0..m.alloc - 1 /\ Avail(m, k) \subseteq Nat
  <2>1. passed \subseteq 0..m.alloc - 1
    OBVIOUS
  <2> HIDE DEF passed
  <2>2. Avail(m, k) \subseteq 0..m.alloc - 1
    BY <1>2, <1>3, <1>4, <2>1
  <2> QED BY <1>1, <2>2
<1>7. a \in Avail(m, k) /\ \A j \in Avail(m, k) : a <= j
  BY <1>6, MinOf
<1> HIDE DEF a
<1>8. KeyAt(m, Pos(m, k, a)) \in {NULL, SENTINEL}
  BY <1>2, <1>5, <1>7
<1>9. ASSUME NEW j \in 0..a - 1 PROVE KeyAt(m, Pos(m, k, j)) # NULL
  <2>1. a \in Nat /\ j \in 0..m.alloc - 1 /\ j < a
    BY <1>1, <1>6, <1>7
  <2>2. j \notin E
    <3> SUFFICES ASSUME j \in E PROVE FALSE
      OBVIOUS
    <3>1. Min(E) \in Avail(m, k) /\ Min(E) <= j /\ Min(E) \in Nat
      BY <1>2, <1>3, <1>4
    <3>2. a <= Min(E)
      BY <1>7, <3>1
    <3> QED BY <2>1, <3>1, <3>2
  <2> QED BY <1>3, <2>1, <2>2
<1> QED BY <1>6, <1>7, <1>8, <1>9 DEF a

(* Only in a table full of keys is there no place. *)
LEMMA NoPlace ==
    ASSUME NEW m, GoodTable(m), NEW k \in Objects, Avail(m, k) = {}
    PROVE  m.used = m.alloc
<1>1. Typed(m) /\ QstrsOnly(m) /\ m.alloc \in Nat
  BY DEF GoodTable, Typed
<1>2. Ends(m, k) = {}
  BY DEF Avail
<1>3. ASSUME NEW p \in 0..m.alloc - 1 PROVE Filled(m, p)
  <2>1. PICK i \in 0..m.alloc - 1 : Pos(m, k, i) = p
    BY <1>1, Probes
  <2>2. KeyAt(m, p) # NULL
    BY <1>1, <1>2, <2>1, EndsAt
  <2>3. KeyAt(m, p) # SENTINEL
    BY <1>2, <2>1 DEF Avail, KeyAt
  <2> QED BY <1>1, <2>2, <2>3, SlotType
<1>4. FilledSlots(m) = 0..m.alloc - 1
  BY <1>3 DEF FilledSlots
<1>5. Cardinality(0..m.alloc - 1) = m.alloc
  <2>1. 0 \in Int /\ m.alloc - 1 \in Int
    BY <1>1
  <2>2. Cardinality(0..m.alloc - 1) = IF 0 > m.alloc - 1 THEN 0 ELSE (m.alloc - 1) - 0 + 1
    BY <2>1, FS_Interval
  <2> QED BY <1>1, <2>2
<1> QED BY <1>4, <1>5 DEF GoodTable, Counted

-----------------------------------------------------------------------------
(* Changes of one slot *)

(* r is m with another slot p *)
Updates(m, r, p, s) ==
    /\ Typed(m) /\ Typed(r) /\ p \in 0..m.alloc - 1 /\ s \in SlotSet
    /\ r.alloc = m.alloc
    /\ r.table = [m.table EXCEPT ![p] = s]

(* The other slots, and the places of all keys, are the same. *)
LEMMA UpdatedSlots ==
    ASSUME NEW m, NEW r, NEW p, NEW s, Updates(m, r, p, s)
    PROVE  /\ r.table[p] = s /\ KeyAt(r, p) = s.key
           /\ \A q \in 0..m.alloc - 1 :
                q # p => /\ r.table[q] = m.table[q] /\ KeyAt(r, q) = KeyAt(m, q)
                         /\ q \in FilledSlots(r) <=> q \in FilledSlots(m)
           /\ p \in FilledSlots(r) <=> s.key \in Objects
           /\ \A k, i : Pos(r, k, i) = Pos(m, k, i)
           /\ FilledSlots(r) \subseteq 0..m.alloc - 1
           /\ FilledSlots(m) \subseteq 0..m.alloc - 1
<1>1. /\ Typed(m) /\ Typed(r) /\ p \in 0..m.alloc - 1 /\ s \in SlotSet
      /\ r.alloc = m.alloc /\ r.table = [m.table EXCEPT ![p] = s]
      /\ m.table \in [0..m.alloc - 1 -> SlotSet]
  BY DEF Updates, Typed
<1>2. r.table[p] = s /\ \A q \in 0..m.alloc - 1 : q # p => r.table[q] = m.table[q]
  BY <1>1
<1>3. p \in FilledSlots(r) <=> s.key \in Objects
  BY <1>1, <1>2, SlotType DEF FilledSlots, KeyAt
<1>4. \A k, i : Pos(r, k, i) = Pos(m, k, i)
  BY <1>1 DEF Pos
<1> QED BY <1>1, <1>2, <1>3, <1>4 DEF KeyAt, FilledSlots, Filled

(* The slots are finitely many. *)
LEMMA FilledFinite ==
    ASSUME NEW m, Typed(m)
    PROVE  IsFiniteSet(FilledSlots(m)) /\ Cardinality(FilledSlots(m)) \in Nat
<1>1. m.alloc - 1 \in Int
  BY DEF Typed
<1>2. IsFiniteSet(0..m.alloc - 1)
  BY <1>1, FS_Interval
<1>3. FilledSlots(m) \subseteq 0..m.alloc - 1
  BY DEF FilledSlots
<1>4. IsFiniteSet(FilledSlots(m))
  BY <1>2, <1>3, FS_Subset
<1> QED BY <1>4, FS_CardinalityType

(* A missing key in a free slot that its search reaches *)
LEMMA AddKeeps ==
    ASSUME NEW m, GoodTable(m), NEW k \in Objects, NEW v, NEW r, NEW a \in 0..m.alloc - 1,
           \A p : ~Holds(m, p, k),
           KeyAt(m, Pos(m, k, a)) \in {NULL, SENTINEL},
           \A j \in 0..a - 1 : KeyAt(m, Pos(m, k, j)) # NULL,
           Updates(m, r, Pos(m, k, a), Slot(k, v)),
           r.used = m.used + 1, r.qstrs = (m.qstrs /\ Type[k] = "qstr")
    PROVE  GoodTable(r)
<1> DEFINE p == Pos(m, k, a)
           s == Slot(k, v)
<1>1. /\ Typed(m) /\ Typed(r) /\ p \in 0..m.alloc - 1 /\ r.alloc = m.alloc
      /\ Unique(m) /\ QstrsOnly(m) /\ Reachable(m) /\ Counted(m) /\ m.alloc \in Nat
  BY DEF GoodTable, Updates, Typed
<1>2. s.key = k
  BY DEF Slot
<1>3. p \notin FilledSlots(m)
  <2>1. Filled(m, p) => KeyAt(m, p) # NULL /\ KeyAt(m, p) # SENTINEL
    BY <1>1, SlotType
  <2> QED BY <2>1 DEF FilledSlots
<1>4. /\ KeyAt(r, p) = k /\ p \in FilledSlots(r)
      /\ \A q \in 0..m.alloc - 1 :
           q # p => KeyAt(r, q) = KeyAt(m, q) /\ (q \in FilledSlots(r) <=> q \in FilledSlots(m))
      /\ \A j, i : Pos(r, j, i) = Pos(m, j, i)
      /\ FilledSlots(r) \subseteq 0..m.alloc - 1
      /\ FilledSlots(m) \subseteq 0..m.alloc - 1
  BY <1>2, UpdatedSlots
<1> HIDE DEF p, s
<1>5. FilledSlots(r) = FilledSlots(m) \cup {p}
  BY <1>1, <1>4
<1>6. Unique(r)
  <2> SUFFICES ASSUME NEW x \in FilledSlots(r), NEW y \in FilledSlots(r),
                      Class[KeyAt(r, x)] = Class[KeyAt(r, y)]
               PROVE  x = y
    BY DEF Unique
  <2>1. CASE x # p /\ y # p
    <3>1. x \in FilledSlots(m) /\ y \in FilledSlots(m)
      BY <1>5, <2>1
    <3>2. Class[KeyAt(m, x)] = Class[KeyAt(m, y)]
      BY <1>4, <2>1, <3>1
    <3> QED BY <1>1, <3>1, <3>2 DEF Unique
  <2>2. ASSUME NEW z \in FilledSlots(r), z # p PROVE Class[KeyAt(r, z)] # Class[k]
    <3>1. z \in FilledSlots(m) /\ KeyAt(r, z) = KeyAt(m, z)
      BY <1>4, <1>5, <2>2
    <3> QED BY <3>1 DEF Holds
  <2> QED BY <1>4, <2>1, <2>2
<1>7. QstrsOnly(r)
  <2> SUFFICES ASSUME r.qstrs, NEW x \in FilledSlots(r) PROVE Type[KeyAt(r, x)] = "qstr"
    BY DEF QstrsOnly
  <2>1. m.qstrs /\ Type[k] = "qstr"
    OBVIOUS
  <2> QED BY <1>1, <1>4, <1>5, <2>1 DEF QstrsOnly
<1>8. Reachable(r)
  <2> SUFFICES ASSUME NEW x \in Objects, NEW i \in 0..m.alloc - 1,
                      Holds(r, Pos(m, x, i), x), NEW j \in 0..i - 1
               PROVE  KeyAt(r, Pos(m, x, j)) # NULL
    BY <1>1, <1>4 DEF Reachable
  <2>0. j \in 0..m.alloc - 1
    BY <1>1
  <2>1. /\ j \in 0..m.alloc - 1 /\ Pos(m, x, j) \in 0..m.alloc - 1
        /\ Pos(m, x, i) \in 0..m.alloc - 1
    BY <1>1, <2>0, Probes
  <2>2. CASE Pos(m, x, j) = p
    BY <1>4, <2>2, MpMapAssumption
  <2>3. CASE Pos(m, x, j) # p /\ Pos(m, x, i) # p
    <3>1. Holds(m, Pos(m, x, i), x)
      BY <1>4, <2>1, <2>3 DEF Holds
    <3>2. KeyAt(m, Pos(m, x, j)) # NULL
      BY <1>1, <3>1 DEF Reachable
    <3> QED BY <1>4, <2>1, <2>3, <3>2
  <2>4. CASE Pos(m, x, j) # p /\ Pos(m, x, i) = p
    <3>1. Class[x] = Class[k]
      BY <1>4, <2>4 DEF Holds
    <3>2. \A l : Pos(m, x, l) = Pos(m, k, l)
      BY <3>1 DEF Pos
    <3>3. i = a
      <4>1. Pos(m, k, i) = Pos(m, k, a)
        BY <2>4, <3>2 DEF p
      <4> QED BY <1>1, <4>1, Probes
    <3>4. KeyAt(m, Pos(m, x, j)) # NULL
      BY <3>2, <3>3
    <3> QED BY <1>4, <2>1, <2>4, <3>4
  <2> QED BY <2>2, <2>3, <2>4
<1>9. Counted(r)
  <2>1. IsFiniteSet(FilledSlots(m))
    BY <1>1, FilledFinite
  <2>2. Cardinality(FilledSlots(m) \cup {p}) = Cardinality(FilledSlots(m)) + 1
    BY <1>3, <2>1, FS_AddElement
  <2> QED BY <1>1, <1>5, <2>2 DEF Counted
<1> QED BY <1>1, <1>6, <1>7, <1>8, <1>9 DEF GoodTable

(* A key is deleted: its slot becomes free, and counts as never used only  *)
(* if no search goes on after it.                                          *)
LEMMA DeleteKeeps ==
    ASSUME NEW m, GoodTable(m), NEW p \in FilledSlots(m), NEW s, NEW r,
           Updates(m, r, p, s), s.key \in {NULL, SENTINEL},
           s.key = NULL => KeyAt(m, (p + 1) % m.alloc) = NULL,
           r.used = m.used - 1, r.qstrs = m.qstrs
    PROVE  GoodTable(r) /\ FilledSlots(r) = FilledSlots(m) \ {p}
<1>1. /\ Typed(m) /\ Typed(r) /\ p \in 0..m.alloc - 1 /\ r.alloc = m.alloc
      /\ Unique(m) /\ QstrsOnly(m) /\ Reachable(m) /\ Counted(m) /\ m.alloc \in Nat
  BY DEF GoodTable, Updates, Typed
<1>2. /\ KeyAt(r, p) = s.key /\ (p \in FilledSlots(r) <=> s.key \in Objects)
      /\ \A q \in 0..m.alloc - 1 :
           q # p => KeyAt(r, q) = KeyAt(m, q) /\ (q \in FilledSlots(r) <=> q \in FilledSlots(m))
      /\ \A j, i : Pos(r, j, i) = Pos(m, j, i)
      /\ FilledSlots(r) \subseteq 0..m.alloc - 1
      /\ FilledSlots(m) \subseteq 0..m.alloc - 1
  BY UpdatedSlots
<1>3. FilledSlots(r) = FilledSlots(m) \ {p}
  <2>1. p \notin FilledSlots(r)
    BY <1>2, MpMapAssumption
  <2> QED BY <1>1, <1>2, <2>1
<1>4. Unique(r)
  BY <1>1, <1>2, <1>3 DEF Unique
<1>5. QstrsOnly(r)
  BY <1>1, <1>2, <1>3 DEF QstrsOnly
<1>6. Reachable(r)
  <2> SUFFICES ASSUME NEW x \in Objects, NEW i \in 0..m.alloc - 1,
                      Holds(r, Pos(m, x, i), x), NEW j \in 0..i - 1
               PROVE  KeyAt(r, Pos(m, x, j)) # NULL
    BY <1>1, <1>2 DEF Reachable
  <2>0. j \in 0..m.alloc - 1 /\ j + 1 < m.alloc
    BY <1>1
  <2>1. /\ Pos(m, x, j) \in 0..m.alloc - 1 /\ Pos(m, x, i) \in 0..m.alloc - 1
    BY <1>1, <2>0, Probes
  <2>2. Pos(m, x, i) # p /\ Holds(m, Pos(m, x, i), x)
    BY <1>2, <1>3 DEF Holds
  <2>3. \A l \in 0..i - 1 : KeyAt(m, Pos(m, x, l)) # NULL
    BY <1>1, <2>2 DEF Reachable
  <2>4. CASE Pos(m, x, j) # p
    BY <1>2, <2>1, <2>3, <2>4
  <2>5. CASE Pos(m, x, j) = p
    <3>1. Pos(m, x, j + 1) = (p + 1) % m.alloc
      BY <1>1, <2>0, <2>5, Probes
    <3>2. KeyAt(m, Pos(m, x, j + 1)) # NULL
      <4>1. CASE j + 1 = i
        <5>1. Filled(m, Pos(m, x, i))
          BY <2>2 DEF Holds, FilledSlots
        <5> QED BY <1>1, <2>1, <4>1, <5>1, SlotType
      <4>2. CASE j + 1 # i
        <5>1. j + 1 \in 0..i - 1
          BY <1>1, <4>2
        <5> QED BY <2>3, <5>1
      <4> QED BY <4>1, <4>2
    <3>3. s.key # NULL
      BY <3>1, <3>2
    <3> QED BY <1>2, <2>5, <3>3
  <2> QED BY <2>4, <2>5
<1>7. Counted(r)
  <2>1. IsFiniteSet(FilledSlots(m))
    BY <1>1, FilledFinite
  <2>2. Cardinality(FilledSlots(m) \ {p}) = Cardinality(FilledSlots(m)) - 1
    BY <2>1, FS_RemoveElement
  <2> QED BY <1>1, <1>3, <2>2 DEF Counted
<1> QED BY <1>1, <1>3, <1>4, <1>5, <1>6, <1>7 DEF GoodTable

(* A stored key gets another value. *)
LEMMA ValueKeeps ==
    ASSUME NEW m, GoodTable(m), NEW p \in FilledSlots(m), NEW v, NEW r,
           Updates(m, r, p, Slot(KeyAt(m, p), v)),
           r.used = m.used, r.qstrs = m.qstrs
    PROVE  GoodTable(r) /\ FilledSlots(r) = FilledSlots(m)
<1>1. /\ Typed(m) /\ Typed(r) /\ p \in 0..m.alloc - 1 /\ r.alloc = m.alloc
      /\ Unique(m) /\ QstrsOnly(m) /\ Reachable(m) /\ Counted(m) /\ m.alloc \in Nat
  BY DEF GoodTable, Updates, Typed
<1>2. Slot(KeyAt(m, p), v).key = KeyAt(m, p) /\ KeyAt(m, p) \in Objects
  BY <1>1, SlotType DEF Slot, FilledSlots
<1>3. /\ \A q \in 0..m.alloc - 1 : KeyAt(r, q) = KeyAt(m, q)
      /\ \A j, i : Pos(r, j, i) = Pos(m, j, i)
      /\ FilledSlots(r) = FilledSlots(m) /\ FilledSlots(m) \subseteq 0..m.alloc - 1
  BY <1>1, <1>2, UpdatedSlots
<1>4. Unique(r) /\ QstrsOnly(r) /\ Counted(r)
  BY <1>1, <1>3 DEF Unique, QstrsOnly, Counted
<1>5. Reachable(r)
  <2> SUFFICES ASSUME NEW x \in Objects, NEW i \in 0..m.alloc - 1,
                      Holds(r, Pos(m, x, i), x), NEW j \in 0..i - 1
               PROVE  KeyAt(r, Pos(m, x, j)) # NULL
    BY <1>1, <1>3 DEF Reachable
  <2>0. j \in 0..m.alloc - 1
    BY <1>1
  <2>1. Pos(m, x, j) \in 0..m.alloc - 1 /\ Pos(m, x, i) \in 0..m.alloc - 1
    BY <1>1, <2>0, Probes
  <2>2. Holds(m, Pos(m, x, i), x)
    BY <1>3, <2>1 DEF Holds
  <2> QED BY <1>1, <1>3, <2>1, <2>2 DEF Reachable
<1> QED BY <1>1, <1>3, <1>4, <1>5 DEF GoodTable

-----------------------------------------------------------------------------
(* Adding and growing *)

(* A new table holds nothing. *)
LEMMA EmptyGood ==
    ASSUME NEW n \in Nat
    PROVE  /\ GoodTable(Empty(n)) /\ Empty(n).alloc = n /\ Empty(n).used = 0
           /\ FilledSlots(Empty(n)) = {}
<1> DEFINE e == Empty(n)
<1>1. /\ e.alloc = n /\ e.used = 0
      /\ \A p \in 0..n - 1 : e.table[p] = Slot(NULL, NULL)
  BY DEF Empty
<1>2. Slot(NULL, NULL) \in SlotSet /\ Slot(NULL, NULL).key = NULL
  BY DEF Slot, SlotSet
<1>3. Typed(e)
  <2>1. (kind = "map") \in BOOLEAN
    OBVIOUS
  <2> QED BY <1>2, <2>1 DEF Typed, Empty
<1> HIDE DEF e
<1>4. FilledSlots(e) = {}
  BY <1>1, <1>2 DEF FilledSlots, Filled
<1>5. Unique(e) /\ QstrsOnly(e) /\ Reachable(e)
  BY <1>4 DEF Unique, QstrsOnly, Reachable, Holds
<1>6. Counted(e)
  BY <1>1, <1>4, FS_EmptySet DEF Counted
<1> QED BY <1>1, <1>3, <1>4, <1>5, <1>6 DEF GoodTable, e

(* A missing key is put where its search finds it. *)
LEMMA PutGood ==
    ASSUME NEW m, GoodTable(m), NEW k \in Objects, NEW v \in Values \cup {"in", NULL},
           ~Found(m, k), Avail(m, k) # {}
    PROVE  LET r == Put(m, k, v)
               p == Pos(m, k, Min(Avail(m, k)))
           IN  /\ GoodTable(r) /\ r.alloc = m.alloc /\ r.used = m.used + 1
               /\ Updates(m, r, p, Slot(k, v)) /\ p \notin FilledSlots(m)
<1> DEFINE a == Min(Avail(m, k))
           p == Pos(m, k, a)
           r == Put(m, k, v)
<1>1. /\ a \in 0..m.alloc - 1 /\ KeyAt(m, p) \in {NULL, SENTINEL}
      /\ \A j \in 0..a - 1 : KeyAt(m, Pos(m, k, j)) # NULL
  BY WherePut
<1>2. Typed(m) /\ m \in [table: [0..m.alloc - 1 -> SlotSet], alloc: Nat, used: Int, qstrs: BOOLEAN]
  BY DEF GoodTable, Typed
<1>3. p \in 0..m.alloc - 1
  BY <1>1, <1>2, Probes
<1>4. r = [m EXCEPT !.table[p] = Slot(k, v), !.used = @ + 1, !.qstrs = @ /\ Type[k] = "qstr"]
  BY DEF Put
<1> HIDE DEF a, p, r
<1>5. Slot(k, v) \in SlotSet
  BY DEF Slot, SlotSet
<1>6. /\ r.table = [m.table EXCEPT ![p] = Slot(k, v)] /\ r.alloc = m.alloc
      /\ r.used = m.used + 1 /\ r.qstrs = (m.qstrs /\ Type[k] = "qstr")
      /\ r \in [table: [0..m.alloc - 1 -> SlotSet], alloc: Nat, used: Int, qstrs: BOOLEAN]
  <2> DEFINE tab == [m.table EXCEPT ![p] = Slot(k, v)]
             q == m.qstrs /\ Type[k] = "qstr"
  <2>1. tab \in [0..m.alloc - 1 -> SlotSet] /\ m.used + 1 \in Int
    BY <1>2, <1>3, <1>5
  <2>2. q \in BOOLEAN
    OBVIOUS
  <2>3. r = [m EXCEPT !.table = tab, !.used = @ + 1, !.qstrs = q]
    BY <1>2, <1>4
  <2> HIDE DEF tab, q
  <2>4. /\ r.table = tab /\ r.alloc = m.alloc /\ r.used = m.used + 1 /\ r.qstrs = q
        /\ r \in [table: [0..m.alloc - 1 -> SlotSet], alloc: Nat, used: Int, qstrs: BOOLEAN]
    BY <1>2, <2>1, <2>2, <2>3
  <2> QED BY <2>4 DEF tab, q
<1>7. Updates(m, r, p, Slot(k, v))
  BY <1>2, <1>3, <1>5, <1>6 DEF Updates, Typed
<1>8. \A q : ~Holds(m, q, k)
  BY HeldIsFound
<1>9. GoodTable(r)
  <2>1. Updates(m, r, Pos(m, k, a), Slot(k, v)) /\ KeyAt(m, Pos(m, k, a)) \in {NULL, SENTINEL}
    BY <1>1, <1>7 DEF p
  <2> QED BY <1>1, <1>6, <1>8, <2>1, AddKeeps
<1>10. p \notin FilledSlots(m)
  <2>1. Filled(m, p) => KeyAt(m, p) # NULL /\ KeyAt(m, p) # SENTINEL
    BY <1>2, <1>3, SlotType
  <2> QED BY <1>1, <2>1 DEF FilledSlots
<1> QED BY <1>6, <1>7, <1>9, <1>10 DEF r, p, a

(* The new table is larger than the old one. *)
LEMMA Grows ==
    ASSUME NEW m, m.alloc \in Nat
    PROVE  NewAlloc(m) \in Nat /\ NewAlloc(m) > m.alloc
<1> DEFINE x == m.alloc + 1
           larger == {n \in Sizes : n >= x}
           y == x + x \div 2
<1>1. x \in Nat /\ x > m.alloc
  OBVIOUS
<1>2. NewAlloc(m) = IF larger # {} THEN Min(larger) ELSE IF y % 2 = 0 THEN y + 1 ELSE y
  BY DEF NewAlloc, AllocAtLeast
<1> HIDE DEF x
<1>3. larger \subseteq Nat
  BY MpMapAssumption
<1>4. larger # {} => Min(larger) \in larger
  BY <1>3, MinOf
<1>5. larger # {} => Min(larger) \in Nat /\ Min(larger) >= x
  BY <1>3, <1>4
<1>6. y \in Nat /\ y >= x
  BY <1>1
<1> HIDE DEF larger, y
<1> QED BY <1>1, <1>2, <1>5, <1>6

-----------------------------------------------------------------------------
(* Rehashing. The recursive function moved of Rehash(m) is a sequence of    *)
(* moves, which exists for every table.                                     *)

MoveStep(m, g, p) ==
    IF Filled(m, p) THEN Put(g, m.table[p].key, m.table[p].value) ELSE g

Moves(m, n, g) ==
    /\ g = [p \in 0..n |-> g[p]]
    /\ g[0] = Empty(NewAlloc(m))
    /\ \A p \in 1..n : g[p] = MoveStep(m, g[p - 1], p - 1)

(* The first n moves exist, by induction on n; *)
LEMMA MovesExist ==
    ASSUME NEW m
    PROVE  \A n \in Nat : \E g : Moves(m, n, g)
<1> DEFINE T == {n \in Nat : ~\E g : Moves(m, n, g)}
<1> SUFFICES ASSUME T # {} PROVE FALSE
  OBVIOUS
<1>1. PICK n \in T : \A l \in T : n <= l
  BY LeastNat
<1>2. n \in Nat /\ n # 0
  <2>1. Moves(m, 0, [p \in 0..0 |-> Empty(NewAlloc(m))])
    BY DEF Moves
  <2> QED BY <2>1
<1>3. n - 1 \in Nat /\ n - 1 \notin T
  BY <1>1, <1>2
<1>4. PICK g : Moves(m, n - 1, g)
  BY <1>3
<1> DEFINE h == [p \in 0..n |-> IF p = n THEN MoveStep(m, g[n - 1], n - 1) ELSE g[p]]
<1>5. h[0] = Empty(NewAlloc(m)) /\ h = [p \in 0..n |-> h[p]]
  BY <1>2, <1>4 DEF Moves
<1>6. ASSUME NEW p \in 1..n PROVE h[p] = MoveStep(m, h[p - 1], p - 1)
  <2>1. h[n] = MoveStep(m, g[n - 1], n - 1) /\ \A j \in 0..(n - 1) : h[j] = g[j]
    BY <1>2
  <2>2. p - 1 \in 0..(n - 1) /\ p \in 0..n /\ (p # n => p \in 1..(n - 1) /\ p \in 0..(n - 1))
    BY <1>2
  <2> HIDE DEF h
  <2>3. p # n => g[p] = MoveStep(m, g[p - 1], p - 1)
    BY <1>4, <2>2 DEF Moves
  <2> QED BY <2>1, <2>2, <2>3
<1>7. Moves(m, n, h)
  BY <1>5, <1>6 DEF Moves
<1> QED BY <1>7

(* and Rehash(m) is the table after the last one. *)
LEMMA RehashMoves ==
    ASSUME NEW m, m.alloc \in Nat
    PROVE  \E g : Moves(m, m.alloc, g) /\ Rehash(m) = g[m.alloc]
<1> DEFINE n == m.alloc
           G(g) == g = [p \in 0..n |->
                          IF p = 0 THEN Empty(NewAlloc(m))
                          ELSE IF Filled(m, p - 1)
                               THEN Put(g[p - 1], m.table[p - 1].key, m.table[p - 1].value)
                               ELSE g[p - 1]]
           s == CHOOSE g : G(g)
<1>1. PICK g : Moves(m, n, g)
  BY MovesExist
<1>2. G(g)
  <2> DEFINE u == [p \in 0..n |->
                     IF p = 0 THEN Empty(NewAlloc(m))
                     ELSE IF Filled(m, p - 1)
                          THEN Put(g[p - 1], m.table[p - 1].key, m.table[p - 1].value)
                          ELSE g[p - 1]]
  <2>1. ASSUME NEW p \in 0..n PROVE g[p] = u[p]
    <3>1. CASE p = 0
      BY <1>1, <3>1 DEF Moves
    <3>2. CASE p # 0
      <4>1. p \in 1..n
        BY <3>2
      <4>2. g[p] = MoveStep(m, g[p - 1], p - 1)
        BY <1>1, <4>1 DEF Moves
      <4> QED BY <3>2, <4>2 DEF MoveStep
    <3> QED BY <3>1, <3>2
  <2>2. g = [p \in 0..n |-> g[p]] /\ u = [p \in 0..n |-> u[p]]
    BY <1>1 DEF Moves
  <2> HIDE DEF u
  <2>3. g = u
    BY <2>1, <2>2
  <2> QED BY <2>3 DEF u
<1>3. G(s)
  BY <1>2
<1>4. Rehash(m) = s[n]
  BY DEF Rehash
<1> HIDE DEF s
<1>5. Moves(m, n, s)
  <2>1. s[0] = Empty(NewAlloc(m)) /\ s = [p \in 0..n |-> s[p]]
    BY <1>3
  <2>2. ASSUME NEW p \in 1..n PROVE s[p] = MoveStep(m, s[p - 1], p - 1)
    <3>1. p \in 0..n /\ p # 0
      OBVIOUS
    <3> QED BY <1>3, <3>1 DEF MoveStep
  <2> QED BY <2>1, <2>2 DEF Moves
<1> QED BY <1>4, <1>5

-----------------------------------------------------------------------------
(* What a table says *)

(* Key c has the value v *)
Has(m, c, v) == \E p \in FilledSlots(m) : Class[KeyAt(m, p)] = c /\ m.table[p].value = v

(* A free slot that is filled adds an item. *)
LEMMA AddHas ==
    ASSUME NEW m, NEW r, NEW p, NEW s, Updates(m, r, p, s),
           p \notin FilledSlots(m), s.key \in Objects
    PROVE  \A c, v : Has(r, c, v) <=> Has(m, c, v) \/ (c = Class[s.key] /\ v = s.value)
<1>1. /\ r.table[p] = s /\ KeyAt(r, p) = s.key /\ p \in FilledSlots(r)
      /\ \A q \in 0..m.alloc - 1 :
           q # p => /\ r.table[q] = m.table[q] /\ KeyAt(r, q) = KeyAt(m, q)
                    /\ q \in FilledSlots(r) <=> q \in FilledSlots(m)
      /\ FilledSlots(r) \subseteq 0..m.alloc - 1
      /\ FilledSlots(m) \subseteq 0..m.alloc - 1
  BY UpdatedSlots
<1> QED BY <1>1 DEF Has

(* A filled slot that is freed removes its key. *)
LEMMA DropHas ==
    ASSUME NEW m, NEW r, NEW p, NEW s, Updates(m, r, p, s), Unique(m),
           p \in FilledSlots(m), s.key \notin Objects
    PROVE  \A c, v : Has(r, c, v) <=> Has(m, c, v) /\ c # Class[KeyAt(m, p)]
<1>1. /\ p \notin FilledSlots(r)
      /\ \A q \in 0..m.alloc - 1 :
           q # p => /\ r.table[q] = m.table[q] /\ KeyAt(r, q) = KeyAt(m, q)
                    /\ q \in FilledSlots(r) <=> q \in FilledSlots(m)
      /\ FilledSlots(r) \subseteq 0..m.alloc - 1
      /\ FilledSlots(m) \subseteq 0..m.alloc - 1
  BY UpdatedSlots
<1>2. ASSUME NEW c, NEW v, Has(r, c, v) PROVE Has(m, c, v) /\ c # Class[KeyAt(m, p)]
  <2>1. PICK q \in FilledSlots(r) : Class[KeyAt(r, q)] = c /\ r.table[q].value = v
    BY <1>2 DEF Has
  <2>2. q # p /\ q \in FilledSlots(m) /\ KeyAt(r, q) = KeyAt(m, q) /\ r.table[q] = m.table[q]
    BY <1>1
  <2> QED BY <2>1, <2>2 DEF Has, Unique
<1>3. ASSUME NEW c, NEW v, Has(m, c, v), c # Class[KeyAt(m, p)] PROVE Has(r, c, v)
  <2>1. PICK q \in FilledSlots(m) : Class[KeyAt(m, q)] = c /\ m.table[q].value = v
    BY <1>3 DEF Has
  <2>2. q # p /\ q \in FilledSlots(r) /\ KeyAt(r, q) = KeyAt(m, q) /\ r.table[q] = m.table[q]
    BY <1>1, <1>3, <2>1
  <2> QED BY <2>1, <2>2 DEF Has
<1> QED BY <1>2, <1>3

(* A slot that keeps its key changes the value of the key. *)
LEMMA ChangeHas ==
    ASSUME NEW m, NEW r, NEW p, NEW s, Updates(m, r, p, s), Unique(m),
           p \in FilledSlots(m), s.key = KeyAt(m, p)
    PROVE  \A c, v : Has(r, c, v) <=> IF c = Class[KeyAt(m, p)] THEN v = s.value ELSE Has(m, c, v)
<1>0. KeyAt(m, p) \in Objects
  BY SlotType DEF Updates, FilledSlots
<1>1. /\ r.table[p] = s /\ KeyAt(r, p) = KeyAt(m, p) /\ p \in FilledSlots(r)
      /\ \A q \in 0..m.alloc - 1 :
           q # p => /\ r.table[q] = m.table[q] /\ KeyAt(r, q) = KeyAt(m, q)
                    /\ q \in FilledSlots(r) <=> q \in FilledSlots(m)
      /\ FilledSlots(r) \subseteq 0..m.alloc - 1
      /\ FilledSlots(m) \subseteq 0..m.alloc - 1
  BY <1>0, UpdatedSlots
<1>2. ASSUME NEW c, NEW v, c # Class[KeyAt(m, p)] PROVE Has(r, c, v) <=> Has(m, c, v)
  BY <1>1, <1>2 DEF Has
<1>3. ASSUME NEW v PROVE Has(r, Class[KeyAt(m, p)], v) <=> v = s.value
  <2>1. ASSUME NEW q \in FilledSlots(r), Class[KeyAt(r, q)] = Class[KeyAt(m, p)] PROVE q = p
    BY <1>1, <2>1 DEF Unique
  <2> QED BY <1>1, <2>1 DEF Has
<1> QED BY <1>2, <1>3

-----------------------------------------------------------------------------
(* The first n slots of m are in g *)

HasBelow(m, n, c, v) ==
    \E p \in FilledSlots(m) : p < n /\ Class[KeyAt(m, p)] = c /\ m.table[p].value = v

Moved(m, n, g) ==
    /\ GoodTable(g) /\ g.alloc = NewAlloc(m) /\ g.used <= n
    /\ \A c, v : Has(g, c, v) <=> HasBelow(m, n, c, v)

(* One slot is moved: its key is not in the new table yet, which has room. *)
LEMMA MoveKeeps ==
    ASSUME NEW m, GoodTable(m), NEW n \in 0..m.alloc - 1, NEW g, Moved(m, n, g)
    PROVE  Moved(m, n + 1, MoveStep(m, g, n))
<1> DEFINE r == MoveStep(m, g, n)
           k == KeyAt(m, n)
           v == m.table[n].value
<1>1. /\ Typed(m) /\ Unique(m) /\ m.alloc \in Nat /\ n \in Nat /\ n < m.alloc
      /\ GoodTable(g) /\ g.alloc = NewAlloc(m) /\ g.used <= n /\ g.used \in Int
      /\ FilledSlots(m) \subseteq Nat
  BY DEF GoodTable, Typed, Moved, FilledSlots
<1>2. CASE ~Filled(m, n)
  <2>1. r = g
    BY <1>2 DEF MoveStep
  <2>2. n \notin FilledSlots(m)
    BY <1>2 DEF FilledSlots
  <2>3. ASSUME NEW c, NEW w PROVE HasBelow(m, n + 1, c, w) <=> HasBelow(m, n, c, w)
    <3>1. \A p \in FilledSlots(m) : p < n + 1 <=> p < n
      BY <1>1, <2>2
    <3> QED BY <3>1 DEF HasBelow
  <2>4. g.used <= n + 1
    BY <1>1
  <2> QED BY <1>1, <2>1, <2>3, <2>4 DEF Moved
<1>3. CASE Filled(m, n)
  <2>1. r = Put(g, k, v) /\ k \in Objects /\ v \in Values \cup {"in", NULL} /\ n \in FilledSlots(m)
    BY <1>1, <1>3, SlotType DEF MoveStep, KeyAt, FilledSlots
  <2> HIDE DEF r, k, v
  <2>2. ~Found(g, k)
    <3> SUFFICES ASSUME Found(g, k) PROVE FALSE
      OBVIOUS
    <3>1. Holds(g, At(g, k), k)
      BY <1>1, <2>1, FoundIsHeld
    <3>2. Has(g, Class[k], g.table[At(g, k)].value)
      BY <3>1 DEF Has, Holds
    <3>3. PICK p \in FilledSlots(m) : p < n /\ Class[KeyAt(m, p)] = Class[k]
      BY <3>2 DEF Moved, HasBelow
    <3>4. p = n
      BY <1>1, <2>1, <3>3 DEF Unique, k
    <3> QED BY <1>1, <3>3, <3>4
  <2>3. Avail(g, k) # {}
    <3> SUFFICES ASSUME Avail(g, k) = {} PROVE FALSE
      OBVIOUS
    <3>1. g.used = g.alloc
      BY <1>1, <2>1, NoPlace
    <3>2. NewAlloc(m) \in Nat /\ NewAlloc(m) > m.alloc
      BY <1>1, Grows
    <3> QED BY <1>1, <3>1, <3>2
  <2> DEFINE p == Pos(g, k, Min(Avail(g, k)))
  <2>4. /\ GoodTable(r) /\ r.alloc = g.alloc /\ r.used = g.used + 1
        /\ Updates(g, r, p, Slot(k, v)) /\ p \notin FilledSlots(g)
    BY <1>1, <2>1, <2>2, <2>3, PutGood
  <2>5. Slot(k, v).key = k /\ Slot(k, v).value = v
    BY DEF Slot
  <2> HIDE DEF p
  <2>6. \A c, w : Has(r, c, w) <=> Has(g, c, w) \/ (c = Class[k] /\ w = v)
    BY <2>1, <2>4, <2>5, AddHas
  <2>7. ASSUME NEW c, NEW w
        PROVE  HasBelow(m, n + 1, c, w) <=> HasBelow(m, n, c, w) \/ (c = Class[k] /\ w = v)
    <3>1. \A q \in FilledSlots(m) : q < n + 1 <=> q < n \/ q = n
      BY <1>1
    <3> QED BY <2>1, <3>1 DEF HasBelow, k, v
  <2>8. r.used <= n + 1
    BY <1>1, <2>4
  <2> QED BY <1>1, <2>4, <2>6, <2>7, <2>8 DEF Moved, r
<1> QED BY <1>2, <1>3

(* The new table says what the old one said, and has room for another key. *)
LEMMA RehashGood ==
    ASSUME NEW m, GoodTable(m)
    PROVE  LET r == Rehash(m)
           IN  /\ GoodTable(r) /\ r.used < r.alloc
               /\ \A c, v : Has(r, c, v) <=> Has(m, c, v)
<1>1. m.alloc \in Nat /\ FilledSlots(m) \subseteq 0..m.alloc - 1
  BY DEF GoodTable, Typed, FilledSlots
<1>2. PICK g : Moves(m, m.alloc, g) /\ Rehash(m) = g[m.alloc]
  BY <1>1, RehashMoves
<1>3. NewAlloc(m) \in Nat /\ NewAlloc(m) > m.alloc
  BY <1>1, Grows
<1> DEFINE T == {n \in 0..m.alloc : ~Moved(m, n, g[n])}
<1>4. T = {}
  <2> SUFFICES ASSUME T # {} PROVE FALSE
    OBVIOUS
  <2>1. T \subseteq Nat
    BY <1>1
  <2>2. PICK n \in T : \A l \in T : n <= l
    BY <2>1, LeastNat
  <2>3. n # 0
    <3>1. g[0] = Empty(NewAlloc(m))
      BY <1>2 DEF Moves
    <3>2. /\ GoodTable(g[0]) /\ g[0].alloc = NewAlloc(m) /\ g[0].used = 0
          /\ FilledSlots(g[0]) = {}
      BY <1>3, <3>1, EmptyGood
    <3>3. ASSUME NEW c, NEW v PROVE ~Has(g[0], c, v) /\ ~HasBelow(m, 0, c, v)
      BY <1>1, <3>2 DEF Has, HasBelow
    <3>4. Moved(m, 0, g[0])
      BY <3>2, <3>3 DEF Moved
    <3> QED BY <3>4
  <2>4. n - 1 \in 0..m.alloc - 1 /\ n \in 1..m.alloc /\ n - 1 \in 0..m.alloc /\ (n - 1) + 1 = n
    BY <1>1, <2>3
  <2>5. Moved(m, n - 1, g[n - 1])
    BY <1>1, <2>2, <2>4
  <2>6. g[n] = MoveStep(m, g[n - 1], n - 1)
    BY <1>2, <2>4 DEF Moves
  <2>7. Moved(m, n, g[n])
    BY <2>4, <2>5, <2>6, MoveKeeps
  <2> QED BY <2>7
<1>5. Moved(m, m.alloc, g[m.alloc])
  BY <1>1, <1>4
<1>6. ASSUME NEW c, NEW v PROVE HasBelow(m, m.alloc, c, v) <=> Has(m, c, v)
  <2>1. \A p \in FilledSlots(m) : p < m.alloc
    BY <1>1
  <2> QED BY <2>1 DEF HasBelow, Has
<1> DEFINE r == Rehash(m)
<1>7. GoodTable(r) /\ r.alloc = NewAlloc(m) /\ r.used <= m.alloc /\ r.used \in Int
  BY <1>2, <1>5 DEF Moved, GoodTable, Typed
<1>8. r.used < r.alloc
  BY <1>1, <1>3, <1>7
<1>9. \A c, v : Has(r, c, v) <=> Has(m, c, v)
  BY <1>2, <1>5, <1>6 DEF Moved
<1> QED BY <1>7, <1>8, <1>9

-----------------------------------------------------------------------------
(* The operations on a table *)

(* A search finds the keys that the table says it has, and their values. *)
LEMMA HasFound ==
    ASSUME NEW m, GoodTable(m), NEW k \in Objects
    PROVE  /\ \A v : Has(m, Class[k], v) => /\ Found(m, k) /\ ~Shortcut(m, k)
                                            /\ m.table[At(m, k)].value = v
           /\ Found(m, k) => /\ At(m, k) \in FilledSlots(m)
                             /\ Class[KeyAt(m, At(m, k))] = Class[k]
                             /\ Has(m, Class[k], m.table[At(m, k)].value)
<1>1. ASSUME NEW v, Has(m, Class[k], v)
      PROVE  Found(m, k) /\ ~Shortcut(m, k) /\ m.table[At(m, k)].value = v
  <2>1. PICK p \in FilledSlots(m) : Class[KeyAt(m, p)] = Class[k] /\ m.table[p].value = v
    BY <1>1 DEF Has
  <2>2. Holds(m, p, k)
    BY <2>1 DEF Holds
  <2> QED BY <2>1, <2>2, HeldIsFound
<1>2. ASSUME Found(m, k)
      PROVE  /\ At(m, k) \in FilledSlots(m) /\ Class[KeyAt(m, At(m, k))] = Class[k]
             /\ Has(m, Class[k], m.table[At(m, k)].value)
  <2>1. Holds(m, At(m, k), k)
    BY <1>2, FoundIsHeld
  <2> QED BY <2>1 DEF Holds, Has
<1> QED BY <1>1, <1>2

(* MP_MAP_LOOKUP_ADD_IF_NOT_FOUND of a missing key adds it. *)
LEMMA AddedGood ==
    ASSUME NEW m, GoodTable(m), NEW k \in Objects, NEW v \in Values \cup {"in", NULL},
           ~Found(m, k)
    PROVE  LET r == Added(m, k, v)
           IN  /\ GoodTable(r)
               /\ \A c, w : Has(r, c, w) <=> Has(m, c, w) \/ (c = Class[k] /\ w = v)
<1>1. ASSUME NEW g, GoodTable(g), ~Found(g, k), Avail(g, k) # {}
      PROVE  /\ GoodTable(Put(g, k, v))
             /\ \A c, w : Has(Put(g, k, v), c, w) <=> Has(g, c, w) \/ (c = Class[k] /\ w = v)
  <2> DEFINE p == Pos(g, k, Min(Avail(g, k)))
             r == Put(g, k, v)
  <2>1. GoodTable(r) /\ Updates(g, r, p, Slot(k, v)) /\ p \notin FilledSlots(g)
    BY <1>1, PutGood
  <2>2. Slot(k, v).key = k /\ Slot(k, v).value = v
    BY DEF Slot
  <2> HIDE DEF p, r
  <2>3. \A c, w : Has(r, c, w) <=> Has(g, c, w) \/ (c = Class[k] /\ w = v)
    BY <2>1, <2>2, AddHas
  <2> QED BY <2>1, <2>3 DEF r
<1>2. CASE Avail(m, k) # {}
  <2>1. Added(m, k, v) = Put(m, k, v)
    BY <1>2 DEF Added
  <2> QED BY <1>1, <1>2, <2>1
<1>3. CASE Avail(m, k) = {}
  <2> DEFINE g == Rehash(m)
  <2>1. Added(m, k, v) = Put(g, k, v)
    BY <1>3 DEF Added
  <2>2. GoodTable(g) /\ g.used < g.alloc /\ \A c, w : Has(g, c, w) <=> Has(m, c, w)
    BY RehashGood
  <2> HIDE DEF g
  <2>3. ~Found(g, k)
    <3> SUFFICES ASSUME Found(g, k) PROVE FALSE
      OBVIOUS
    <3>1. Has(g, Class[k], g.table[At(g, k)].value)
      BY <2>2, HasFound
    <3>2. Has(m, Class[k], g.table[At(g, k)].value)
      BY <2>2, <3>1
    <3> QED BY <3>2, HasFound
  <2>4. Avail(g, k) # {}
    <3>1. g.alloc \in Nat /\ g.used \in Int
      BY <2>2 DEF GoodTable, Typed
    <3> QED BY <2>2, <3>1, NoPlace
  <2>5. /\ GoodTable(Put(g, k, v))
        /\ \A c, w : Has(Put(g, k, v), c, w) <=> Has(g, c, w) \/ (c = Class[k] /\ w = v)
    BY <1>1, <2>2, <2>3, <2>4
  <2> QED BY <2>1, <2>2, <2>5
<1> QED BY <1>2, <1>3

(* A slot is freed. *)
FreedSlot(m, p, s) == [m EXCEPT !.table[p] = s, !.used = @ - 1]

(* The other keys are still found. *)
LEMMA FreedGood ==
    ASSUME NEW m, GoodTable(m), NEW p \in FilledSlots(m), NEW s \in SlotSet,
           s.key \in {NULL, SENTINEL},
           s.key = NULL => KeyAt(m, (p + 1) % m.alloc) = NULL
    PROVE  LET r == FreedSlot(m, p, s)
           IN  /\ GoodTable(r)
               /\ \A c, w : Has(r, c, w) <=> Has(m, c, w) /\ c # Class[KeyAt(m, p)]
<1> DEFINE r == FreedSlot(m, p, s)
<1>1. /\ Typed(m) /\ Unique(m) /\ p \in 0..m.alloc - 1
      /\ m \in [table: [0..m.alloc - 1 -> SlotSet], alloc: Nat, used: Int, qstrs: BOOLEAN]
  BY DEF GoodTable, Typed, FilledSlots
<1>2. /\ r.table = [m.table EXCEPT ![p] = s] /\ r.alloc = m.alloc
      /\ r.used = m.used - 1 /\ r.qstrs = m.qstrs
      /\ r \in [table: [0..m.alloc - 1 -> SlotSet], alloc: Nat, used: Int, qstrs: BOOLEAN]
  <2> DEFINE tab == [m.table EXCEPT ![p] = s]
  <2>1. tab \in [0..m.alloc - 1 -> SlotSet] /\ m.used - 1 \in Int
    BY <1>1
  <2>2. r = [m EXCEPT !.table = tab, !.used = @ - 1]
    BY <1>1 DEF FreedSlot
  <2> HIDE DEF tab, r
  <2>3. /\ r.table = tab /\ r.alloc = m.alloc /\ r.used = m.used - 1 /\ r.qstrs = m.qstrs
        /\ r \in [table: [0..m.alloc - 1 -> SlotSet], alloc: Nat, used: Int, qstrs: BOOLEAN]
    BY <1>1, <2>1, <2>2
  <2> QED BY <2>3 DEF tab
<1> HIDE DEF r
<1>3. Updates(m, r, p, s)
  BY <1>1, <1>2 DEF Updates, Typed
<1>4. GoodTable(r)
  BY <1>2, <1>3, DeleteKeeps
<1>5. s.key \notin Objects
  BY MpMapAssumption
<1>6. \A c, w : Has(r, c, w) <=> Has(m, c, w) /\ c # Class[KeyAt(m, p)]
  BY <1>1, <1>3, <1>5, DropHas
<1> QED BY <1>4, <1>6 DEF r

(* MP_MAP_LOOKUP_REMOVE_IF_FOUND removes the key. *)
LEMMA RemoveGood ==
    ASSUME NEW m, GoodTable(m), NEW p \in FilledSlots(m)
    PROVE  /\ GoodTable(Remove(m, p))
           /\ \A c, w : Has(Remove(m, p), c, w) <=> Has(m, c, w) /\ c # Class[KeyAt(m, p)]
<1> DEFINE s == Deleted(m, p)
<1>1. /\ s \in SlotSet /\ s.key \in {NULL, SENTINEL}
      /\ s.key = NULL => KeyAt(m, (p + 1) % m.alloc) = NULL
  <2>1. NULL # SENTINEL
    BY DEF NULL, SENTINEL
  <2> QED BY <2>1 DEF Deleted, Slot, SlotSet, KeyAt
<1>2. Remove(m, p) = FreedSlot(m, p, s)
  BY DEF Remove, FreedSlot
<1> HIDE DEF s
<1> QED BY <1>1, <1>2, FreedGood

(* dict_popitem() removes the key. *)
LEMMA PopGood ==
    ASSUME NEW m, GoodTable(m), NEW p \in FilledSlots(m)
    PROVE  LET r == [m EXCEPT !.table[p] = Slot(SENTINEL, NULL), !.used = @ - 1]
           IN  /\ GoodTable(r)
               /\ \A c, w : Has(r, c, w) <=> Has(m, c, w) /\ c # Class[KeyAt(m, p)]
<1> DEFINE s == Slot(SENTINEL, NULL)
<1>1. s \in SlotSet /\ s.key = SENTINEL /\ SENTINEL # NULL
  BY DEF Slot, SlotSet, NULL, SENTINEL
<1>2. [m EXCEPT !.table[p] = s, !.used = @ - 1] = FreedSlot(m, p, s)
  BY DEF FreedSlot
<1> HIDE DEF s
<1>3. /\ GoodTable(FreedSlot(m, p, s))
      /\ \A c, w : Has(FreedSlot(m, p, s), c, w) <=> Has(m, c, w) /\ c # Class[KeyAt(m, p)]
  BY <1>1, FreedGood
<1> QED BY <1>2, <1>3 DEF s

(* A store to a key that is there changes its value. *)
LEMMA ValueGood ==
    ASSUME NEW m, GoodTable(m), NEW p \in FilledSlots(m), NEW v \in Values \cup {"in", NULL}
    PROVE  LET r == [m EXCEPT !.table[p].value = v]
           IN  /\ GoodTable(r)
               /\ \A c, w : Has(r, c, w) <=>
                    IF c = Class[KeyAt(m, p)] THEN w = v ELSE Has(m, c, w)
<1> DEFINE r == [m EXCEPT !.table[p].value = v]
           s == Slot(KeyAt(m, p), v)
<1>1. /\ Typed(m) /\ Unique(m) /\ p \in 0..m.alloc - 1
      /\ m \in [table: [0..m.alloc - 1 -> SlotSet], alloc: Nat, used: Int, qstrs: BOOLEAN]
  BY DEF GoodTable, Typed, FilledSlots
<1>2. s \in SlotSet /\ s.key = KeyAt(m, p) /\ s.value = v
  BY <1>1, SlotType DEF Slot, SlotSet
<1>3. m.table[p] \in SlotSet
  BY <1>1, SlotType
<1>4. [m.table[p] EXCEPT !.value = v] = s
  BY <1>3 DEF SlotSet, Slot, KeyAt
<1>5. /\ r.table = [m.table EXCEPT ![p] = s] /\ r.alloc = m.alloc
      /\ r.used = m.used /\ r.qstrs = m.qstrs
      /\ r \in [table: [0..m.alloc - 1 -> SlotSet], alloc: Nat, used: Int, qstrs: BOOLEAN]
  <2> DEFINE tab == [m.table EXCEPT ![p] = s]
  <2> HIDE DEF s
  <2>1. tab \in [0..m.alloc - 1 -> SlotSet]
    BY <1>1, <1>2
  <2>2. tab = [m.table EXCEPT ![p].value = v]
    BY <1>4
  <2>3. r = [m EXCEPT !.table = tab]
    BY <2>2
  <2> HIDE DEF tab, r
  <2>4. /\ r.table = tab /\ r.alloc = m.alloc /\ r.used = m.used /\ r.qstrs = m.qstrs
        /\ r \in [table: [0..m.alloc - 1 -> SlotSet], alloc: Nat, used: Int, qstrs: BOOLEAN]
    BY <1>1, <2>1, <2>3
  <2> QED BY <2>4 DEF tab
<1> HIDE DEF r
<1>6. Updates(m, r, p, s)
  BY <1>1, <1>2, <1>5 DEF Updates, Typed
<1>7. GoodTable(r)
  BY <1>5, <1>6, ValueKeeps
<1> HIDE DEF s
<1>8. \A c, w : Has(r, c, w) <=> IF c = Class[KeyAt(m, p)] THEN w = s.value ELSE Has(m, c, w)
  BY <1>1, <1>2, <1>6, ChangeHas
<1> QED BY <1>2, <1>7, <1>8 DEF r

(* The first key of a table that has one *)
LEMMA FirstGood ==
    ASSUME NEW m, GoodTable(m), FilledSlots(m) # {}
    PROVE  FirstFilled(m) \in FilledSlots(m)
<1>1. FilledSlots(m) \subseteq Nat
  BY DEF GoodTable, Typed, FilledSlots
<1>2. FirstFilled(m) = Min(FilledSlots(m))
  BY DEF FirstFilled, FilledSlots
<1> QED BY <1>1, <1>2, MinOf

-----------------------------------------------------------------------------
(* The inductive invariant *)

(* A table that has as many slots as it says is in order, and that of a    *)
(* dict always has                                                         *)
IInv ==
    /\ ~Broken => GoodTable(t)
    /\ kind = "map" => ~Broken
    /\ kind \in {"map", "set"}

(* A table in order has as many slots as it says. *)
LEMMA GoodWhole ==
    ASSUME NEW m, GoodTable(m) PROVE m.alloc = Cardinality(DOMAIN m.table)
<1>1. m.alloc \in Nat /\ DOMAIN m.table = 0..m.alloc - 1
  BY DEF GoodTable, Typed
<1>2. Cardinality(0..m.alloc - 1) = m.alloc
  BY <1>1, FS_Interval
<1> QED BY <1>1, <1>2

(* What an operation does to the table: key c gets the value v; key c goes *)
(* away; or no slot is changed, and only a set may be left broken.         *)
Sets(c, v) ==
    /\ GoodTable(t')
    /\ \A d, w : Has(t', d, w) <=> IF d = c THEN w = v ELSE Has(t, d, w)

Drops(c) ==
    /\ GoodTable(t')
    /\ \A d, w : Has(t', d, w) <=> d # c /\ Has(t, d, w)

Fails(k) ==
    /\ ~Found(t, k) /\ t'.table = t.table /\ ret' = Answer("MemoryError")
    /\ ~Broken' => GoodTable(t')
    /\ kind = "map" => ~Broken'

(* When memory runs out the old table is still there. *)
LEMMA NoMemoryFails ==
    ASSUME ~Broken, GoodTable(t), NEW k, ~Found(t, k), NoMemory
    PROVE  Fails(k)
<1>1. t.alloc = Cardinality(DOMAIN t.table)
  BY DEF Broken
<1>2. t.alloc \in Nat /\ t' = RehashFails(t) /\ ret' = Answer("MemoryError")
  BY DEF GoodTable, Typed, NoMemory
<1>3. CASE kind = "map"
  <2>1. t' = t
    BY <1>2, <1>3 DEF RehashFails
  <2> QED BY <1>2, <2>1 DEF Fails, Broken
<1>4. CASE kind # "map"
  <2>1. t' = [t EXCEPT !.alloc = NewAlloc(t), !.used = 0]
    BY <1>2, <1>4 DEF RehashFails
  <2>2. t'.table = t.table /\ t'.alloc = NewAlloc(t)
    BY <2>1 DEF GoodTable, Typed
  <2>3. NewAlloc(t) \in Nat /\ NewAlloc(t) > t.alloc
    BY <1>2, Grows
  <2>4. Broken'
    BY <1>1, <1>2, <2>2, <2>3 DEF Broken
  <2> QED BY <1>2, <1>4, <2>2, <2>4 DEF Fails
<1> QED BY <1>3, <1>4

(* A missing key is added. *)
LEMMA AddSets ==
    ASSUME GoodTable(t), NEW k \in Objects, NEW v \in Values \cup {"in"},
           ~Found(t, k), t' = Added(t, k, v)
    PROVE  Sets(Class[k], v)
<1>1. /\ GoodTable(t')
      /\ \A c, w : Has(t', c, w) <=> Has(t, c, w) \/ (c = Class[k] /\ w = v)
  BY AddedGood
<1>2. \A w : ~Has(t, Class[k], w)
  BY HasFound
<1> QED BY <1>1, <1>2 DEF Sets

(* mp_obj_dict_store(), set_add() *)
LEMMA StoreEffect ==
    ASSUME ~Broken, GoodTable(t), NEW k \in Objects, NEW v \in Values \cup {"in"}, Store(k, v)
    PROVE  (Sets(Class[k], v) /\ ret' = Answer("ok")) \/ Fails(k)
<1>1. CASE Found(t, k)
  <2>1. t' = [t EXCEPT !.table[At(t, k)].value = v] /\ ret' = Answer("ok")
    BY <1>1 DEF Store
  <2>2. At(t, k) \in FilledSlots(t) /\ Class[KeyAt(t, At(t, k))] = Class[k]
    BY <1>1, HasFound
  <2>3. /\ GoodTable(t')
        /\ \A c, w : Has(t', c, w) <=>
             IF c = Class[KeyAt(t, At(t, k))] THEN w = v ELSE Has(t, c, w)
    BY <2>1, <2>2, ValueGood
  <2> QED BY <2>1, <2>2, <2>3 DEF Sets
<1>2. CASE ~Found(t, k)
  <2>1. \/ t' = Added(t, k, v) /\ ret' = Answer("ok")
        \/ NoMemory
    BY <1>2 DEF Store
  <2> QED BY <1>2, <2>1, AddSets, NoMemoryFails
<1> QED BY <1>1, <1>2

(* dict_setdefault() *)
LEMMA SetDefaultEffect ==
    ASSUME ~Broken, GoodTable(t), NEW k \in Objects, NEW v \in Values \cup {"in"},
           SetDefault(k, v)
    PROVE  \/ /\ Found(t, k) /\ t' = t /\ ret' = Answer(t.table[At(t, k)].value)
           \/ ~Found(t, k) /\ Sets(Class[k], v) /\ ret' = Answer(v)
           \/ Fails(k)
<1>1. CASE Found(t, k)
  BY <1>1 DEF SetDefault
<1>2. CASE ~Found(t, k)
  <2>1. \/ t' = Added(t, k, v) /\ ret' = Answer(v)
        \/ NoMemory
    BY <1>2 DEF SetDefault
  <2> QED BY <1>2, <2>1, AddSets, NoMemoryFails
<1> QED BY <1>1, <1>2

(* dict_pop(), mp_obj_dict_delete(), set_remove(), set_discard() *)
LEMMA PopEffect ==
    ASSUME GoodTable(t), NEW k \in Objects, Pop(k)
    PROVE  \/ Found(t, k) /\ Drops(Class[k]) /\ ret' = Answer(t.table[At(t, k)].value)
           \/ (Shortcut(t, k) \/ ~Found(t, k)) /\ t' = t /\ ret' = Answer("KeyError")
<1>1. CASE ~Shortcut(t, k) /\ Found(t, k)
  <2>1. t' = Remove(t, At(t, k)) /\ ret' = Answer(t.table[At(t, k)].value)
    BY <1>1 DEF Pop
  <2>2. At(t, k) \in FilledSlots(t) /\ Class[KeyAt(t, At(t, k))] = Class[k]
    BY <1>1, HasFound
  <2>3. Drops(Class[k])
    BY <2>1, <2>2, RemoveGood DEF Drops
  <2> QED BY <1>1, <2>1, <2>3
<1>2. CASE ~(~Shortcut(t, k) /\ Found(t, k))
  BY <1>2 DEF Pop
<1> QED BY <1>1, <1>2

(* set_symmetric_difference_update() *)
LEMMA ToggleEffect ==
    ASSUME ~Broken, GoodTable(t), NEW k \in Objects, set_toggle(k)
    PROVE  \/ Found(t, k) /\ Drops(Class[k]) /\ ret' = Answer("ok")
           \/ ~Found(t, k) /\ Sets(Class[k], "in") /\ ret' = Answer("ok")
           \/ Fails(k)
<1>1. CASE Found(t, k)
  <2>1. t' = Remove(t, At(t, k)) /\ ret' = Answer("ok")
    BY <1>1 DEF set_toggle
  <2>2. At(t, k) \in FilledSlots(t) /\ Class[KeyAt(t, At(t, k))] = Class[k]
    BY <1>1, HasFound
  <2>3. Drops(Class[k])
    BY <2>1, <2>2, RemoveGood DEF Drops
  <2> QED BY <1>1, <2>1, <2>3
<1>2. CASE ~Found(t, k)
  <2>1. Store(k, "in")
    BY <1>2 DEF set_toggle
  <2> QED BY <1>2, <2>1, StoreEffect
<1> QED BY <1>1, <1>2

(* dict_popitem() and set_pop() take a key of the table, if there is one. *)
LEMMA PopItemEffect ==
    ASSUME GoodTable(t), dict_popitem \/ set_pop
    PROVE  \/ FilledSlots(t) = {} /\ t' = t /\ ret' = Answer("KeyError")
           \/ \E p \in FilledSlots(t) :
                /\ Drops(Class[KeyAt(t, p)])
                /\ ret' \in {Slot(Class[KeyAt(t, p)], t.table[p].value), Answer("MemoryError")}
<1>1. t.used = Cardinality(FilledSlots(t)) /\ IsFiniteSet(FilledSlots(t))
  BY FilledFinite DEF GoodTable, Counted
<1>2. t.used = 0 <=> FilledSlots(t) = {}
  BY <1>1, FS_EmptySet
<1>3. FilledSlots(t) = {} <=> \A p \in 0..t.alloc - 1 : ~Filled(t, p)
  BY DEF FilledSlots
<1> DEFINE p == FirstFilled(t)
<1>4. FilledSlots(t) # {} => p \in FilledSlots(t)
  BY FirstGood
<1>5. Item(t.table[p]) = Slot(Class[KeyAt(t, p)], t.table[p].value)
  BY DEF Item, KeyAt
<1>6. CASE FilledSlots(t) = {}
  BY <1>2, <1>3, <1>6 DEF dict_popitem, set_pop
<1>7. CASE FilledSlots(t) # {} /\ dict_popitem
  <2>1. /\ t' = [t EXCEPT !.table[p] = Slot(SENTINEL, NULL), !.used = @ - 1]
        /\ ret' \in {Item(t.table[p]), Answer("MemoryError")}
    BY <1>2, <1>7 DEF dict_popitem
  <2> HIDE DEF p
  <2>2. Drops(Class[KeyAt(t, p)])
    BY <1>4, <1>7, <2>1, PopGood DEF Drops
  <2> QED BY <1>4, <1>5, <1>7, <2>1, <2>2
<1>8. CASE FilledSlots(t) # {} /\ set_pop
  <2>1. t' = Remove(t, p) /\ ret' = Item(t.table[p])
    BY <1>3, <1>8 DEF set_pop
  <2> HIDE DEF p
  <2>2. Drops(Class[KeyAt(t, p)])
    BY <1>4, <1>8, <2>1, RemoveGood DEF Drops
  <2> QED BY <1>4, <1>5, <1>8, <2>1, <2>2
<1> QED BY <1>6, <1>7, <1>8

(* mp_map_clear(), mp_set_clear() *)
LEMMA ClearEffect == Clear => GoodTable(t') /\ FilledSlots(t') = {} /\ ret' = Answer("ok")
BY EmptyGood DEF Clear

-----------------------------------------------------------------------------

(* The invariant holds of a new table, *)
LEMMA InitIInv == Init => IInv
<1> SUFFICES ASSUME Init PROVE IInv
  OBVIOUS
<1>1. PICK n \in InitSizes : t = Empty(n)
  BY DEF Init
<1>2. GoodTable(t)
  BY <1>1, EmptyGood, MpMapAssumption
<1> QED BY <1>2, GoodWhole DEF Init, IInv, Broken

(* no operation makes a set of a dict, *)
LEMMA KindKept == [Next]_vars => kind' = kind
BY DEF Next, vars, Store, SetDefault, Get, Pop, set_toggle, dict_popitem, set_pop, Clear

(* every operation keeps it, *)
LEMMA StepIInv == IInv /\ [Next]_vars => IInv'
<1> SUFFICES ASSUME IInv, [Next]_vars PROVE IInv'
  OBVIOUS
<1>1. \A k \in Objects, v \in ValuesOf : v \in Values \cup {"in"}
  BY DEF ValuesOf
<1>2. kind' = kind /\ kind \in {"map", "set"}
  BY KindKept DEF IInv
<1>3. ASSUME GoodTable(t') PROVE IInv'
  BY <1>2, <1>3, GoodWhole DEF IInv, Broken
<1>4. ASSUME NEW k, Fails(k) PROVE IInv'
  BY <1>2, <1>4 DEF IInv, Fails
<1>5. ASSUME ~Broken PROVE GoodTable(t) /\ (t' = t => IInv')
  BY <1>3, <1>5 DEF IInv
<1>6. CASE Clear
  BY <1>3, <1>6, ClearEffect
<1>7. CASE UNCHANGED vars
  BY <1>7 DEF vars, IInv, Broken
<1>8. ASSUME ~Broken, NEW k \in Objects, NEW v \in ValuesOf, Store(k, v) PROVE IInv'
  BY <1>1, <1>3, <1>4, <1>5, <1>8, StoreEffect DEF Sets
<1>9. ASSUME ~Broken, NEW k \in Objects, NEW v \in ValuesOf, SetDefault(k, v) PROVE IInv'
  BY <1>1, <1>3, <1>4, <1>5, <1>9, SetDefaultEffect DEF Sets
<1>10. ASSUME ~Broken, NEW k \in Objects, Get(k) \/ Pop(k) \/ set_toggle(k) PROVE IInv'
  <2>1. CASE Get(k)
    BY <1>5, <1>10, <2>1 DEF Get
  <2>2. CASE Pop(k)
    BY <1>3, <1>5, <1>10, <2>2, PopEffect DEF Drops
  <2>3. CASE set_toggle(k)
    BY <1>3, <1>4, <1>5, <1>10, <2>3, ToggleEffect DEF Sets, Drops
  <2> QED BY <1>10, <2>1, <2>2, <2>3
<1>11. ASSUME ~Broken, dict_popitem \/ set_pop PROVE IInv'
  BY <1>3, <1>5, <1>11, PopItemEffect DEF Drops
<1> QED BY <1>6, <1>7, <1>8, <1>9, <1>10, <1>11 DEF Next

(* and so the table of a dict is in order, always, and that of a set until *)
(* it is broken.                                                           *)
THEOREM Invariance == Spec => []IInv
BY InitIInv, StepIInv, PTL DEF Spec

(* The slots of a table that is in order *)
LEMMA StoredSlots ==
    ASSUME GoodTable(t) PROVE Slots = 0..t.alloc - 1 /\ Stored = FilledSlots(t)
BY DEF GoodTable, Typed, Slots, Stored, FilledSlots

(***************************************************************************)
(* Every key that is stored is found, by every object that equals it, in   *)
(* tables of every size and for every hash function.                       *)
(***************************************************************************)
THEOREM KeysAreFound == Spec => []EveryKeyFound
<1>1. IInv => EveryKeyFound
  <2> SUFFICES ASSUME IInv, ~Broken, NEW p \in Stored, NEW k \in Objects,
                      Class[k] = Class[t.table[p].key]
               PROVE  ~Shortcut(t, k) /\ Found(t, k) /\ At(t, k) = p
    BY DEF EveryKeyFound
  <2>1. GoodTable(t)
    BY DEF IInv
  <2>2. Holds(t, p, k)
    BY <2>1, StoredSlots DEF Holds, KeyAt
  <2> QED BY <2>1, <2>2, HeldIsFound
<1> QED BY <1>1, Invariance, PTL

(***************************************************************************)
(* len() is the number of keys that are stored, and a dict never says that *)
(* it has more slots than its table, whenever growing failed.              *)
(***************************************************************************)
THEOREM LengthIsRight == Spec => []UsedCounts
<1>1. IInv => UsedCounts
  BY StoredSlots DEF IInv, UsedCounts, GoodTable, Counted
<1> QED BY <1>1, Invariance, PTL

-----------------------------------------------------------------------------
(* The refinement of Dict *)

(* The dict that the table represents *)
TheDict == [c \in {Class[t.table[p].key] : p \in Stored} |-> t.table[SlotOf(c)].value]

(* f is a function that says what m says *)
Means(m, f) ==
    /\ f = [c \in DOMAIN f |-> f[c]]
    /\ \A c, v : Has(m, c, v) <=> c \in DOMAIN f /\ f[c] = v

(* There is only one such function. *)
LEMMA OneMeaning ==
    ASSUME NEW m, NEW f, NEW g, Means(m, f), Means(m, g) PROVE f = g
<1>1. DOMAIN f = DOMAIN g
  <2>1. ASSUME NEW c \in DOMAIN f PROVE c \in DOMAIN g
    BY DEF Means
  <2>2. ASSUME NEW c \in DOMAIN g PROVE c \in DOMAIN f
    BY DEF Means
  <2> QED BY <2>1, <2>2
<1>2. \A c \in DOMAIN f : f[c] = g[c]
  BY DEF Means
<1> QED BY <1>1, <1>2 DEF Means

(* The same, for a table: the slots that are filled, the slot of a key, *)
(* and the dict.                                                        *)
StoredIn(m) == {p \in DOMAIN m.table : Filled(m, p)}
SlotIn(m, c) == CHOOSE p \in StoredIn(m) : Class[m.table[p].key] = c
DictOf(m) == [c \in {Class[m.table[p].key] : p \in StoredIn(m)} |-> m.table[SlotIn(m, c)].value]

(* They are those of MpMap, before and after a step. *)
LEMMA DictIs == TheDict = DictOf(t) /\ TheDict' = DictOf(t')
BY DEF TheDict, DictOf, Stored, Slots, SlotOf, StoredIn, SlotIn

(* The domain of a table that is in order is its slots. *)
LEMMA StoredInSlots == ASSUME NEW m, GoodTable(m) PROVE StoredIn(m) = FilledSlots(m)
BY DEF GoodTable, Typed, StoredIn, FilledSlots

(* The dict says what the table says. *)
LEMMA DictMeans ==
    ASSUME NEW m, GoodTable(m) PROVE Means(m, DictOf(m))
<1> DEFINE K == {Class[m.table[p].key] : p \in StoredIn(m)}
<1>1. StoredIn(m) = FilledSlots(m) /\ Unique(m)
  BY StoredInSlots DEF GoodTable
<1>2. DOMAIN DictOf(m) = K /\ \A c \in K : DictOf(m)[c] = m.table[SlotIn(m, c)].value
  BY DEF DictOf
<1>3. ASSUME NEW p \in FilledSlots(m) PROVE SlotIn(m, Class[KeyAt(m, p)]) = p
  <2>1. \E q \in StoredIn(m) : Class[m.table[q].key] = Class[KeyAt(m, p)]
    BY <1>1 DEF KeyAt
  <2>2. /\ SlotIn(m, Class[KeyAt(m, p)]) \in StoredIn(m)
        /\ Class[m.table[SlotIn(m, Class[KeyAt(m, p)])].key] = Class[KeyAt(m, p)]
    BY <2>1 DEF SlotIn
  <2> QED BY <1>1, <2>2 DEF Unique, KeyAt
<1>4. ASSUME NEW c, NEW v PROVE Has(m, c, v) <=> c \in K /\ DictOf(m)[c] = v
  <2>1. ASSUME Has(m, c, v) PROVE c \in K /\ DictOf(m)[c] = v
    <3>1. PICK p \in FilledSlots(m) : Class[KeyAt(m, p)] = c /\ m.table[p].value = v
      BY <2>1 DEF Has
    <3>2. c \in K /\ SlotIn(m, c) = p
      BY <1>1, <1>3, <3>1 DEF KeyAt
    <3> QED BY <1>2, <3>1, <3>2
  <2>2. ASSUME c \in K, DictOf(m)[c] = v PROVE Has(m, c, v)
    <3>1. PICK p \in FilledSlots(m) : Class[KeyAt(m, p)] = c
      BY <1>1, <2>2 DEF KeyAt
    <3>2. SlotIn(m, c) = p
      BY <1>3, <3>1
    <3>3. m.table[p].value = v
      BY <1>2, <2>2, <3>2
    <3> QED BY <3>1, <3>3 DEF Has
  <2> QED BY <2>1, <2>2
<1>5. DictOf(m) = [c \in DOMAIN DictOf(m) |-> DictOf(m)[c]]
  BY DEF DictOf
<1> QED BY <1>2, <1>4, <1>5 DEF Means

(* An empty table is the empty dict. *)
LEMMA EmptyDict ==
    ASSUME NEW m, GoodTable(m) PROVE FilledSlots(m) = {} <=> DictOf(m) = << >>
<1>1. StoredIn(m) = FilledSlots(m)
  BY StoredInSlots
<1>2. DOMAIN DictOf(m) = {Class[m.table[p].key] : p \in StoredIn(m)}
  BY DEF DictOf
<1>3. ASSUME FilledSlots(m) = {} PROVE DictOf(m) = << >>
  <2>1. DOMAIN DictOf(m) = 1..0
    BY <1>1, <1>2, <1>3
  <2>2. DictOf(m) \in [1..0 -> {}]
    BY <2>1, <1>1, <1>3 DEF DictOf
  <2> QED BY <2>2
<1>4. ASSUME DictOf(m) = << >> PROVE FilledSlots(m) = {}
  <2>1. DOMAIN DictOf(m) = {}
    BY <1>4
  <2> QED BY <1>1, <1>2, <2>1
<1> QED BY <1>3, <1>4

(* A key that gets a value, as the dict has it *)
LEMMA SetsWith ==
    ASSUME GoodTable(t), NEW c, NEW v, Sets(c, v)
    PROVE  TheDict' = D!With(c, v)
<1>1. Means(t, TheDict) /\ Means(t', TheDict')
  BY DictIs, DictMeans DEF Sets
<1> DEFINE g == [x \in DOMAIN TheDict \cup {c} |-> IF x = c THEN v ELSE TheDict[x]]
<1>2. D!With(c, v) = g
  BY DEF D!With, TheDict
<1>3. Means(t', g)
  <2>1. g = [x \in DOMAIN g |-> g[x]] /\ DOMAIN g = DOMAIN TheDict \cup {c}
    OBVIOUS
  <2>2. \A x \in DOMAIN g : g[x] = IF x = c THEN v ELSE TheDict[x]
    OBVIOUS
  <2> HIDE DEF g
  <2> QED BY <1>1, <2>1, <2>2 DEF Means, Sets
<1> HIDE DEF g
<1> QED BY <1>1, <1>2, <1>3, OneMeaning

(* A key that goes away *)
LEMMA DropsWithout ==
    ASSUME GoodTable(t), NEW c, Drops(c)
    PROVE  TheDict' = D!Without(c)
<1>1. Means(t, TheDict) /\ Means(t', TheDict')
  BY DictIs, DictMeans DEF Drops
<1> DEFINE g == [x \in DOMAIN TheDict \ {c} |-> TheDict[x]]
<1>2. D!Without(c) = g
  BY DEF D!Without, TheDict
<1>3. Means(t', g)
  <2>1. g = [x \in DOMAIN g |-> g[x]] /\ DOMAIN g = DOMAIN TheDict \ {c}
    OBVIOUS
  <2>2. \A x \in DOMAIN g : g[x] = TheDict[x]
    OBVIOUS
  <2> HIDE DEF g
  <2> QED BY <1>1, <2>1, <2>2 DEF Means, Drops
<1> HIDE DEF g
<1> QED BY <1>1, <1>2, <1>3, OneMeaning

(* A key is found when it is in the dict, with its value there. *)
LEMMA FoundInDict ==
    ASSUME GoodTable(t), NEW k \in Objects
    PROVE  /\ Found(t, k) <=> Class[k] \in DOMAIN TheDict
           /\ Found(t, k) => ~Shortcut(t, k) /\ t.table[At(t, k)].value = TheDict[Class[k]]
BY DictIs, DictMeans, HasFound DEF Means

(* The dict depends on the slots only. *)
LEMMA SameSlots == t'.table = t.table => TheDict' = TheDict
BY DEF TheDict, Stored, Slots, SlotOf, Filled

(* An operation of the dict, on a table that stays in order *)
LEMMA OperationIsNext ==
    ASSUME ~Broken, GoodTable(t'), kind' = kind, D!Operation PROVE D!Next
<1>1. ~Broken'
  BY GoodWhole DEF Broken
<1>2. UNCHANGED Broken
  BY <1>1, SMT DEF Broken
<1> QED BY <1>2 DEF D!Next

(* Every operation is one of the dict. *)
LEMMA StepRefines == IInv /\ [Next]_vars => [D!Next]_(D!vars)
<1> SUFFICES ASSUME IInv, [Next]_vars PROVE [D!Next]_(D!vars)
  OBVIOUS
<1>kind. kind' = kind /\ kind \in {"map", "set"}
  BY KindKept DEF IInv
<1>1. \A v : Answer(v) = D!Value(v)
  BY DEF Answer, Slot, D!Value, D!Item
<1>2. \A k \in Objects : Class[k] \in Classes
  BY MpMapAssumption
<1>3. ASSUME ~Broken PROVE GoodTable(t)
  BY <1>3 DEF IInv
<1>4. ASSUME ~Broken, NEW k \in Objects, Fails(k) PROVE D!Next
  <2>1. TheDict' = TheDict /\ Class[k] \notin DOMAIN TheDict /\ ret' = D!Value("MemoryError")
    BY <1>1, <1>3, <1>4, SameSlots, FoundInDict DEF Fails
  <2>2. Broken' \in {FALSE, kind = "set"}
    <3>1. CASE kind = "map"
      BY <1>4, <3>1 DEF Fails, Broken
    <3>2. CASE kind = "set"
      BY <3>2 DEF Broken
    <3> QED BY <1>kind, <3>1, <3>2
  <2>3. D!StoreFails(Class[k])
    BY <2>1, <2>2 DEF D!StoreFails, TheDict
  <2> QED BY <1>kind, <1>2, <1>4, <2>3 DEF D!Next
<1>op. ASSUME ~Broken, GoodTable(t'), D!Operation PROVE D!Next
  BY <1>kind, <1>op, OperationIsNext
<1>5. CASE UNCHANGED vars
  <2>1. TheDict' = TheDict /\ ret' = ret /\ Broken' = Broken
    BY <1>5, SameSlots DEF vars, Broken
  <2> QED BY <1>kind, <2>1 DEF D!vars, TheDict
<1>6. CASE Clear
  <2>1. TheDict' = << >> /\ ret' = D!Value("ok")
    BY <1>1, <1>6, ClearEffect, DictIs, EmptyDict
  <2>2. Broken' = FALSE
    BY <1>6, ClearEffect, GoodWhole DEF Broken
  <2>3. D!Clear
    BY <2>1, <2>2 DEF D!Clear, TheDict
  <2> QED BY <1>kind, <2>3 DEF D!Next
<1>7. ASSUME ~Broken, NEW k \in Objects, NEW v \in ValuesOf, Store(k, v) PROVE D!Next
  <2>1. v \in Values \cup {"in"}
    BY DEF ValuesOf
  <2>2. (Sets(Class[k], v) /\ ret' = Answer("ok")) \/ Fails(k)
    BY <1>3, <1>7, <2>1, StoreEffect
  <2>3. CASE Sets(Class[k], v) /\ ret' = Answer("ok")
    <3>1. D!Store(Class[k], v)
      BY <1>1, <1>3, <1>7, <2>3, SetsWith DEF D!Store, TheDict
    <3>2. D!Operation
      BY <1>2, <2>1, <3>1 DEF D!Operation
    <3> QED BY <1>7, <1>op, <2>3, <3>2 DEF Sets
  <2>4. CASE Fails(k)
    BY <1>4, <1>7, <2>4
  <2> QED BY <2>2, <2>3, <2>4
<1>8. ASSUME ~Broken, NEW k \in Objects, NEW v \in ValuesOf, SetDefault(k, v) PROVE D!Next
  <2>1. v \in Values \cup {"in"} /\ GoodTable(t)
    BY <1>3, <1>8 DEF ValuesOf
  <2>2. CASE Found(t, k) /\ t' = t /\ ret' = Answer(t.table[At(t, k)].value)
    <3>1. /\ Class[k] \in DOMAIN TheDict /\ ret' = D!Value(TheDict[Class[k]])
          /\ TheDict' = TheDict
      BY <1>1, <2>1, <2>2, FoundInDict, SameSlots
    <3>2. D!SetDefault(Class[k], v)
      BY <3>1 DEF D!SetDefault, TheDict
    <3>3. D!Operation
      BY <1>2, <2>1, <3>2 DEF D!Operation
    <3> QED BY <1>8, <1>op, <2>1, <2>2, <3>3
  <2>3. CASE ~Found(t, k) /\ Sets(Class[k], v) /\ ret' = Answer(v)
    <3>1. /\ Class[k] \notin DOMAIN TheDict /\ ret' = D!Value(v)
          /\ TheDict' = D!With(Class[k], v)
      BY <1>1, <2>1, <2>3, FoundInDict, SetsWith
    <3>2. D!SetDefault(Class[k], v)
      BY <3>1 DEF D!SetDefault, TheDict
    <3>3. D!Operation
      BY <1>2, <2>1, <3>2 DEF D!Operation
    <3> QED BY <1>8, <1>op, <2>3, <3>3 DEF Sets
  <2>4. CASE Fails(k)
    BY <1>4, <1>8, <2>4
  <2> QED BY <1>8, <2>1, <2>2, <2>3, <2>4, SetDefaultEffect
<1>9. ASSUME ~Broken, NEW k \in Objects, Get(k) PROVE D!Next
  <2>1. GoodTable(t)
    BY <1>3, <1>9
  <2>2. TheDict' = TheDict
    BY <1>9, SameSlots DEF Get
  <2>3. ret' = D!Value(IF Class[k] \in DOMAIN TheDict THEN TheDict[Class[k]] ELSE "KeyError")
    BY <1>1, <1>9, <2>1, FoundInDict DEF Get
  <2>4. D!Get(Class[k])
    BY <2>2, <2>3 DEF D!Get, TheDict
  <2>5. D!Operation
    BY <1>2, <2>4 DEF D!Operation
  <2> QED BY <1>9, <1>op, <2>1, <2>5 DEF Get
<1>10. ASSUME ~Broken, NEW k \in Objects, Pop(k) PROVE D!Next
  <2>1. GoodTable(t)
    BY <1>3, <1>10
  <2>2. CASE Found(t, k) /\ Drops(Class[k]) /\ ret' = Answer(t.table[At(t, k)].value)
    <3>1. /\ Class[k] \in DOMAIN TheDict /\ ret' = D!Value(TheDict[Class[k]])
          /\ TheDict' = D!Without(Class[k])
      BY <1>1, <2>1, <2>2, FoundInDict, DropsWithout
    <3>2. D!Pop(Class[k])
      BY <3>1 DEF D!Pop, TheDict
    <3>3. D!Operation
      BY <1>2, <3>2 DEF D!Operation
    <3> QED BY <1>10, <1>op, <2>2, <3>3 DEF Drops
  <2>3. CASE (Shortcut(t, k) \/ ~Found(t, k)) /\ t' = t /\ ret' = Answer("KeyError")
    <3>1. /\ Class[k] \notin DOMAIN TheDict /\ ret' = D!Value("KeyError")
          /\ TheDict' = TheDict
      BY <1>1, <2>1, <2>3, FoundInDict, SameSlots
    <3>2. D!Pop(Class[k])
      BY <3>1 DEF D!Pop, TheDict
    <3>3. D!Operation
      BY <1>2, <3>2 DEF D!Operation
    <3> QED BY <1>10, <1>op, <2>1, <2>3, <3>3
  <2> QED BY <1>10, <2>1, <2>2, <2>3, PopEffect
<1>11. ASSUME ~Broken, NEW k \in Objects, set_toggle(k) PROVE D!Next
  <2>1. GoodTable(t)
    BY <1>3, <1>11
  <2>2. CASE Found(t, k) /\ Drops(Class[k]) /\ ret' = Answer("ok")
    <3>1. /\ Class[k] \in DOMAIN TheDict /\ ret' = D!Value("ok")
          /\ TheDict' = D!Without(Class[k])
      BY <1>1, <2>1, <2>2, FoundInDict, DropsWithout
    <3>2. D!Toggle(Class[k], "in")
      BY <3>1 DEF D!Toggle, TheDict
    <3>3. D!Operation
      BY <1>2, <3>2 DEF D!Operation
    <3> QED BY <1>11, <1>op, <2>2, <3>3 DEF Drops
  <2>3. CASE ~Found(t, k) /\ Sets(Class[k], "in") /\ ret' = Answer("ok")
    <3>1. D!Store(Class[k], "in")
      BY <1>1, <2>1, <2>3, SetsWith DEF D!Store, TheDict
    <3>2. D!Operation
      BY <1>2, <3>1 DEF D!Operation
    <3> QED BY <1>11, <1>op, <2>3, <3>2 DEF Sets
  <2>4. CASE Fails(k)
    BY <1>4, <1>11, <2>4
  <2> QED BY <1>11, <2>1, <2>2, <2>3, <2>4, ToggleEffect
<1>12. ASSUME ~Broken, dict_popitem \/ set_pop PROVE D!Next
  <2>1. GoodTable(t)
    BY <1>3, <1>12
  <2>2. CASE FilledSlots(t) = {} /\ t' = t /\ ret' = Answer("KeyError")
    <3>1. TheDict = << >> /\ TheDict' = TheDict /\ ret' = D!Value("KeyError")
      BY <1>1, <2>1, <2>2, DictIs, EmptyDict, SameSlots
    <3>2. D!PopItem
      BY <3>1 DEF D!PopItem, TheDict
    <3>3. D!Operation
      BY <3>2 DEF D!Operation
    <3> QED BY <1>12, <1>op, <2>1, <2>2, <3>3
  <2>3. ASSUME NEW p \in FilledSlots(t), Drops(Class[KeyAt(t, p)]),
               ret' \in {Slot(Class[KeyAt(t, p)], t.table[p].value), Answer("MemoryError")}
        PROVE  D!Next
    <3> DEFINE c == Class[KeyAt(t, p)]
    <3>1. c \in DOMAIN TheDict /\ TheDict[c] = t.table[p].value
      <4>1. Has(t, c, t.table[p].value)
        BY DEF Has
      <4> QED BY <2>1, <4>1, DictIs, DictMeans DEF Means
    <3>2. TheDict # << >>
      BY <2>1, DictIs, EmptyDict
    <3>3. TheDict' = D!Without(c)
      BY <2>1, <2>3, DropsWithout
    <3>4. ret' \in {D!Item(c, TheDict[c]), D!Value("MemoryError")}
      BY <1>1, <2>3, <3>1 DEF Slot, D!Item
    <3> HIDE DEF c
    <3>5. D!PopItem
      BY <3>1, <3>2, <3>3, <3>4 DEF D!PopItem, TheDict
    <3>6. D!Operation
      BY <3>5 DEF D!Operation
    <3> QED BY <1>12, <1>op, <2>3, <3>6 DEF Drops
  <2> QED BY <1>12, <2>1, <2>2, <2>3, PopItemEffect
<1> QED BY <1>5, <1>6, <1>7, <1>8, <1>9, <1>10, <1>11, <1>12 DEF Next

(***************************************************************************)
(* The hash table implements a finite function from keys to values, for    *)
(* every set of keys, hash function, table size and sequence of operations.*)
(* A dict whose growth fails keeps all its keys and all its operations; a  *)
(* set is lost by a growth that fails, until it is cleared, and by nothing *)
(* else.                                                                   *)
(***************************************************************************)
THEOREM MapImplementsDict == Spec => RefinesDict
<1>1. Init => D!Init
  <2> SUFFICES ASSUME Init PROVE D!Init
    OBVIOUS
  <2>1. PICK n \in InitSizes : t = Empty(n)
    BY DEF Init
  <2>2. GoodTable(t) /\ FilledSlots(t) = {}
    BY <2>1, EmptyGood, MpMapAssumption
  <2>3. TheDict = << >> /\ ret = D!Value("ok")
    BY <2>2, DictIs, EmptyDict DEF Init, Answer, Slot, D!Value, D!Item
  <2>4. Broken = FALSE
    BY <2>2, GoodWhole DEF Broken
  <2> QED BY <2>3, <2>4 DEF Init, D!Init, TheDict
<1> QED BY <1>1, StepRefines, Invariance, PTL DEF Spec, RefinesDict, D!Spec
==============================================================================
